------------------------ MODULE RefreshTokensProofs ------------------------
(***************************************************************************)
(* Type correctness of RefreshTokens, two facts of the server's token      *)
(* families (a login has one live token, and a login that was ended stays  *)
(* dead), and that reuse detection accuses no honest client, for any       *)
(* number of clients, requests and tokens.                                 *)
(***************************************************************************)
EXTENDS RefreshTokens, FiniteSetTheorems, SequenceTheorems, TLAPS

USE TokensAssumption

\* Every token a client holds or a request carries was issued, and the family
\* of a token is the first token of its login.
Token(t) == t = None \/ t \in Issued
HeldInv ==
    /\ \A t \in Issued : token[t].family \in Issued
    /\ \A b \in Browsers : Token(cookie[b]) /\ Token(cached[b]) /\ Token(disk[b])
    /\ \A p \in Tabs : \A i \in 1..Len(tab[p].saves) : tab[p].saves[i][2] \in Issued
    /\ \A k \in Calls : Token(call[k].tok) /\ Token(call[k].new)
    /\ overlapped \cup ended \cup lost \subseteq Families

\* What a request carries at each step.
CallInv ==
    \A k \in Calls :
        /\ call[k].pc = "mint" => call[k].op \in {"refresh", "password"}
        /\ call[k].op \in {"login", "password"} => call[k].tok = None
        /\ call[k].pc = "mint" /\ call[k].op = "refresh" => call[k].tok # None
        /\ call[k].pc = "retire" => call[k].op = "refresh" /\ call[k].tok # None /\ call[k].new # None
        /\ call[k].pc = "reuse" => call[k].op = "refresh" /\ call[k].tok # None
        /\ call[k].pc = "close" => call[k].op = "logout" /\ call[k].tok # None
        /\ call[k].pc = "answer" /\ call[k].verdict = "ok" => call[k].new # None
        /\ call[k].pc = "answer" => (call[k].op \in {"login", "password"} => call[k].verdict = "ok")
        /\ call[k].pc \in {"new", "over"} => call[k].op = "none"
        
\* Two requests the server works on at once for one login are overlapping ones.
Working(k) == call[k].pc \in {"sent", "mint", "retire", "reuse", "close"}
AloneInv ==
    \A j, k \in Calls : j # k /\ Working(j) /\ Working(k) /\ call[k].op # "password" =>
        FamilyOf(call[k].tok) \cap Touches(j) \subseteq overlapped

\* The live tokens of a login whose requests never overlapped: one, or the two
\* of a rotation under way.
Retiring(f) == \E k \in Calls : call[k].pc = "retire" /\ f \in FamilyOf(call[k].tok)
OneLive == \A f \in Families \ overlapped : Retiring(f) \/ \A t, u \in Live(f) : t = u
Rotates(k) == call[k].op = "refresh" /\ call[k].pc \in {"mint", "retire"}
RotationOf(k, f) ==
    /\ f \notin ended
    /\ Live(f) \subseteq {call[k].tok, call[k].new}
    /\ call[k].pc = "mint" => Live(f) = {call[k].tok}
RotateInv == \A k \in Calls : Rotates(k) /\ token[call[k].tok].family \notin overlapped
                                => RotationOf(k, token[call[k].tok].family)
LiveInv == EndedLoginIsDead /\ OneLive /\ RotateInv

Typed == TypeOK /\ HeldInv /\ CallInv

LEMMA NoneApart == None \notin Tokens /\ None \notin Calls /\ None \notin Tabs
OBVIOUS

LEMMA TypedInit == Init => Typed
<1> SUFFICES ASSUME Init PROVE Typed
  OBVIOUS
<1>1. token \in [Tokens -> Row] /\ call \in [Calls -> Request]
  BY DEF Init, NoRow, Row, NoCall, Request, Maybe
<1>2. tab \in [Tabs -> Page]
  <2>1. <<>> \in Seq({"refresh", "login"} \X Tokens)
    OBVIOUS
  <2> QED BY <2>1 DEF Init, BlankPage, Page, Maybe
<1>3. TypeOK
  BY <1>1, <1>2 DEF Init, TypeOK, Maybe
<1>4. HeldInv
  BY DEF Init, HeldInv, Issued, Token, NoRow, NoCall, BlankPage
<1>5. CallInv
  BY DEF Init, CallInv, NoCall
<1> QED BY <1>3, <1>4, <1>5 DEF Typed

\* Steps that leave the families of the tokens alone.
LEMMA SameFamilies ==
    ASSUME \A t \in Tokens : token'[t].family = token[t].family
    PROVE  /\ Issued' = Issued /\ Families' = Families
           /\ \A t : Token(t)' <=> Token(t)
           /\ \A t \in Maybe(Tokens) : FamilyOf(t)' = FamilyOf(t)
BY DEF Issued, Families, Token, FamilyOf, Maybe

LEMMA FamilyHeld ==
    ASSUME Typed, NEW t, Token(t)
    PROVE  /\ FamilyOf(t) \subseteq Families /\ FamilyOf(t) \subseteq Issued
           /\ Families \subseteq Issued /\ Issued \subseteq Tokens
           /\ t \in Maybe(Tokens)
BY DEF Typed, HeldInv, FamilyOf, Families, Token, Issued, Maybe

LEMMA PresentedHeld ==
    ASSUME Typed, NEW b \in Browsers
    PROVE  Token(Presented(b))
BY DEF Typed, HeldInv, Presented

\* One request changes.
LEMMA OneCall ==
    ASSUME call \in [Calls -> Request], NEW k \in Calls, NEW r \in Request,
           call' = [call EXCEPT ![k] = r]
    PROVE  /\ call' \in [Calls -> Request]
           /\ \A j \in Calls : call'[j] = IF j = k THEN r ELSE call[j]
OBVIOUS

LEMMA OnePage ==
    ASSUME tab \in [Tabs -> Page], NEW p \in Tabs, NEW r \in Page,
           tab' = [tab EXCEPT ![p] = r]
    PROVE  /\ tab' \in [Tabs -> Page]
           /\ \A q \in Tabs : tab'[q] = IF q = p THEN r ELSE tab[q]
OBVIOUS

LEMMA SendTyped ==
    ASSUME Typed, NEW p \in Tabs, NEW op \in {"login", "refresh", "logout", "password"}, NEW field,
           Send(p, op, field)
    PROVE  Typed'
<1> DEFINE tok == IF op \in {"refresh", "logout"} THEN Presented(BrowserOf[p]) ELSE None
           body == BrowserOf[p] \in Native /\ cached[BrowserOf[p]] # None
           mine == IF op = "password" THEN Families ELSE FamilyOf(tok)
<1>1. PICK k \in Calls :
         /\ call[k].pc = "new"
         /\ call' = [call EXCEPT ![k] = [NoCall EXCEPT !.op = op, !.tab = p, !.tok = tok, !.pc = "sent", !.body = body]]
         /\ tab' = [tab EXCEPT ![p] = IF field = "refresh" THEN [@ EXCEPT !.refresh = k]
                                                           ELSE [@ EXCEPT !.ask = k]]
         /\ overlapped' = overlapped \cup
               UNION {mine \cap Touches(j) : j \in {j \in Calls : Outstanding(j)
                         /\ ~(op = "refresh" /\ tab[p].refresh = j)}}
  BY DEF Send
<1>2. UNCHANGED <<token, cookie, cached, disk, ended, lost>>
  BY DEF Send
<1>3. Token(tok) /\ mine \subseteq Families /\ tok \in Maybe(Tokens)
  <2>1. BrowserOf[p] \in Browsers
    OBVIOUS
  <2>2. Token(tok)
    BY <2>1, PresentedHeld DEF Token
  <2> QED BY <2>2, FamilyHeld
<1>4. overlapped' \subseteq overlapped \cup Families
  BY <1>1, <1>3
<1>5. Issued' = Issued /\ Families' = Families /\ \A t : Token(t)' <=> Token(t)
  BY <1>2, SameFamilies
<1> DEFINE r == [NoCall EXCEPT !.op = op, !.tab = p, !.tok = tok, !.pc = "sent", !.body = body]
<1>6. r \in Request /\ r.op = op /\ r.tok = tok /\ r.pc = "sent" /\ r.new = None
  BY <1>3 DEF NoCall, Request, Maybe
<1>7. /\ call' \in [Calls -> Request]
      /\ \A j \in Calls : call'[j] = IF j = k THEN r ELSE call[j]
  BY <1>1, <1>6, OneCall DEF Typed, TypeOK
<1> DEFINE q == IF field = "refresh" THEN [tab[p] EXCEPT !.refresh = k] ELSE [tab[p] EXCEPT !.ask = k]
<1>8. q \in Page /\ q.saves = tab[p].saves
  <2>1. tab[p] \in Page
    BY DEF Typed, TypeOK
  <2>2. CASE field = "refresh"
    BY <2>1, <2>2 DEF Page, Maybe
  <2>3. CASE field # "refresh"
    BY <2>1, <2>3 DEF Page, Maybe
  <2> QED BY <2>2, <2>3
<1>9. /\ tab' \in [Tabs -> Page]
      /\ \A o \in Tabs : tab'[o] = IF o = p THEN q ELSE tab[o]
  BY <1>1, <1>8, OnePage DEF Typed, TypeOK
<1>10. TypeOK'
  <2>1. Families \subseteq Tokens
    BY FamilyHeld DEF Token
  <2> QED BY <1>2, <1>4, <1>7, <1>9, <2>1 DEF Typed, TypeOK
<1>11. HeldInv'
  <2>1. \A o \in Tabs : tab'[o].saves = tab[o].saves
    BY <1>8, <1>9
  <2>2. \A j \in Calls : Token(call'[j].tok) /\ Token(call'[j].new)
    BY <1>3, <1>6, <1>7 DEF Typed, HeldInv, Token
  <2> QED BY <1>2, <1>4, <1>5, <2>1, <2>2 DEF Typed, HeldInv, Token
<1>12. CallInv'
  <2>1. op \in {"login", "password"} => tok = None
    OBVIOUS
  <2> HIDE DEF r, tok
  <2>2. \A j \in Calls : call'[j] = call[j] \/ (call'[j] = r /\ j = k)
    BY <1>7
  <2> QED BY <1>6, <2>1, <2>2 DEF Typed, CallInv
<1> QED BY <1>10, <1>11, <1>12 DEF Typed

\* Steps of the server that issue nothing.
LEMMA ServerTyped ==
    ASSUME Typed, UNCHANGED <<tab, cookie, cached, disk, overlapped, lost>>,
           token' \in [Tokens -> Row], \A t \in Tokens : token'[t].family = token[t].family,
           call' \in [Calls -> Request],
           \A k \in Calls : call'[k].tok = call[k].tok /\ call'[k].new = call[k].new,
           ended' \subseteq ended \cup Families
    PROVE  TypeOK' /\ HeldInv'
<1>1. Issued' = Issued /\ Families' = Families /\ \A t : Token(t)' <=> Token(t)
  BY SameFamilies
<1>2. Families \subseteq Tokens
  BY FamilyHeld DEF Token
<1>3. TypeOK'
  BY <1>2 DEF Typed, TypeOK
<1>4. \A t \in Issued' : token'[t].family \in Issued'
  BY <1>1 DEF Typed, HeldInv, Issued
<1>5. HeldInv'
  BY <1>1, <1>4 DEF Typed, HeldInv, Token
<1> QED BY <1>3, <1>5

LEMMA RowType ==
    ASSUME Typed, NEW t \in Tokens
    PROVE  /\ token[t] \in Row
           /\ [token[t] EXCEPT !.revoked = TRUE] \in Row
           /\ [token[t] EXCEPT !.revoked = TRUE].family = token[t].family
           /\ [token[t] EXCEPT !.revoked = TRUE].revoked = TRUE
           /\ [token[t] EXCEPT !.expired = TRUE] \in Row
           /\ [token[t] EXCEPT !.expired = TRUE].family = token[t].family
           /\ [token[t] EXCEPT !.expired = TRUE].revoked = token[t].revoked
<1>1. token[t] \in Row
  BY DEF Typed, TypeOK
<1> QED BY <1>1 DEF Row

LEMMA RevokedType ==
    ASSUME Typed, NEW F
    PROVE  /\ Revoked(F) \in [Tokens -> Row]
           /\ \A t \in Tokens : /\ Revoked(F)[t].family = token[t].family
                                /\ Revoked(F)[t].revoked = (token[t].revoked \/ token[t].family \in F)
<1>1. \A t \in Tokens : Revoked(F)[t] = IF token[t].family \in F
                                THEN [token[t] EXCEPT !.revoked = TRUE] ELSE token[t]
  BY DEF Revoked
<1>2. \A t \in Tokens : token[t].revoked \in BOOLEAN
  BY RowType DEF Row
<1> QED BY <1>1, <1>2, RowType DEF Revoked

LEMMA AnswerType ==
    ASSUME Typed, NEW k \in Calls, NEW v \in {"none", "ok", "rejected", "closed"}
    PROVE  /\ Answer(k, v) \in Request
           /\ Answer(k, v).op = call[k].op /\ Answer(k, v).tok = call[k].tok
           /\ Answer(k, v).new = call[k].new /\ Answer(k, v).pc = "answer"
           /\ Answer(k, v).verdict = v /\ Answer(k, v).tab = call[k].tab /\ Answer(k, v).body = call[k].body
<1>1. call[k] \in Request
  BY DEF Typed, TypeOK
<1> QED BY <1>1 DEF Answer, Request

LEMMA PcType ==
    ASSUME Typed, NEW k \in Calls, NEW pc \in {"mint", "reuse", "close"}
    PROVE  /\ [call[k] EXCEPT !.pc = pc] \in Request
           /\ [call[k] EXCEPT !.pc = pc].op = call[k].op
           /\ [call[k] EXCEPT !.pc = pc].tok = call[k].tok
           /\ [call[k] EXCEPT !.pc = pc].new = call[k].new
           /\ [call[k] EXCEPT !.pc = pc].pc = pc
           /\ [call[k] EXCEPT !.pc = pc].tab = call[k].tab /\ [call[k] EXCEPT !.pc = pc].body = call[k].body
           /\ [call[k] EXCEPT !.pc = pc].verdict = call[k].verdict
<1>1. call[k] \in Request
  BY DEF Typed, TypeOK
<1> QED BY <1>1 DEF Request

\* What Find decides.
LEMMA FindCase ==
    ASSUME Typed, NEW k \in Calls, Find(k)
    PROVE  /\ call[k].pc = "sent" /\ call[k].op \in {"refresh", "logout"}
           /\ call' \in [Calls -> Request]
           /\ \A j \in Calls : /\ call'[j].op = call[j].op /\ call'[j].tok = call[j].tok
                               /\ call'[j].new = call[j].new /\ call'[j].tab = call[j].tab /\ call'[j].body = call[j].body
                               /\ j # k => call'[j] = call[j]
           /\ \/ call'[k].pc = "answer" /\ call'[k].verdict \in {"rejected", "closed"}
              \/ call'[k].pc = "close" /\ call[k].op = "logout" /\ call[k].tok # None
              \/ /\ call'[k].pc = "reuse" /\ call[k].op = "refresh" /\ call[k].tok # None
                 /\ token[call[k].tok].revoked
              \/ /\ call'[k].pc = "mint" /\ call[k].op = "refresh" /\ call[k].tok # None
                 /\ ~token[call[k].tok].revoked
<1>1. call[k].pc = "sent" /\ call[k].op \in {"refresh", "logout"}
  BY DEF Find
<1> DEFINE closed == Answer(k, "closed")
           close == [call[k] EXCEPT !.pc = "close"]
           rejected == Answer(k, "rejected")
           reuse == [call[k] EXCEPT !.pc = "reuse"]
           mint == [call[k] EXCEPT !.pc = "mint"]
<1>3. PICK r : /\ call' = [call EXCEPT ![k] = r]
               /\ \/ call[k].op = "logout" /\ call[k].tok = None /\ r = closed
                  \/ call[k].op = "logout" /\ call[k].tok # None /\ r = close
                  \/ call[k].op = "refresh" /\ r = rejected
                  \/ call[k].op = "refresh" /\ call[k].tok # None /\ token[call[k].tok].revoked
                       /\ r = reuse
                  \/ call[k].op = "refresh" /\ call[k].tok # None /\ ~token[call[k].tok].revoked
                       /\ r = mint
  BY DEF Find
<1>4. /\ r \in Request /\ r.op = call[k].op /\ r.tok = call[k].tok /\ r.new = call[k].new
      /\ r.tab = call[k].tab /\ r.body = call[k].body
      /\ \/ r.pc = "answer" /\ r.verdict \in {"rejected", "closed"}
         \/ r.pc = "close" /\ call[k].op = "logout" /\ call[k].tok # None
         \/ r.pc = "reuse" /\ call[k].op = "refresh" /\ call[k].tok # None /\ token[call[k].tok].revoked
         \/ r.pc = "mint" /\ call[k].op = "refresh" /\ call[k].tok # None /\ ~token[call[k].tok].revoked
  <2>1. \A x \in {closed, rejected} : /\ x \in Request /\ x.op = call[k].op /\ x.tok = call[k].tok
                                      /\ x.new = call[k].new /\ x.tab = call[k].tab /\ x.body = call[k].body /\ x.pc = "answer"
                                      /\ x.verdict \in {"rejected", "closed"}
    BY AnswerType
  <2>2. \A pc \in {"mint", "reuse", "close"} :
           LET x == [call[k] EXCEPT !.pc = pc] IN
           /\ x \in Request /\ x.op = call[k].op /\ x.tok = call[k].tok
           /\ x.new = call[k].new /\ x.tab = call[k].tab /\ x.body = call[k].body /\ x.pc = pc
    BY PcType
  <2>4. \A x \in {close, reuse, mint} : /\ x \in Request /\ x.op = call[k].op /\ x.tok = call[k].tok
                                        /\ x.new = call[k].new /\ x.tab = call[k].tab /\ x.body = call[k].body
    BY <2>2
  <2>3. close.pc = "close" /\ reuse.pc = "reuse" /\ mint.pc = "mint"
    BY <2>2
  <2> HIDE DEF closed, close, rejected, reuse, mint
  <2> QED BY <1>3, <2>1, <2>3, <2>4
<1>5. /\ call' \in [Calls -> Request]
      /\ \A j \in Calls : call'[j] = IF j = k THEN r ELSE call[j]
  BY <1>3, <1>4, OneCall DEF Typed, TypeOK
<1> QED BY <1>1, <1>4, <1>5

LEMMA FindTyped ==
    ASSUME Typed, NEW k \in Calls, Find(k)
    PROVE  Typed'
<1>1. UNCHANGED <<token, tab, cookie, cached, disk, overlapped, ended, lost>>
  BY DEF Find, client
<1>2. TypeOK' /\ HeldInv'
  BY <1>1, FindCase, ServerTyped DEF Typed, TypeOK
<1>3. CallInv'
  BY FindCase DEF Typed, CallInv
<1> QED BY <1>2, <1>3 DEF Typed

\* What Mint does: a fresh token, of the family of the presented one or its own.
LEMMA MintCase ==
    ASSUME Typed, NEW k \in Calls, Mint(k)
    PROVE  \E t \in Tokens \ Issued :
             /\ token' \in [Tokens -> Row] /\ call' \in [Calls -> Request]
             /\ \A u \in Tokens : u # t => token'[u] = token[u]
             /\ token'[t].family = (IF call[k].op = "refresh" THEN token[call[k].tok].family ELSE t)
             /\ ~token'[t].revoked
             /\ call[k].op = "refresh" => call[k].pc = "mint" /\ call[k].tok \in Issued
             /\ call[k].op = "refresh" \/ call[k].pc = "mint" \/ call[k].op = "login"
             /\ \A j \in Calls : /\ j # k => call'[j] = call[j]
                                 /\ call'[j].op = call[j].op /\ call'[j].tok = call[j].tok
                                 /\ call'[j].tab = call[j].tab /\ call'[j].body = call[j].body
             /\ call'[k].new = t
             /\ call'[k].pc = (IF call[k].op = "refresh" THEN "retire" ELSE "answer")
             /\ call[k].op # "refresh" => call'[k].verdict = "ok" /\ call[k].op \in {"login", "password"}
             /\ Issued' = Issued \cup {t}
<1>1. PICK t \in Tokens \ Issued :
         /\ token' = [token EXCEPT ![t] = [NoRow EXCEPT !.family =
                        IF call[k].op = "refresh" THEN token[call[k].tok].family ELSE t]]
         /\ call' = [call EXCEPT ![k] = IF @.op = "refresh"
                       THEN [@ EXCEPT !.pc = "retire", !.new = t]
                       ELSE [Answer(k, "ok") EXCEPT !.new = t]]
  BY DEF Mint
<1>2. call[k].pc = "mint" \/ (call[k].pc = "sent" /\ call[k].op = "login")
  BY DEF Mint, Mints
<1>3. call[k].op = "refresh" => call[k].pc = "mint" /\ call[k].tok \in Issued
  BY <1>2 DEF Typed, CallInv, HeldInv, Token
<1>4. call[k].op \in {"refresh", "login", "password"}
  BY <1>2 DEF Typed, CallInv
<1> DEFINE f == IF call[k].op = "refresh" THEN token[call[k].tok].family ELSE t
           row == [NoRow EXCEPT !.family = f]
           r == IF call[k].op = "refresh" THEN [call[k] EXCEPT !.pc = "retire", !.new = t]
                ELSE [Answer(k, "ok") EXCEPT !.new = t]
<1>5. f \in Tokens
  BY <1>3 DEF Typed, HeldInv, Issued
<1>6. row \in Row /\ row.family = f /\ ~row.revoked
  <2> HIDE DEF f
  <2> QED BY <1>5 DEF NoRow, Row, Maybe
<1>7. call[k] \in Request
  BY DEF Typed, TypeOK
<1>8. /\ r \in Request /\ r.op = call[k].op /\ r.tok = call[k].tok /\ r.tab = call[k].tab /\ r.body = call[k].body /\ r.new = t
      /\ r.pc = (IF call[k].op = "refresh" THEN "retire" ELSE "answer")
      /\ call[k].op # "refresh" => r.verdict = "ok"
  <2>1. CASE call[k].op = "refresh"
    BY <1>7, <2>1 DEF Request, Maybe
  <2>2. CASE call[k].op # "refresh"
    <3>1. Answer(k, "ok") \in Request
      BY AnswerType
    <3> QED BY <1>7, <2>2, <3>1, AnswerType DEF Request, Maybe
  <2> QED BY <2>1, <2>2
<1> HIDE DEF row, r
<1>9. /\ token' \in [Tokens -> Row]
      /\ \A u \in Tokens : token'[u] = IF u = t THEN row ELSE token[u]
  BY <1>1, <1>6 DEF Typed, TypeOK, row
<1>10. /\ call' \in [Calls -> Request]
       /\ \A j \in Calls : call'[j] = IF j = k THEN r ELSE call[j]
  BY <1>1, <1>8, OneCall DEF Typed, TypeOK, r
<1>11. Issued' = Issued \cup {t}
  BY <1>5, <1>6, <1>9 DEF Issued
<1> QED BY <1>3, <1>4, <1>2, <1>6, <1>8, <1>9, <1>10, <1>11

LEMMA MintTyped ==
    ASSUME Typed, NEW k \in Calls, Mint(k)
    PROVE  Typed'
<1>1. UNCHANGED <<tab, cookie, cached, disk, overlapped, ended, lost>>
  BY DEF Mint, client
<1>2. TypeOK'
  BY <1>1, MintCase DEF Typed, TypeOK
<1>3. Issued \subseteq Issued' /\ \A t : Token(t) => Token(t)'
  BY MintCase DEF Token
<1>4. ASSUME NEW u \in Issued' PROVE token'[u].family \in Issued'
  <2>1. PICK t \in Tokens \ Issued :
           /\ \A o \in Tokens : o # t => token'[o] = token[o]
           /\ token'[t].family = (IF call[k].op = "refresh" THEN token[call[k].tok].family ELSE t)
           /\ call[k].op = "refresh" => call[k].tok \in Issued
           /\ Issued' = Issued \cup {t}
    BY MintCase
  <2>2. CASE u = t
    BY <2>1, <2>2 DEF Typed, HeldInv
  <2>3. CASE u # t
    <3>1. u \in Issued /\ u \in Tokens
      BY <2>1, <2>3 DEF Issued
    <3> QED BY <2>1, <2>3, <3>1 DEF Typed, HeldInv
  <2> QED BY <2>2, <2>3
<1>5. Families \subseteq Families'
  <2>1. \A t \in Issued : t \in Issued' /\ token'[t] = token[t]
    BY MintCase DEF Issued
  <2> QED BY <2>1 DEF Families
<1>6. \A j \in Calls : Token(call[j].tok)' /\ Token(call[j].new)'
  BY <1>3, MintCase DEF Typed, HeldInv, Token
<1>7. HeldInv'
  BY <1>1, <1>3, <1>4, <1>5, <1>6 DEF Typed, HeldInv, Token
<1>8. CallInv'
  <2>1. call[k].op = "refresh" => call[k].tok # None
    BY MintCase DEF Typed, HeldInv, Issued
  <2> QED BY <2>1, MintCase DEF Typed, CallInv
<1> QED BY <1>2, <1>7, <1>8 DEF Typed

LEMMA RetireCase ==
    ASSUME Typed, NEW k \in Calls, Retire(k)
    PROVE  /\ call[k].pc = "retire" /\ call[k].op = "refresh"
           /\ call[k].tok \in Issued /\ call[k].new # None
           /\ token' \in [Tokens -> Row]
           /\ \A t \in Tokens : /\ token'[t].family = token[t].family
                                /\ token'[t].revoked = (token[t].revoked \/ t = call[k].tok)
           /\ call' \in [Calls -> Request]
           /\ \A j \in Calls : call'[j] = IF j = k THEN Answer(k, "ok") ELSE call[j]
<1>1. call[k].pc = "retire" /\ call[k].op = "refresh" /\ call[k].tok \in Issued /\ call[k].new # None
  BY DEF Retire, Typed, CallInv, HeldInv, Token
<1>2. call[k].tok \in Tokens
  BY <1>1 DEF Issued
<1>3. token' = [token EXCEPT ![call[k].tok] = [token[call[k].tok] EXCEPT !.revoked = TRUE]]
  BY DEF Retire
<1>4. \A t \in Tokens : token'[t] = IF t = call[k].tok THEN [token[t] EXCEPT !.revoked = TRUE] ELSE token[t]
  BY <1>2, <1>3 DEF Typed, TypeOK
<1>5. \A t \in Tokens : token[t].revoked \in BOOLEAN
  BY RowType DEF Row
<1>6. /\ call' \in [Calls -> Request]
      /\ \A j \in Calls : call'[j] = IF j = k THEN Answer(k, "ok") ELSE call[j]
  BY AnswerType, OneCall DEF Retire, Typed, TypeOK
<1>7. token' \in [Tokens -> Row]
  BY <1>2, <1>3, RowType DEF Typed, TypeOK
<1> QED BY <1>1, <1>4, <1>5, <1>6, <1>7, RowType

LEMMA RevokeFamilyCase ==
    ASSUME Typed, NEW k \in Calls, RevokeFamily(k)
    PROVE  /\ call[k].pc \in {"reuse", "close"} /\ call[k].op \in {"refresh", "logout"}
           /\ call[k].tok \in Issued
           /\ token' = Revoked(FamilyOf(call[k].tok))
           /\ ended' = ended \cup FamilyOf(call[k].tok)
           /\ call' \in [Calls -> Request]
           /\ \E v \in {"rejected", "closed"} :
                 \A j \in Calls : call'[j] = IF j = k THEN Answer(k, v) ELSE call[j]
<1>1. call[k].pc \in {"reuse", "close"} /\ call[k].op \in {"refresh", "logout"} /\ call[k].tok \in Issued
  BY DEF RevokeFamily, Typed, CallInv, HeldInv, Token
<1>2. PICK v \in {"rejected", "closed"} : call' = [call EXCEPT ![k] = Answer(k, v)]
  BY DEF RevokeFamily
<1>3. /\ call' \in [Calls -> Request]
      /\ \A j \in Calls : call'[j] = IF j = k THEN Answer(k, v) ELSE call[j]
  BY <1>2, AnswerType, OneCall DEF Typed, TypeOK
<1> QED BY <1>1, <1>3 DEF RevokeFamily

LEMMA RevokeAllCase ==
    ASSUME Typed, NEW k \in Calls, RevokeAll(k)
    PROVE  /\ call[k].pc = "sent" /\ call[k].op = "password"
           /\ token' = Revoked(Families) /\ ended' = ended \cup Families
           /\ call' \in [Calls -> Request]
           /\ \A j \in Calls : /\ j # k => call'[j] = call[j]
                               /\ call'[j].op = call[j].op /\ call'[j].tok = call[j].tok
                               /\ call'[j].new = call[j].new
           /\ call'[k].pc = "mint"
<1> DEFINE r == [call[k] EXCEPT !.pc = "mint"]
<1>1. call' = [call EXCEPT ![k] = r]
  BY DEF RevokeAll
<1>2. /\ r \in Request /\ r.op = call[k].op /\ r.tok = call[k].tok /\ r.new = call[k].new
      /\ r.pc = "mint"
  BY PcType
<1> HIDE DEF r
<1>3. /\ call' \in [Calls -> Request]
      /\ \A j \in Calls : call'[j] = IF j = k THEN r ELSE call[j]
  BY <1>1, <1>2, OneCall DEF Typed, TypeOK
<1> QED BY <1>2, <1>3 DEF RevokeAll

LEMMA ExpireCase ==
    ASSUME Typed, NEW t \in Tokens, Expire(t)
    PROVE  /\ token' \in [Tokens -> Row]
           /\ \A u \in Tokens : token'[u].family = token[u].family /\ token'[u].revoked = token[u].revoked
<1>1. token' = [token EXCEPT ![t] = [token[t] EXCEPT !.expired = TRUE]]
  BY DEF Expire
<1>2. \A u \in Tokens : token'[u] = IF u = t THEN [token[t] EXCEPT !.expired = TRUE] ELSE token[u]
  BY <1>1 DEF Typed, TypeOK
<1>3. token' \in [Tokens -> Row]
  BY <1>1, RowType DEF Typed, TypeOK
<1> QED BY <1>2, <1>3, RowType

LEMMA ServerStepsTyped ==
    ASSUME Typed,
           \/ \E k \in Calls : Retire(k) \/ RevokeFamily(k) \/ RevokeAll(k)
           \/ \E t \in Tokens : Expire(t)
    PROVE  Typed'
<1>0. Families \subseteq Families /\ \A k \in Calls : FamilyOf(call[k].tok) \subseteq Families
  BY FamilyHeld DEF Typed, HeldInv
<1>1. ASSUME NEW k \in Calls, Retire(k) PROVE Typed'
  <2>1. UNCHANGED <<tab, cookie, cached, disk, overlapped, ended, lost>>
    BY <1>1 DEF Retire, client
  <2>2. TypeOK' /\ HeldInv'
    BY <1>1, <2>1, RetireCase, AnswerType, ServerTyped
  <2>3. CallInv'
    BY <1>1, RetireCase, AnswerType DEF Typed, CallInv
  <2> QED BY <2>2, <2>3 DEF Typed
<1>2. ASSUME NEW k \in Calls, RevokeFamily(k) PROVE Typed'
  <2>1. UNCHANGED <<tab, cookie, cached, disk, overlapped, lost>>
    BY <1>2 DEF RevokeFamily, client
  <2>2. TypeOK' /\ HeldInv'
    BY <1>0, <1>2, <2>1, RevokeFamilyCase, RevokedType, AnswerType, ServerTyped
  <2>3. CallInv'
    BY <1>2, RevokeFamilyCase, AnswerType DEF Typed, CallInv
  <2> QED BY <2>2, <2>3 DEF Typed
<1>3. ASSUME NEW k \in Calls, RevokeAll(k) PROVE Typed'
  <2>1. UNCHANGED <<tab, cookie, cached, disk, overlapped, lost>>
    BY <1>3 DEF RevokeAll, client
  <2>2. TypeOK' /\ HeldInv'
    BY <1>0, <1>3, <2>1, RevokeAllCase, RevokedType, ServerTyped
  <2>3. CallInv'
    BY <1>3, RevokeAllCase DEF Typed, CallInv
  <2> QED BY <2>2, <2>3 DEF Typed
<1>4. ASSUME NEW t \in Tokens, Expire(t) PROVE Typed'
  <2>1. UNCHANGED <<call, tab, cookie, cached, disk, overlapped, ended, lost>>
    BY <1>4 DEF Expire, client
  <2>2. TypeOK' /\ HeldInv'
    BY <1>4, <2>1, ExpireCase, ServerTyped DEF Typed, TypeOK
  <2>3. CallInv'
    BY <2>1 DEF Typed, CallInv
  <2> QED BY <2>2, <2>3 DEF Typed
<1> QED BY <1>1, <1>2, <1>3, <1>4

LEMMA OverCase ==
    ASSUME Typed, NEW k \in Calls, Over(k)
    PROVE  /\ call' \in [Calls -> Request]
           /\ \A j \in Calls : j # k => call'[j] = call[j]
           /\ call'[k].op = "none" /\ call'[k].tok = None /\ call'[k].new = None /\ call'[k].pc = "over"
<1> DEFINE r == [NoCall EXCEPT !.pc = "over"]
<1>1. r \in Request /\ r.op = "none" /\ r.tok = None /\ r.new = None /\ r.pc = "over"
  BY DEF NoCall, Request, Maybe
<1> HIDE DEF r
<1>2. /\ call' \in [Calls -> Request]
      /\ \A j \in Calls : call'[j] = IF j = k THEN r ELSE call[j]
  BY <1>1, OneCall DEF Over, Typed, TypeOK, r
<1> QED BY <1>1, <1>2

\* Steps of a client.
LEMMA ClientTyped ==
    ASSUME Typed, UNCHANGED <<token, overlapped, ended>>, NEW p \in Tabs, NEW r \in Page,
           tab' = [tab EXCEPT ![p] = r],
           \A i \in 1..Len(r.saves) : r.saves[i][2] \in Issued,
           \A b \in Browsers : Token(cookie'[b]) /\ Token(cached'[b]) /\ Token(disk'[b]),
           cookie' \in [Browsers -> Maybe(Tokens)], cached' \in [Browsers -> Maybe(Tokens)],
           disk' \in [Browsers -> Maybe(Tokens)],
           UNCHANGED call \/ \E k \in Calls : Over(k),
           lost' \subseteq lost \cup Families
    PROVE  Typed'
<1>1. Issued' = Issued /\ Families' = Families /\ \A t : Token(t)' <=> Token(t)
  BY SameFamilies
<1>2. Families \subseteq Tokens
  BY FamilyHeld DEF Token
<1>3. /\ tab' \in [Tabs -> Page]
      /\ \A q \in Tabs : tab'[q] = IF q = p THEN r ELSE tab[q]
  BY OnePage DEF Typed, TypeOK
<1>4. /\ call' \in [Calls -> Request] /\ CallInv'
      /\ \A j \in Calls : Token(call'[j].tok) /\ Token(call'[j].new)
  <2>1. CASE UNCHANGED call
    BY <2>1 DEF Typed, TypeOK, CallInv, HeldInv
  <2>2. ASSUME NEW k \in Calls, Over(k)
        PROVE  /\ call' \in [Calls -> Request] /\ CallInv'
               /\ \A j \in Calls : Token(call'[j].tok) /\ Token(call'[j].new)
    BY <2>2, OverCase DEF Typed, CallInv, HeldInv, Token
  <2> QED BY <2>1, <2>2
<1>5. TypeOK'
  BY <1>2, <1>3, <1>4 DEF Typed, TypeOK
<1>6. HeldInv'
  <2>1. \A q \in Tabs : \A i \in 1..Len(tab'[q].saves) : tab'[q].saves[i][2] \in Issued
    BY <1>3 DEF Typed, HeldInv
  <2> QED BY <1>1, <1>4, <2>1 DEF Typed, HeldInv, Token
<1> QED BY <1>4, <1>5, <1>6 DEF Typed

LEMMA AppendHeld ==
    ASSUME Typed, NEW p \in Tabs, NEW op \in {"refresh", "login"}, NEW t \in Issued
    PROVE  /\ Append(tab[p].saves, <<op, t>>) \in Seq({"refresh", "login"} \X Tokens)
           /\ \A i \in 1..Len(Append(tab[p].saves, <<op, t>>)) :
                 Append(tab[p].saves, <<op, t>>)[i][2] \in Issued
<1> DEFINE s == tab[p].saves
           e == <<op, t>>
<1>1. s \in Seq({"refresh", "login"} \X Tokens)
  BY DEF Typed, TypeOK, Page
<1>2. e \in {"refresh", "login"} \X Tokens /\ e[2] = t
  BY DEF Issued
<1>3. \A i \in 1..Len(s) : s[i][2] \in Issued
  BY DEF Typed, HeldInv
<1> HIDE DEF s, e
<1>4. /\ Append(s, e) \in Seq({"refresh", "login"} \X Tokens)
      /\ Len(Append(s, e)) = Len(s) + 1
      /\ \A i \in 1..Len(s) : Append(s, e)[i] = s[i]
      /\ Append(s, e)[Len(s) + 1] = e
  BY <1>1, <1>2, AppendProperties
<1>5. \A i \in 1..(Len(s) + 1) : i \in 1..Len(s) \/ i = Len(s) + 1
  BY <1>1
<1> QED BY <1>2, <1>3, <1>4, <1>5 DEF s, e

LEMMA PageType ==
    ASSUME Typed, NEW p \in Tabs
    PROVE  tab[p] \in Page
BY DEF Typed, TypeOK

\* Which cookie an answer leaves, and what is lost with it.
LEMMA CookieCase ==
    ASSUME Typed, NEW b \in Browsers, NEW k \in Calls, call[k].pc = "answer", SetCookie(b, k),
           UNCHANGED token
    PROVE  /\ cookie' \in [Browsers -> Maybe(Tokens)]
           /\ \A c \in Browsers : Token(cookie'[c])
           /\ lost' \subseteq lost \cup Families
<1>1. Token(CookieFor(b, k)) /\ CookieFor(b, k) \in Maybe(Tokens)
  <2>1. CookieFor(b, k) \in {call[k].new, None, cookie[b]}
    BY DEF CookieFor
  <2>2. Token(call[k].new) /\ Token(cookie[b]) /\ Token(None)
    BY DEF Typed, HeldInv, Token
  <2> QED BY <2>1, <2>2, FamilyHeld
<1>2. cookie' = cookie \/ cookie' = [cookie EXCEPT ![b] = CookieFor(b, k)]
  BY DEF SetCookie
<1>3. lost' \subseteq lost \cup FamilyOf(cookie[b])
  BY DEF SetCookie
<1>4. FamilyOf(cookie[b]) \subseteq Families
  BY FamilyHeld DEF Typed, HeldInv
<1>5. \A c \in Browsers : cookie'[c] = cookie[c] \/ cookie'[c] = CookieFor(b, k)
  BY <1>2 DEF Typed, TypeOK
<1> QED BY <1>1, <1>2, <1>3, <1>4, <1>5 DEF Typed, TypeOK, HeldInv

LEMMA TakeRefreshTyped ==
    ASSUME Typed, NEW p \in Tabs, NEW k \in Calls, TakeRefresh(p, k)
    PROVE  Typed'
<1> DEFINE b == BrowserOf[p]
           sunk == b \in Native /\ call[k].body
<1>1. b \in Browsers /\ call[k].pc = "answer" /\ SetCookie(b, k) /\ Over(k)
      /\ UNCHANGED <<token, disk, overlapped, ended>>
  BY DEF TakeRefresh
<1>2. /\ cookie' \in [Browsers -> Maybe(Tokens)] /\ \A c \in Browsers : Token(cookie'[c])
      /\ lost' \subseteq lost \cup Families
  BY <1>1, CookieCase
<1>3. CASE call[k].verdict = "ok"
  <2> DEFINE s == IF sunk THEN Append(tab[p].saves, <<"refresh", call[k].new>>) ELSE tab[p].saves
  <2>1. PICK shown \in {tab[p].authed, TRUE} :
           tab' = [tab EXCEPT ![p] = [tab[p] EXCEPT !.refresh = None, !.authed = shown, !.saves = s]]
    BY <1>3 DEF TakeRefresh
  <2>2. call[k].new \in Issued /\ call[k].new \in Tokens
    BY <1>1, <1>3 DEF Typed, CallInv, HeldInv, Token, Issued
  <2>3. cached' = IF sunk THEN [cached EXCEPT ![b] = call[k].new] ELSE cached
    BY <1>3 DEF TakeRefresh
  <2> DEFINE r == [tab[p] EXCEPT !.refresh = None, !.authed = shown, !.saves = s]
  <2>4. s \in Seq({"refresh", "login"} \X Tokens) /\ \A i \in 1..Len(s) : s[i][2] \in Issued
    <3>1. CASE sunk
      BY <2>2, <3>1, AppendHeld
    <3>2. CASE ~sunk
      BY <3>2, PageType DEF Page, Typed, HeldInv
    <3> QED BY <3>1, <3>2
  <2> HIDE DEF s
  <2>5. r \in Page /\ r.saves = s
    BY <2>4, PageType DEF Page, Maybe
  <2>6. cached' \in [Browsers -> Maybe(Tokens)] /\ \A c \in Browsers : Token(cached'[c])
    BY <1>1, <2>2, <2>3 DEF Typed, TypeOK, HeldInv, Token, Maybe
  <2>7. tab' = [tab EXCEPT ![p] = r]
    BY <2>1
  <2> HIDE DEF r
  <2> QED BY <1>1, <1>2, <2>4, <2>5, <2>6, <2>7, ClientTyped DEF Typed, TypeOK, HeldInv
<1>4. CASE call[k].verdict # "ok"
  <2> DEFINE r == [tab[p] EXCEPT !.refresh = None, !.authed = FALSE]
  <2>1. tab' = [tab EXCEPT ![p] = r] /\ UNCHANGED cached
    BY <1>4 DEF TakeRefresh
  <2>2. r \in Page /\ r.saves = tab[p].saves
    BY PageType DEF Page, Maybe
  <2> HIDE DEF r
  <2>3. \A i \in 1..Len(r.saves) : r.saves[i][2] \in Issued
    BY <2>2 DEF Typed, HeldInv
  <2> QED BY <1>1, <1>2, <2>1, <2>2, <2>3, ClientTyped DEF Typed, TypeOK, HeldInv
<1> QED BY <1>3, <1>4

LEMMA TakeAnswerTyped ==
    ASSUME Typed, NEW p \in Tabs, NEW k \in Calls, TakeAnswer(p, k)
    PROVE  Typed'
<1> DEFINE b == BrowserOf[p]
           op == call[k].op
           shown == IF op = "login" THEN b \notin Native ELSE op = "password" /\ tab[p].authed
           s == IF op = "login" /\ b \in Native
                THEN Append(tab[p].saves, <<"login", call[k].new>>) ELSE tab[p].saves
           r == [tab[p] EXCEPT !.ask = None, !.authed = shown, !.saves = s]
<1>1. b \in Browsers /\ call[k].pc = "answer" /\ SetCookie(b, k) /\ Over(k)
      /\ UNCHANGED <<token, overlapped, ended>>
  BY DEF TakeAnswer
<1>2. /\ cookie' \in [Browsers -> Maybe(Tokens)] /\ \A c \in Browsers : Token(cookie'[c])
      /\ lost' \subseteq lost \cup Families
  BY <1>1, CookieCase
<1>3. /\ tab' = [tab EXCEPT ![p] = r]
      /\ cached' = [cached EXCEPT ![b] = CachedAfter(b, k)]
      /\ disk' = IF op = "logout" THEN [disk EXCEPT ![b] = None] ELSE disk
  BY DEF TakeAnswer
<1>4. s \in Seq({"refresh", "login"} \X Tokens) /\ \A i \in 1..Len(s) : s[i][2] \in Issued
  <2>1. CASE op = "login" /\ b \in Native
    <3>1. call[k].new \in Issued
      BY <1>1, <2>1 DEF Typed, CallInv, HeldInv, Token
    <3> QED BY <2>1, <3>1, AppendHeld
  <2>2. CASE ~(op = "login" /\ b \in Native)
    BY <2>2, PageType DEF Page, Typed, HeldInv
  <2> QED BY <2>1, <2>2
<1>5. shown \in BOOLEAN
  BY PageType DEF Page
<1> HIDE DEF s, shown
<1>6. r \in Page /\ r.saves = s
  BY <1>4, <1>5, PageType DEF Page, Maybe
<1> HIDE DEF r
<1>7. Token(CachedAfter(b, k)) /\ CachedAfter(b, k) \in Maybe(Tokens)
  <2>1. CachedAfter(b, k) \in {cached[b], None, call[k].new}
    BY DEF CachedAfter
  <2>2. Token(cached[b]) /\ Token(None) /\ Token(call[k].new)
    BY <1>1 DEF Typed, HeldInv, Token
  <2> QED BY <2>1, <2>2, FamilyHeld
<1>8. cached' \in [Browsers -> Maybe(Tokens)] /\ \A c \in Browsers : Token(cached'[c])
  BY <1>3, <1>7 DEF Typed, TypeOK, HeldInv
<1>9. disk' \in [Browsers -> Maybe(Tokens)] /\ \A c \in Browsers : Token(disk'[c])
  BY <1>3 DEF Typed, TypeOK, HeldInv, Token, Maybe
<1> QED BY <1>1, <1>2, <1>3, <1>4, <1>6, <1>8, <1>9, ClientTyped

LEMMA SaveTyped ==
    ASSUME Typed, NEW p \in Tabs, Save(p)
    PROVE  Typed'
<1> DEFINE s == tab[p].saves
           shown == tab[p].authed \/ Head(s)[1] = "login"
           rest == Tail(s)
           r == [tab[p] EXCEPT !.saves = rest, !.authed = shown]
<1>1. /\ s # <<>> /\ tab' = [tab EXCEPT ![p] = r]
      /\ disk' = [disk EXCEPT ![BrowserOf[p]] = Head(s)[2]]
      /\ UNCHANGED <<token, call, cookie, cached, overlapped, ended, lost>>
  BY DEF Save, server
<1>2. s \in Seq({"refresh", "login"} \X Tokens)
  BY PageType DEF Page
<1>3. /\ rest \in Seq({"refresh", "login"} \X Tokens)
      /\ \A i \in 1..Len(rest) : rest[i][2] \in Issued
      /\ Head(s)[2] \in Issued
  <2>1. \A i \in 1..Len(s) : s[i][2] \in Issued
    BY DEF Typed, HeldInv
  <2> HIDE DEF s
  <2>2. /\ Len(s) \in Nat /\ Len(s) > 0 /\ Head(s) = s[1]
        /\ Len(Tail(s)) = Len(s) - 1 /\ \A i \in 1..Len(Tail(s)) : Tail(s)[i] = s[i + 1]
        /\ Tail(s) \in Seq({"refresh", "login"} \X Tokens)
    BY <1>1, <1>2, HeadTailProperties
  <2>3. \A i \in 1..(Len(s) - 1) : i + 1 \in 1..Len(s)
    BY <2>2
  <2> QED BY <2>1, <2>2, <2>3
<1>4. shown \in BOOLEAN
  OBVIOUS
<1> HIDE DEF rest, shown, s
<1>5. r \in Page /\ r.saves = rest
  BY <1>3, <1>4, PageType DEF Page
<1> HIDE DEF r
<1>6. Head(s)[2] \in Tokens
  BY <1>3 DEF Issued
<1>7. disk' \in [Browsers -> Maybe(Tokens)] /\ \A c \in Browsers : Token(disk'[c])
  BY <1>1, <1>3, <1>6 DEF Typed, TypeOK, HeldInv, Token, Maybe
<1> QED BY <1>1, <1>3, <1>5, <1>7, ClientTyped DEF Typed, TypeOK, HeldInv

LEMMA LoseTyped ==
    ASSUME Typed, NEW p \in Tabs, NEW k \in Calls, Lose(p, k)
    PROVE  Typed'
<1> DEFINE shown == tab[p].authed /\ call[k].op # "logout"
           r(still) == IF tab[p].refresh = k THEN [tab[p] EXCEPT !.refresh = None, !.authed = still]
                       ELSE [tab[p] EXCEPT !.ask = None, !.authed = shown]
<1>0. PICK still \in {tab[p].authed, FALSE} : tab' = [tab EXCEPT ![p] = r(still)]
  BY DEF Lose
<1>1. /\ tab' = [tab EXCEPT ![p] = r(still)] /\ Over(k)
      /\ lost' \subseteq lost \cup FamilyOf(call[k].tok)
      /\ UNCHANGED <<token, cookie, cached, disk, overlapped, ended>>
  BY <1>0 DEF Lose
<1>2. FamilyOf(call[k].tok) \subseteq Families
  BY FamilyHeld DEF Typed, HeldInv
<1>3. shown \in BOOLEAN /\ still \in BOOLEAN
  BY PageType DEF Page
<1> HIDE DEF shown
<1>4. r(still) \in Page /\ r(still).saves = tab[p].saves
  BY <1>3, PageType DEF Page, Maybe
<1> HIDE DEF r
<1>5. \A i \in 1..Len(r(still).saves) : r(still).saves[i][2] \in Issued
  BY <1>4 DEF Typed, HeldInv
<1> QED BY <1>1, <1>2, <1>4, <1>5, ClientTyped DEF Typed, TypeOK, HeldInv

LEMMA ReloadTyped ==
    ASSUME Typed, NEW p \in Tabs, Reload(p)
    PROVE  Typed'
<1> DEFINE b == BrowserOf[p]
           left == {call[k].tok : k \in {k \in Calls : Waits(p, k)}}
           unsaved == {tab[p].saves[i][2] : i \in 1..Len(tab[p].saves)}
           passed == IF b \in Native /\ disk[b] = None THEN {cookie[b]} ELSE {}
<1>1. /\ tab' = [tab EXCEPT ![p] = BlankPage]
      /\ cached' = IF b \in Native THEN [cached EXCEPT ![b] = disk[b]] ELSE cached
      /\ lost' = lost \cup UNION {FamilyOf(t) : t \in left \cup unsaved \cup passed}
      /\ UNCHANGED <<token, call, cookie, disk, overlapped, ended>> /\ b \in Browsers
  BY DEF Reload, server
<1>2. \A t \in left \cup unsaved \cup passed : Token(t)
  BY <1>1 DEF Typed, HeldInv, Token
<1>3. UNION {FamilyOf(t) : t \in left \cup unsaved \cup passed} \subseteq Families
  BY <1>2, FamilyHeld
<1>5. BlankPage \in Page /\ \A i \in 1..Len(BlankPage.saves) : BlankPage.saves[i][2] \in Issued
  <2>1. <<>> \in Seq({"refresh", "login"} \X Tokens) /\ Len(<<>>) = 0
    OBVIOUS
  <2> QED BY <2>1 DEF BlankPage, Page, Maybe
<1> HIDE DEF left, unsaved, passed
<1>6. cached' \in [Browsers -> Maybe(Tokens)] /\ \A c \in Browsers : Token(cached'[c])
  BY <1>1 DEF Typed, TypeOK, HeldInv
<1> QED BY <1>1, <1>3, <1>5, <1>6, ClientTyped DEF Typed, TypeOK, HeldInv

LEMMA TypedStep == Typed /\ [Next]_vars => Typed'
<1> SUFFICES ASSUME Typed, [Next]_vars PROVE Typed'
  OBVIOUS
<1>1. ASSUME NEW p \in Tabs, Refresh(p) \/ Login(p) \/ Logout(p) \/ ChangePassword(p) PROVE Typed'
  BY <1>1, SendTyped DEF Refresh, Login, Logout, ChangePassword
<1>2. CASE UNCHANGED vars
  BY <1>2 DEF vars, Typed, TypeOK, HeldInv, CallInv, Issued, Families, Token
<1> QED BY <1>1, <1>2, SaveTyped, ReloadTyped, FindTyped, MintTyped, ServerStepsTyped,
           TakeRefreshTyped, TakeAnswerTyped, LoseTyped DEF Next

\* Every reachable state is well typed.
THEOREM TypeSafety == Spec => []TypeOK
<1>1. Init => Typed
  BY TypedInit
<1>2. Typed /\ [Next]_vars => Typed'
  BY TypedStep
<1>3. Typed => TypeOK
  BY DEF Typed
<1> QED BY <1>1, <1>2, <1>3, PTL DEF Spec

-----------------------------------------------------------------------------
(* Requests for one login overlap, or the server works on one at a time.   *)

LEMMA AloneInit == Init => AloneInv
BY DEF Init, AloneInv, Working, NoCall

LEMMA AloneFrame ==
    ASSUME Typed, AloneInv, \A t \in Tokens : token'[t].family = token[t].family,
           overlapped \subseteq overlapped',
           \A k \in Calls : Working(k)' =>
              Working(k) /\ call'[k].op = call[k].op /\ call'[k].tok = call[k].tok
    PROVE  AloneInv'
<1> SUFFICES ASSUME NEW j \in Calls, NEW k \in Calls, j # k, Working(j)', Working(k)',
                    call'[k].op # "password"
             PROVE  FamilyOf(call[k].tok)' \cap Touches(j)' \subseteq overlapped'
  BY DEF AloneInv
<1>1. FamilyOf(call[k].tok) \cap Touches(j) \subseteq overlapped
  BY DEF AloneInv
<1>2. FamilyOf(call[k].tok)' = FamilyOf(call[k].tok) /\ Touches(j)' = Touches(j)
  <2>1. \A i \in Calls : Working(i)' => FamilyOf(call[i].tok)' = FamilyOf(call[i].tok)
    BY DEF Typed, HeldInv, FamilyOf, Token, Issued
  <2>2. Families' = Families
    BY SameFamilies
  <2> QED BY <2>1, <2>2 DEF Touches
<1> QED BY <1>1, <1>2

LEMMA AloneSend ==
    ASSUME Typed, AloneInv, NEW p \in Tabs, NEW op \in {"login", "refresh", "logout", "password"},
           NEW field, Send(p, op, field), op = "refresh" => tab[p].refresh = None
    PROVE  AloneInv'
<1> DEFINE tok == IF op \in {"refresh", "logout"} THEN Presented(BrowserOf[p]) ELSE None
           body == BrowserOf[p] \in Native /\ cached[BrowserOf[p]] # None
           mine == IF op = "password" THEN Families ELSE FamilyOf(tok)
           c == [NoCall EXCEPT !.op = op, !.tab = p, !.tok = tok, !.pc = "sent", !.body = body]
<1>1. PICK n \in Calls :
         /\ call[n].pc = "new"
         /\ call' = [call EXCEPT ![n] = c]
         /\ overlapped' = overlapped \cup
               UNION {mine \cap Touches(j) : j \in {j \in Calls : Outstanding(j)
                         /\ ~(op = "refresh" /\ tab[p].refresh = j)}}
  BY DEF Send
<1>2. UNCHANGED token
  BY DEF Send
<1>3. \A j \in Calls : Working(j) => Outstanding(j)
  BY DEF Working, Outstanding
<1>4. \A j \in Calls : Working(j) => mine \cap Touches(j) \subseteq overlapped'
  BY <1>1, <1>3, NoneApart
<1>5. c.op = op /\ c.tok = tok
  BY DEF NoCall
<1> HIDE DEF c
<1>6. \A j \in Calls : call'[j] = IF j = n THEN c ELSE call[j]
  BY <1>1 DEF Typed, TypeOK
<1>7. Families' = Families
  BY <1>2, SameFamilies
<1>8. Touches(n)' = mine
  BY <1>2, <1>5, <1>6, <1>7 DEF Touches, FamilyOf
<1>9. \A j \in Calls : j # n => /\ Touches(j)' = Touches(j) /\ Working(j)' = Working(j)
                                /\ FamilyOf(call[j].tok)' = FamilyOf(call[j].tok)
                                /\ call'[j].op = call[j].op
  BY <1>2, <1>6, <1>7 DEF Touches, FamilyOf, Working
<1>10. \A j \in Calls : call[j].op # "password" => Touches(j) = FamilyOf(call[j].tok)
  BY DEF Touches
<1>11. call'[n].op # "password" => FamilyOf(call[n].tok)' = mine
  BY <1>2, <1>5, <1>6 DEF FamilyOf
<1> HIDE DEF mine
<1> SUFFICES ASSUME NEW j \in Calls, NEW k \in Calls, j # k, Working(j)', Working(k)',
                    call'[k].op # "password"
             PROVE  FamilyOf(call[k].tok)' \cap Touches(j)' \subseteq overlapped'
  BY DEF AloneInv
<1>12. CASE j # n /\ k # n
  <2>1. FamilyOf(call[k].tok) \cap Touches(j) \subseteq overlapped
    BY <1>9, <1>12 DEF AloneInv
  <2>2. overlapped \subseteq overlapped'
    BY <1>1
  <2> QED BY <1>9, <1>12, <2>1, <2>2
<1>13. CASE j = n
  <2>1. Working(k) /\ FamilyOf(call[k].tok)' = Touches(k)
    BY <1>9, <1>10, <1>13
  <2> QED BY <1>4, <1>8, <1>13, <2>1
<1>14. CASE k = n
  <2>1. Working(j) /\ Touches(j)' = Touches(j)
    BY <1>9, <1>14
  <2>2. FamilyOf(call[k].tok)' = mine
    BY <1>11, <1>14
  <2> QED BY <1>4, <2>1, <2>2
<1> QED BY <1>12, <1>13, <1>14

LEMMA AloneMint ==
    ASSUME Typed, AloneInv, NEW c \in Calls, Mint(c)
    PROVE  AloneInv'
<1> SUFFICES ASSUME NEW j \in Calls, NEW k \in Calls, j # k, Working(j)', Working(k)',
                    call'[k].op # "password"
             PROVE  FamilyOf(call[k].tok)' \cap Touches(j)' \subseteq overlapped'
  BY DEF AloneInv
<1>0. UNCHANGED overlapped
  BY DEF Mint
<1>1. \A i \in Calls : call'[i].op = call[i].op /\ call'[i].tok = call[i].tok
  BY MintCase
<1>2. Working(j) /\ Working(k)
  <2>1. Working(c)
    BY DEF Mint, Mints, Working
  <2> QED BY <2>1, MintCase DEF Working
<1>3. \A t \in Issued : token'[t] = token[t]
  BY MintCase DEF Issued
<1>4. \A i \in Calls : FamilyOf(call[i].tok)' = FamilyOf(call[i].tok)
                       /\ FamilyOf(call[i].tok) \subseteq Families
  <2>1. \A i \in Calls : Token(call[i].tok)
    BY DEF Typed, HeldInv
  <2> QED BY <1>1, <1>3, <2>1, FamilyHeld DEF FamilyOf, Token
<1>5. FamilyOf(call[k].tok) \cap Touches(j) \subseteq overlapped
  BY <1>1, <1>2 DEF AloneInv
<1>6. CASE call[j].op = "password"
  BY <1>0, <1>4, <1>5, <1>6 DEF Touches
<1>7. CASE call[j].op # "password"
  BY <1>0, <1>1, <1>4, <1>5, <1>7 DEF Touches
<1> QED BY <1>6, <1>7

LEMMA AloneStep == Typed /\ AloneInv /\ [Next]_vars => AloneInv'
<1> SUFFICES ASSUME Typed, AloneInv, [Next]_vars PROVE AloneInv'
  OBVIOUS
<1>1. ASSUME NEW p \in Tabs, Refresh(p) \/ Login(p) \/ Logout(p) \/ ChangePassword(p) PROVE AloneInv'
  BY <1>1, AloneSend DEF Refresh, Login, Logout, ChangePassword
<1>2. ASSUME NEW k \in Calls, Find(k) PROVE AloneInv'
  <2>1. UNCHANGED <<token, overlapped>>
    BY <1>2 DEF Find
  <2>2. \A j \in Calls : Working(j)' => Working(j) /\ call'[j].op = call[j].op /\ call'[j].tok = call[j].tok
    BY <1>2, FindCase DEF Working
  <2> QED BY <2>1, <2>2, AloneFrame
<1>3. ASSUME NEW k \in Calls, Retire(k) PROVE AloneInv'
  <2>1. UNCHANGED overlapped /\ \A t \in Tokens : token'[t].family = token[t].family
    BY <1>3, RetireCase DEF Retire
  <2>2. \A j \in Calls : Working(j)' => Working(j) /\ call'[j].op = call[j].op /\ call'[j].tok = call[j].tok
    BY <1>3, RetireCase, AnswerType DEF Working
  <2> QED BY <2>1, <2>2, AloneFrame
<1>4. ASSUME NEW k \in Calls, RevokeFamily(k) PROVE AloneInv'
  <2>1. UNCHANGED overlapped /\ \A t \in Tokens : token'[t].family = token[t].family
    BY <1>4, RevokeFamilyCase, RevokedType DEF RevokeFamily
  <2>2. \A j \in Calls : Working(j)' => Working(j) /\ call'[j].op = call[j].op /\ call'[j].tok = call[j].tok
    BY <1>4, RevokeFamilyCase, AnswerType DEF Working
  <2> QED BY <2>1, <2>2, AloneFrame
<1>5. ASSUME NEW k \in Calls, RevokeAll(k) PROVE AloneInv'
  <2>1. UNCHANGED overlapped /\ \A t \in Tokens : token'[t].family = token[t].family
    BY <1>5, RevokeAllCase, RevokedType DEF RevokeAll
  <2>2. \A j \in Calls : Working(j)' => Working(j) /\ call'[j].op = call[j].op /\ call'[j].tok = call[j].tok
    BY <1>5, RevokeAllCase DEF Working
  <2> QED BY <2>1, <2>2, AloneFrame
<1>6. ASSUME NEW t \in Tokens, Expire(t) PROVE AloneInv'
  <2>1. UNCHANGED <<call, overlapped>>
    BY <1>6 DEF Expire
  <2> QED BY <1>6, <2>1, ExpireCase, AloneFrame DEF Working
<1>7. ASSUME NEW p \in Tabs, NEW k \in Calls, TakeRefresh(p, k) \/ TakeAnswer(p, k) \/ Lose(p, k)
      PROVE  AloneInv'
  <2>1. UNCHANGED <<token, overlapped>> /\ Over(k)
    BY <1>7 DEF TakeRefresh, TakeAnswer, Lose
  <2>2. \A j \in Calls : Working(j)' => Working(j) /\ call'[j].op = call[j].op /\ call'[j].tok = call[j].tok
    BY <2>1, OverCase DEF Working
  <2> QED BY <2>1, <2>2, AloneFrame
<1>8. ASSUME NEW p \in Tabs, Save(p) \/ Reload(p) PROVE AloneInv'
  <2>1. UNCHANGED <<token, call, overlapped>>
    BY <1>8 DEF Save, Reload, server
  <2> QED BY <2>1, AloneFrame DEF Working
<1>9. CASE UNCHANGED vars
  BY <1>9, AloneFrame DEF vars, Working
<1> QED BY <1>1, <1>2, <1>3, <1>4, <1>5, <1>6, <1>7, <1>8, <1>9, AloneMint DEF Next

-----------------------------------------------------------------------------
(* The live tokens of a login.                                             *)

LEMMA LiveInit == Init => LiveInv
BY DEF Init, LiveInv, EndedLoginIsDead, OneLive, RotateInv, Rotates, Families, Issued, NoRow, NoCall

LEMMA RotatingToken ==
    ASSUME Typed, NEW k \in Calls, Rotates(k) \/ call[k].pc \in {"retire", "reuse", "close"}
    PROVE  /\ call[k].tok \in Issued /\ call[k].tok \in Tokens /\ call[k].tok # None
           /\ FamilyOf(call[k].tok) = {token[call[k].tok].family}
           /\ token[call[k].tok].family \in Families
           /\ Touches(k) = FamilyOf(call[k].tok)
           /\ Working(k) /\ call[k].op # "password"
<1>1. call[k].tok \in Issued /\ call[k].tok # None /\ call[k].op # "password"
  BY DEF Rotates, Typed, CallInv, HeldInv, Token
<1> QED BY <1>1 DEF FamilyOf, Families, Touches, Issued, Working, Rotates

\* Two requests at work on one login that never overlapped are one request.
LEMMA Alone ==
    ASSUME Typed, AloneInv, NEW j \in Calls, NEW k \in Calls, Rotates(k), Working(j),
           NEW f, f = token[call[k].tok].family, f \in Touches(j), f \notin overlapped
    PROVE  j = k
BY RotatingToken DEF AloneInv

\* A step that changes neither the tokens nor a rotation under way.
LEMMA LiveFrame ==
    ASSUME Typed, LiveInv, overlapped \subseteq overlapped', UNCHANGED ended,
           \A t \in Tokens : token'[t].family = token[t].family /\ token'[t].revoked = token[t].revoked,
           \A k \in Calls : call[k].pc = "retire" => call'[k] = call[k]
    PROVE  /\ Families' = Families /\ \A f : Live(f)' = Live(f)
           /\ EndedLoginIsDead' /\ OneLive'
           /\ \A k \in Calls : call'[k] = call[k] /\ Rotates(k) /\ token'[call'[k].tok].family \notin overlapped'
                 => RotationOf(k, token[call[k].tok].family)'
<1>1. Issued' = Issued /\ Families' = Families
  BY SameFamilies
<1>2. \A f : Live(f)' = Live(f)
  BY <1>1 DEF Live, Issued
<1>3. EndedLoginIsDead'
  BY <1>2 DEF LiveInv, EndedLoginIsDead
<1>4. \A f : Retiring(f) => Retiring(f)'
  <2> SUFFICES ASSUME NEW f, NEW k \in Calls, call[k].pc = "retire", f \in FamilyOf(call[k].tok)
               PROVE  call'[k].pc = "retire" /\ f \in FamilyOf(call[k].tok)'
    BY DEF Retiring
  <2> QED BY RotatingToken DEF FamilyOf
<1>5. OneLive'
  BY <1>1, <1>2, <1>4 DEF LiveInv, OneLive
<1>6. ASSUME NEW k \in Calls, call'[k] = call[k], Rotates(k), token'[call'[k].tok].family \notin overlapped'
      PROVE  RotationOf(k, token[call[k].tok].family)'
  <2>1. token'[call'[k].tok].family = token[call[k].tok].family
    BY <1>6, RotatingToken
  <2>2. RotationOf(k, token[call[k].tok].family)
    BY <1>6, <2>1 DEF LiveInv, RotateInv
  <2> QED BY <1>2, <1>6, <2>1, <2>2 DEF RotationOf
<1> QED BY <1>1, <1>2, <1>3, <1>5, <1>6

LEMMA LiveFrameAll ==
    ASSUME Typed, LiveInv, overlapped \subseteq overlapped', UNCHANGED ended,
           \A t \in Tokens : token'[t].family = token[t].family /\ token'[t].revoked = token[t].revoked,
           \A k \in Calls : call[k].pc = "retire" => call'[k] = call[k],
           \A k \in Calls : Rotates(k)' => call'[k] = call[k]
    PROVE  LiveInv'
<1>1. \A k \in Calls : Rotates(k)' => Rotates(k)
  BY DEF Rotates
<1>2. RotateInv'
  BY <1>1, LiveFrame DEF RotateInv
<1> QED BY <1>2, LiveFrame DEF LiveInv

\* The presented token is the one live token of its login.
LEMMA LiveFind ==
    ASSUME Typed, AloneInv, LiveInv, NEW k \in Calls, Find(k)
    PROVE  LiveInv'
<1>1. UNCHANGED <<token, ended, overlapped>>
  BY DEF Find
<1>2. \A j \in Calls : j # k => call'[j] = call[j]
  BY FindCase
<1>3. \A j \in Calls : call[j].pc = "retire" => call'[j] = call[j]
  BY <1>2, FindCase
<1>4. CASE ~Rotates(k)'
  BY <1>1, <1>2, <1>3, <1>4, LiveFrameAll
<1>5. CASE Rotates(k)'
  <2> DEFINE tok == call[k].tok
             f == token[tok].family
  <2>1. /\ call'[k].pc = "mint" /\ call[k].op = "refresh" /\ tok # None /\ ~token[tok].revoked
        /\ call'[k].tok = tok /\ call[k].pc = "sent"
    BY <1>5, FindCase DEF Rotates
  <2>2. tok \in Issued /\ f \in Families /\ FamilyOf(tok) = {f} /\ tok \in Live(f)
    BY <2>1 DEF Typed, HeldInv, Token, Families, FamilyOf, Live
  <2>3. ASSUME f \notin overlapped PROVE f \notin ended /\ Live(f) = {tok}
    <3>1. f \notin ended
      BY <2>2, <2>3 DEF LiveInv, EndedLoginIsDead
    <3>2. ~Retiring(f)
      <4> SUFFICES ASSUME NEW j \in Calls, call[j].pc = "retire", f \in FamilyOf(call[j].tok)
                   PROVE  FALSE
        BY DEF Retiring
      <4>1. Working(j) /\ Working(k) /\ j # k /\ f \in Touches(j)
        BY <2>1, RotatingToken DEF Working
      <4> QED BY <2>1, <2>2, <2>3, <4>1 DEF AloneInv
    <3> QED BY <2>2, <2>3, <3>1, <3>2 DEF LiveInv, OneLive
  <2>4. /\ \A g : Live(g)' = Live(g)
        /\ EndedLoginIsDead' /\ OneLive'
        /\ \A j \in Calls : call'[j] = call[j] /\ Rotates(j) /\ token'[call'[j].tok].family \notin overlapped'
              => RotationOf(j, token[call[j].tok].family)'
    BY <1>1, <1>3, LiveFrame
  <2>5. \A j \in Calls : j # k => (Rotates(j)' => Rotates(j))
    BY <1>2 DEF Rotates
  <2>6. token'[call'[k].tok].family = f /\ (f \notin overlapped' => RotationOf(k, token[call[k].tok].family)')
    BY <1>1, <2>1, <2>3, <2>4 DEF RotationOf
  <2>7. RotateInv'
    BY <1>1, <1>2, <2>4, <2>5, <2>6 DEF RotateInv
  <2> QED BY <2>4, <2>7 DEF LiveInv
<1> QED BY <1>4, <1>5

LEMMA LiveMint ==
    ASSUME Typed, AloneInv, LiveInv, NEW k \in Calls, Mint(k)
    PROVE  LiveInv'
<1>1. UNCHANGED <<ended, overlapped>>
  BY DEF Mint
<1>2. PICK t \in Tokens \ Issued :
         /\ \A u \in Tokens : u # t => token'[u] = token[u]
         /\ token'[t].family = (IF call[k].op = "refresh" THEN token[call[k].tok].family ELSE t)
         /\ ~token'[t].revoked
         /\ call[k].op = "refresh" => call[k].pc = "mint" /\ call[k].tok \in Issued
         /\ \A j \in Calls : /\ j # k => call'[j] = call[j]
                             /\ call'[j].op = call[j].op /\ call'[j].tok = call[j].tok
         /\ call'[k].new = t
         /\ call'[k].pc = (IF call[k].op = "refresh" THEN "retire" ELSE "answer")
         /\ Issued' = Issued \cup {t}
  BY MintCase
<1>0. PICK f : f = token'[t].family
  OBVIOUS
<1>3. \A u \in Issued : u # t /\ token'[u] = token[u]
  BY <1>2 DEF Issued
<1>4. Families' = Families \cup {f}
  BY <1>0, <1>2, <1>3 DEF Families
<1>5. \A g : Live(g)' = IF g = f THEN Live(g) \cup {t} ELSE Live(g)
  BY <1>0, <1>2, <1>3 DEF Live
<1>6. ended \subseteq Families /\ Families \subseteq Issued
  BY FamilyHeld DEF Typed, HeldInv, Token
<1>7. call[k].pc # "retire"
  BY DEF Mint, Mints
<1>8. \A j \in Calls : j # k /\ Rotates(j)' =>
         /\ Rotates(j) /\ call'[j] = call[j] /\ token'[call'[j].tok].family = token[call[j].tok].family
         /\ token[call[j].tok].family \in Families
  BY <1>2, <1>3, RotatingToken DEF Rotates
<1>9. \A g : g # f /\ Retiring(g) => Retiring(g)'
  <2> SUFFICES ASSUME NEW g, NEW j \in Calls, call[j].pc = "retire", g \in FamilyOf(call[j].tok)
               PROVE  call'[j].pc = "retire" /\ g \in FamilyOf(call[j].tok)'
    BY DEF Retiring
  <2> QED BY <1>2, <1>3, <1>7, RotatingToken DEF FamilyOf
<1>10. \A g : g # f /\ g \in Families' \ overlapped' => Retiring(g)' \/ \A u, v \in Live(g)' : u = v
  <2> SUFFICES ASSUME NEW g, g # f, g \in Families' \ overlapped'
               PROVE  Retiring(g)' \/ \A u, v \in Live(g)' : u = v
    OBVIOUS
  <2>1. g \in Families \ overlapped
    BY <1>1, <1>4
  <2>2. Retiring(g) \/ \A u, v \in Live(g) : u = v
    BY <2>1 DEF LiveInv, OneLive
  <2>3. Live(g)' = Live(g)
    BY <1>5
  <2> QED BY <1>9, <2>2, <2>3
<1>11. ASSUME NEW j \in Calls, j # k, Rotates(j)', token'[call'[j].tok].family \notin overlapped',
              token'[call'[j].tok].family # f
       PROVE  RotationOf(j, token[call[j].tok].family)'
  <2> DEFINE g == token[call[j].tok].family
  <2>1. Rotates(j) /\ call'[j] = call[j] /\ token'[call'[j].tok].family = g
    BY <1>8, <1>11
  <2>2. RotationOf(j, g)
    BY <1>1, <1>11, <2>1 DEF LiveInv, RotateInv
  <2>3. Live(g)' = Live(g)
    BY <1>5, <1>11, <2>1
  <2> QED BY <1>1, <2>1, <2>2, <2>3 DEF RotationOf
<1>12. CASE call[k].op = "refresh"
  <2>1. Rotates(k) /\ f = token[call[k].tok].family /\ f \in FamilyOf(call[k].tok)'
    BY <1>0, <1>2, <1>3, <1>12, RotatingToken DEF Rotates, FamilyOf
  <2>2. f \notin overlapped => RotationOf(k, f)
    BY <2>1 DEF LiveInv, RotateInv
  <2>3. EndedLoginIsDead'
    <3> SUFFICES ASSUME NEW g \in ended' \ overlapped' PROVE Live(g)' = {}
      BY DEF EndedLoginIsDead
    <3>1. g # f /\ Live(g) = {}
      BY <1>1, <2>2 DEF RotationOf, LiveInv, EndedLoginIsDead
    <3> QED BY <1>5, <3>1
  <2>4. Retiring(f)'
    BY <1>2, <1>12, <2>1 DEF Retiring
  <2>5. OneLive'
    BY <1>10, <2>4 DEF OneLive
  <2>6. ASSUME NEW j \in Calls, j # k, Rotates(j)', token'[call'[j].tok].family \notin overlapped'
        PROVE  token'[call'[j].tok].family # f
    BY <1>1, <1>8, <2>1, <2>6, RotatingToken, Alone
  <2>7. f \notin overlapped' => RotationOf(k, token[call[k].tok].family)'
    <3> SUFFICES ASSUME f \notin overlapped' PROVE RotationOf(k, token[call[k].tok].family)'
      OBVIOUS
    <3>1. token'[call'[k].tok].family = f /\ call'[k].tok = call[k].tok /\ call'[k].new = t
          /\ call'[k].pc = "retire" /\ call[k].pc = "mint"
      BY <1>2, <1>12, <1>3, <2>1
    <3>2. f \notin ended /\ Live(f) = {call[k].tok}
      BY <1>1, <2>2, <3>1 DEF RotationOf
    <3>3. Live(f)' = {call[k].tok, t}
      BY <1>5, <3>2
    <3> QED BY <1>1, <3>1, <3>2, <3>3 DEF RotationOf
  <2>8. token'[call'[k].tok].family = f
    BY <1>0, <1>2, <1>3, <1>12, <2>1
  <2>9. RotateInv'
    BY <1>11, <2>6, <2>7, <2>8 DEF RotateInv
  <2> QED BY <2>3, <2>5, <2>9 DEF LiveInv
<1>13. CASE call[k].op # "refresh"
  <2>1. f = t /\ t \notin Families
    BY <1>0, <1>2, <1>6, <1>13
  <2>2. Live(t)' = {t}
    <3>1. Live(t) = {}
      BY <2>1 DEF Live, Families
    <3> QED BY <1>5, <2>1, <3>1
  <2>3. EndedLoginIsDead'
    BY <1>1, <1>5, <1>6, <2>1 DEF LiveInv, EndedLoginIsDead
  <2>4. OneLive'
    BY <1>10, <2>1, <2>2 DEF OneLive
  <2>5. \A j \in Calls : Rotates(j)' => j # k /\ token'[call'[j].tok].family # f
    BY <1>2, <1>8, <1>13, <2>1 DEF Rotates
  <2>6. RotateInv'
    BY <1>11, <2>5 DEF RotateInv
  <2> QED BY <2>3, <2>4, <2>6 DEF LiveInv
<1> QED BY <1>12, <1>13

LEMMA LiveRetire ==
    ASSUME Typed, AloneInv, LiveInv, NEW k \in Calls, Retire(k)
    PROVE  LiveInv'
<1>0. PICK tok, f : tok = call[k].tok /\ f = token[tok].family
  OBVIOUS
<1>1. UNCHANGED <<ended, overlapped>> /\ call[k].pc = "retire" /\ call[k].op = "refresh" /\ Rotates(k)
  BY RetireCase DEF Retire, Rotates
<1>2. \A t \in Tokens : /\ token'[t].family = token[t].family
                        /\ token'[t].revoked = (token[t].revoked \/ t = tok)
  BY <1>0, RetireCase
<1>3. \A j \in Calls : call'[j] = IF j = k THEN Answer(k, "ok") ELSE call[j]
  BY RetireCase
<1>4. Issued' = Issued /\ Families' = Families /\ Issued \subseteq Tokens
  BY <1>2, SameFamilies DEF Issued
<1>5. \A g : Live(g)' = Live(g) \ {tok}
  BY <1>2, <1>4 DEF Live
<1>6. \A g : g # f => Live(g)' = Live(g)
  BY <1>0, <1>5 DEF Live
<1>7. EndedLoginIsDead'
  BY <1>1, <1>5 DEF LiveInv, EndedLoginIsDead
<1>8. f \notin overlapped => Live(f)' \subseteq {call[k].new}
  BY <1>0, <1>1, <1>5 DEF LiveInv, RotateInv, RotationOf
<1>9. \A g : g # f /\ Retiring(g) => Retiring(g)'
  <2> SUFFICES ASSUME NEW g, g # f, NEW j \in Calls, call[j].pc = "retire", g \in FamilyOf(call[j].tok)
               PROVE  call'[j].pc = "retire" /\ g \in FamilyOf(call[j].tok)'
    BY DEF Retiring
  <2>1. j # k /\ call'[j] = call[j] /\ call[j].tok \in Tokens
    BY <1>0, <1>1, <1>3, RotatingToken DEF FamilyOf
  <2> QED BY <1>2, <2>1 DEF FamilyOf
<1>10. OneLive'
  <2> SUFFICES ASSUME NEW g \in Families' \ overlapped' PROVE Retiring(g)' \/ \A u, v \in Live(g)' : u = v
    BY DEF OneLive
  <2>1. CASE g = f
    BY <1>1, <1>8, <2>1
  <2>2. CASE g # f
    <3>1. Retiring(g) \/ \A u, v \in Live(g) : u = v
      BY <1>1, <1>4 DEF LiveInv, OneLive
    <3> QED BY <1>6, <1>9, <2>2, <3>1
  <2> QED BY <2>1, <2>2
<1>11. RotateInv'
  <2> SUFFICES ASSUME NEW j \in Calls, Rotates(j)', token'[call'[j].tok].family \notin overlapped'
               PROVE  RotationOf(j, token[call[j].tok].family)'
    BY DEF RotateInv
  <2>1. j # k /\ call'[j] = call[j] /\ Rotates(j)
    BY <1>3, AnswerType DEF Rotates
  <2>2. token'[call'[j].tok].family = token[call[j].tok].family
    BY <1>2, <2>1, RotatingToken
  <2>3. token[call[j].tok].family # f
    BY <1>0, <1>1, <2>1, <2>2, RotatingToken, Alone
  <2>4. RotationOf(j, token[call[j].tok].family)
    BY <1>1, <2>1, <2>2 DEF LiveInv, RotateInv
  <2> QED BY <1>1, <1>6, <2>1, <2>2, <2>3, <2>4 DEF RotationOf
<1> QED BY <1>7, <1>10, <1>11 DEF LiveInv

\* Ending logins leaves their tokens dead, and interrupts no rotation of them.
LEMMA LiveEnd ==
    ASSUME Typed, AloneInv, LiveInv, NEW k \in Calls, NEW F, UNCHANGED overlapped,
           token' = Revoked(F), ended' = ended \cup F, F = Touches(k), Working(k), ~Rotates(k),
           call[k].pc # "retire", ~Rotates(k)',
           \A j \in Calls : j # k => call'[j] = call[j]
    PROVE  LiveInv'
<1>1. \A t \in Tokens : /\ token'[t].family = token[t].family
                        /\ token'[t].revoked = (token[t].revoked \/ token[t].family \in F)
  BY RevokedType
<1>2. Issued' = Issued /\ Families' = Families /\ Issued \subseteq Tokens
  BY <1>1, SameFamilies DEF Issued
<1>3. ASSUME NEW g PROVE Live(g)' = IF g \in F THEN {} ELSE Live(g)
  <2>1. CASE g \in F
    <3>1. \A t \in Issued : token'[t].family = g => token'[t].revoked = TRUE
      BY <1>1, <1>2, <2>1
    <3> QED BY <1>2, <2>1, <3>1 DEF Live
  <2>2. CASE g \notin F
    BY <1>1, <1>2, <2>2 DEF Live
  <2> QED BY <2>1, <2>2
<1>4. EndedLoginIsDead'
  BY <1>3 DEF LiveInv, EndedLoginIsDead
<1>5. \A g : Retiring(g) => Retiring(g)'
  <2> SUFFICES ASSUME NEW g, NEW j \in Calls, call[j].pc = "retire", g \in FamilyOf(call[j].tok)
               PROVE  call'[j].pc = "retire" /\ g \in FamilyOf(call[j].tok)'
    BY DEF Retiring
  <2>1. j # k /\ call'[j] = call[j] /\ call[j].tok \in Tokens
    BY RotatingToken
  <2> QED BY <1>1, <2>1 DEF FamilyOf
<1>6. OneLive'
  BY <1>2, <1>3, <1>5 DEF LiveInv, OneLive
<1>7. RotateInv'
  <2> SUFFICES ASSUME NEW j \in Calls, Rotates(j)', token'[call'[j].tok].family \notin overlapped'
               PROVE  RotationOf(j, token[call[j].tok].family)'
    BY DEF RotateInv
  <2>1. j # k /\ call'[j] = call[j] /\ Rotates(j)
    BY DEF Rotates
  <2>2. token'[call'[j].tok].family = token[call[j].tok].family
    BY <1>1, <2>1, RotatingToken
  <2>3. token[call[j].tok].family \notin F
    BY <2>1, <2>2, Alone
  <2>4. RotationOf(j, token[call[j].tok].family)
    BY <2>1, <2>2 DEF LiveInv, RotateInv
  <2> QED BY <1>3, <2>1, <2>2, <2>3, <2>4 DEF RotationOf
<1> QED BY <1>4, <1>6, <1>7 DEF LiveInv

LEMMA LiveStep == Typed /\ AloneInv /\ LiveInv /\ [Next]_vars => LiveInv'
<1> SUFFICES ASSUME Typed, AloneInv, LiveInv, [Next]_vars PROVE LiveInv'
  OBVIOUS
<1>1. ASSUME NEW p \in Tabs, Refresh(p) \/ Login(p) \/ Logout(p) \/ ChangePassword(p) PROVE LiveInv'
  <2>1. PICK op \in {"login", "refresh", "logout", "password"}, field \in {"ask", "refresh"} :
           Send(p, op, field)
    BY <1>1 DEF Refresh, Login, Logout, ChangePassword
  <2> DEFINE tok == IF op \in {"refresh", "logout"} THEN Presented(BrowserOf[p]) ELSE None
             body == BrowserOf[p] \in Native /\ cached[BrowserOf[p]] # None
             c(k) == [NoCall EXCEPT !.op = op, !.tab = p, !.tok = tok, !.pc = "sent", !.body = body]
  <2>2. PICK k \in Calls : call[k].pc = "new" /\ call' = [call EXCEPT ![k] = c(k)]
    BY <2>1 DEF Send
  <2>3. UNCHANGED <<token, ended>> /\ overlapped \subseteq overlapped'
    BY <2>1 DEF Send
  <2>4. c(k).pc = "sent"
    BY DEF NoCall
  <2>5. \A j \in Calls : call'[j] = IF j = k THEN c(k) ELSE call[j]
    BY <2>2 DEF Typed, TypeOK
  <2> HIDE DEF c
  <2> QED BY <2>2, <2>3, <2>4, <2>5, LiveFrameAll DEF Rotates
<1>2. ASSUME NEW k \in Calls, RevokeFamily(k) PROVE LiveInv'
  <2>1. UNCHANGED overlapped /\ Working(k) /\ ~Rotates(k) /\ Touches(k) = FamilyOf(call[k].tok)
        /\ ~Rotates(k)' /\ call[k].pc # "retire"
        /\ \A j \in Calls : j # k => call'[j] = call[j]
    BY <1>2, RevokeFamilyCase, RotatingToken, AnswerType DEF RevokeFamily, Rotates, Working
  <2> QED BY <1>2, <2>1, RevokeFamilyCase, LiveEnd
<1>3. ASSUME NEW k \in Calls, RevokeAll(k) PROVE LiveInv'
  <2>1. UNCHANGED overlapped /\ Working(k) /\ ~Rotates(k) /\ Touches(k) = Families
        /\ ~Rotates(k)' /\ call[k].pc # "retire"
        /\ \A j \in Calls : j # k => call'[j] = call[j]
    BY <1>3, RevokeAllCase DEF RevokeAll, Rotates, Working, Touches
  <2> QED BY <1>3, <2>1, RevokeAllCase, LiveEnd
<1>4. ASSUME NEW t \in Tokens, Expire(t) PROVE LiveInv'
  <2>1. UNCHANGED <<call, overlapped, ended>>
    BY <1>4 DEF Expire
  <2> QED BY <1>4, <2>1, ExpireCase, LiveFrameAll DEF Rotates
<1>5. ASSUME NEW p \in Tabs, NEW k \in Calls, TakeRefresh(p, k) \/ TakeAnswer(p, k) \/ Lose(p, k)
      PROVE  LiveInv'
  <2>1. UNCHANGED <<token, overlapped, ended>> /\ Over(k) /\ call[k].pc \in {"sent", "answer"}
    BY <1>5 DEF TakeRefresh, TakeAnswer, Lose
  <2>2. /\ \A j \in Calls : call[j].pc = "retire" => call'[j] = call[j]
        /\ \A j \in Calls : Rotates(j)' => call'[j] = call[j]
    BY <2>1, OverCase DEF Rotates
  <2> QED BY <2>1, <2>2, LiveFrameAll
<1>6. ASSUME NEW p \in Tabs, Save(p) \/ Reload(p) PROVE LiveInv'
  <2>1. UNCHANGED <<token, call, overlapped, ended>>
    BY <1>6 DEF Save, Reload, server
  <2> QED BY <2>1, LiveFrameAll
<1>7. CASE UNCHANGED vars
  BY <1>7, LiveFrameAll DEF vars
<1> QED BY <1>1, <1>2, <1>3, <1>4, <1>5, <1>6, <1>7, LiveFind, LiveMint, LiveRetire DEF Next

\* A login that was ended never has a live token again, unless its requests
\* overlapped: see EndedLoginIsDead.
THEOREM DeadStaysDead == Spec => []EndedLoginIsDead
<1>1. Init => Typed /\ AloneInv /\ LiveInv
  BY TypedInit, AloneInit, LiveInit
<1>2. Typed /\ AloneInv /\ LiveInv /\ [Next]_vars => (Typed /\ AloneInv /\ LiveInv)'
  BY TypedStep, AloneStep, LiveStep
<1>3. LiveInv => EndedLoginIsDead
  BY DEF LiveInv
<1> QED BY <1>1, <1>2, <1>3, PTL DEF Spec

LEMMA LiveCount == Typed /\ LiveInv => OneLiveToken
<1> SUFFICES ASSUME Typed, LiveInv, NEW f \in Families \ overlapped
             PROVE  Cardinality(Live(f)) <= IF Retiring(f) THEN 2 ELSE 1
  BY DEF OneLiveToken, Retiring
<1>1. CASE Retiring(f)
  <2>1. PICK k \in Calls : call[k].pc = "retire" /\ f \in FamilyOf(call[k].tok)
    BY <1>1 DEF Retiring
  <2>2. Rotates(k) /\ f = token[call[k].tok].family
    BY <2>1, RotatingToken DEF Rotates, Typed, CallInv
  <2> DEFINE a == call[k].tok
             b == call[k].new
  <2>3. Live(f) \subseteq {a, b}
    BY <2>2 DEF LiveInv, RotateInv, RotationOf
  <2> HIDE DEF a, b
  <2>4. IsFiniteSet({a, b}) /\ Cardinality({a, b}) <= 2
    <3>1. {b} \cup {a} = {a, b}
      OBVIOUS
    <3>2. IsFiniteSet({b}) /\ Cardinality({b}) = 1
      BY FS_Singleton
    <3>3. Cardinality({b} \cup {a}) = IF a \in {b} THEN 1 ELSE 2
      BY <3>2, FS_AddElement
    <3>4. IsFiniteSet({b} \cup {a})
      BY <3>2, FS_AddElement
    <3> QED BY <3>1, <3>3, <3>4
  <2>5. IsFiniteSet(Live(f)) /\ Cardinality(Live(f)) <= Cardinality({a, b})
    BY <2>3, <2>4, FS_Subset
  <2>6. Cardinality(Live(f)) \in Nat /\ Cardinality({a, b}) \in Nat
    BY <2>4, <2>5, FS_CardinalityType
  <2> QED BY <1>1, <2>4, <2>5, <2>6
<1>2. CASE ~Retiring(f)
  <2>1. \A t, u \in Live(f) : t = u
    BY <1>2 DEF LiveInv, OneLive
  <2>2. CASE Live(f) = {}
    BY <1>2, <2>2, FS_EmptySet
  <2>3. CASE Live(f) # {}
    <3>1. PICK t : Live(f) = {t}
      BY <2>1, <2>3
    <3> QED BY <1>2, <3>1, FS_Singleton
  <2> QED BY <2>2, <2>3
<1> QED BY <1>1, <1>2

\* A login has one live token, two only while a rotation is under way, unless
\* its requests overlapped: see OneLiveToken.
THEOREM RotationKeepsOne == Spec => []OneLiveToken
<1>1. Init => Typed /\ AloneInv /\ LiveInv
  BY TypedInit, AloneInit, LiveInit
<1>2. Typed /\ AloneInv /\ LiveInv /\ [Next]_vars => (Typed /\ AloneInv /\ LiveInv)'
  BY TypedStep, AloneStep, LiveStep
<1>3. Typed /\ LiveInv => OneLiveToken
  BY LiveCount
<1> QED BY <1>1, <1>2, <1>3, PTL DEF Spec

-----------------------------------------------------------------------------
(* An honest client.                                                       *)

\* Families a false alarm may be about.
Bad == overlapped \cup ended \cup lost

\* The family of a token that was revoked, of the tokens a page has yet to
\* write, and of the token of the refresh it waits for.
Died(t) == IF t # None /\ token[t].revoked THEN FamilyOf(t) ELSE {}
Saves(p) == 1..Len(tab[p].saves)
Saved(p) == UNION {FamilyOf(tab[p].saves[i][2]) : i \in Saves(p)}
Entered(p) == UNION {FamilyOf(tab[p].saves[i][2]) : i \in {i \in Saves(p) : tab[p].saves[i][1] = "login"}}
Later(p, i) == UNION {FamilyOf(tab[p].saves[j][2]) : j \in {j \in Saves(p) : i < j}}
Asked(p) == IF tab[p].refresh = None THEN {} ELSE FamilyOf(call[tab[p].refresh].tok)
Rotating(p) ==
    IF /\ tab[p].refresh # None
       /\ call[tab[p].refresh].pc = "answer" /\ call[tab[p].refresh].verdict = "ok"
    THEN Asked(p) ELSE {}
Rotated == UNION {Rotating(p) : p \in Tabs}
App(p) == BrowserOf[p] \in Native
Kept(b) == FamilyOf(cookie[b]) \cup FamilyOf(cached[b]) \cup FamilyOf(disk[b])
           \cup UNION {Saved(p) \cup Asked(p) : p \in {p \in Tabs : BrowserOf[p] = b}}
Fresh(k) == call[k].op \in {"login", "password"} /\ call[k].new # None

\* A page waits for a request of its own, and for no second of a kind.
WaitInv ==
    /\ \A p \in Tabs : tab[p].refresh # None =>
          LET c == call[tab[p].refresh] IN
          c.op = "refresh" /\ c.tab = p /\ c.pc \notin {"new", "over"} /\ ~Saving(p, "refresh")
    /\ \A p \in Tabs : tab[p].ask # None =>
          LET c == call[tab[p].ask] IN
          /\ c.op \in {"login", "logout", "password"} /\ c.tab = p /\ c.pc \notin {"new", "over"}
          /\ c.op = "login" => ~Saving(p, "login")
\* What a request has found out.
AnswerInv ==
    \A k \in Calls :
        /\ call[k].op = "logout" /\ call[k].pc = "answer" => call[k].verdict = "closed"
        /\ call[k].new # None =>
              \/ /\ call[k].op = "refresh" /\ call[k].pc \in {"retire", "answer"}
                 /\ FamilyOf(call[k].new) = FamilyOf(call[k].tok) /\ call[k].new # call[k].tok
              \/ call[k].op \in {"login", "password"} /\ call[k].pc = "answer"
\* As AloneInv, until the answers are in.
AloneOut ==
    \A j, k \in Calls : j # k /\ Outstanding(j) /\ Outstanding(k) =>
        FamilyOf(call[j].tok) \cap FamilyOf(call[k].tok) \subseteq overlapped
\* A login is kept in one place, a fresh one in none yet.
HomeInv == \A b, c \in Browsers : b # c => Kept(b) \cap Kept(c) = {}
NewInv ==
    \A k \in Calls : Fresh(k) =>
        /\ \A b \in Browsers : FamilyOf(call[k].new) \cap Kept(b) = {}
        /\ \A j \in Calls : FamilyOf(call[k].new) \cap FamilyOf(call[j].tok) = {}
        /\ \A j \in Calls : j # k /\ Fresh(j) => FamilyOf(call[k].new) \cap FamilyOf(call[j].new) = {}
\* The server refreshes live tokens, for pages that wait.
ReadsInv ==
    \A k \in Calls : Working(k) /\ call[k].op = "refresh" =>
        \/ FamilyOf(call[k].tok) \subseteq Bad
        \/ /\ call[k].pc # "reuse" /\ ~token[call[k].tok].revoked
           /\ \E p \in Tabs : tab[p].refresh = k
\* Its answers bring live tokens.
NextLive == \A k \in Calls : Outstanding(k) => Died(call[k].new) \subseteq Bad
\* A client presents a live token, or one whose successor is on its way;
\* what a phone has stored is live, or its successor is to be stored.
PresentedInv == \A b \in Browsers : Died(Presented(b)) \subseteq Rotated \cup Bad
ChainAt(p) ==
    /\ Died(disk[BrowserOf[p]]) \subseteq Rotated \cup Bad \cup Saved(p)
    /\ \A i \in Saves(p) : Died(tab[p].saves[i][2]) \subseteq Rotated \cup Bad \cup Later(p, i)
ChainInv == \A p \in Tabs : App(p) => ChainAt(p)
\* A phone with no token in memory presents a login it does not store; one that
\* logs out has no refresh of the login it is storing; one that refreshes the
\* login it is storing has it in memory; and one whose refresh carries the cookie
\* only refreshes no login it holds otherwise.
EmptyAt(p) ==
    cached[BrowserOf[p]] = None =>
        (FamilyOf(cookie[BrowserOf[p]]) \cup Asked(p)) \cap (FamilyOf(disk[BrowserOf[p]]) \cup Saved(p))
            \subseteq Bad
Leaving(p) == tab[p].ask # None /\ call[tab[p].ask].op = "logout"
LeavingAt(p) ==
    Leaving(p) =>
        /\ Asked(p) \cap Saved(p) \subseteq Bad
        /\ FamilyOf(Presented(BrowserOf[p])) \cap Entered(p) \subseteq Bad \cup FamilyOf(call[tab[p].ask].tok)
EnteringAt(p) == Asked(p) \cap Entered(p) \subseteq Bad \cup FamilyOf(cached[BrowserOf[p]])
Bare(p) == tab[p].refresh # None /\ ~call[tab[p].refresh].body
BareAt(p) ==
    Bare(p) => Asked(p) \cap (FamilyOf(cached[BrowserOf[p]]) \cup FamilyOf(disk[BrowserOf[p]]) \cup Saved(p))
                   \subseteq Bad
PhoneInv == \A p \in Tabs : App(p) => EmptyAt(p) /\ LeavingAt(p) /\ EnteringAt(p) /\ BareAt(p)

HonestInv == /\ WaitInv /\ AnswerInv /\ AloneOut /\ HomeInv /\ NewInv
             /\ PhoneInv
             /\ ReadsInv /\ NextLive /\ PresentedInv /\ ChainInv

LEMMA NothingYet == Init =>
    /\ Issued = {} /\ Bad = {}
    /\ \A p \in Tabs : Saves(p) = {} /\ Saved(p) = {} /\ Asked(p) = {}
    /\ \A b \in Browsers : Kept(b) = {} /\ Presented(b) = None
    /\ \A k \in Calls : call[k] = NoCall /\ ~Outstanding(k) /\ ~Fresh(k)
<1> SUFFICES ASSUME Init
             PROVE  /\ Issued = {} /\ Bad = {}
                    /\ \A p \in Tabs : Saves(p) = {} /\ Saved(p) = {} /\ Asked(p) = {}
                    /\ \A b \in Browsers : Kept(b) = {} /\ Presented(b) = None
                    /\ \A k \in Calls : call[k] = NoCall /\ ~Outstanding(k) /\ ~Fresh(k)
  OBVIOUS
<1>1. Issued = {} /\ Bad = {} /\ \A k \in Calls : call[k] = NoCall /\ ~Outstanding(k) /\ ~Fresh(k)
  BY DEF Init, Issued, Bad, NoRow, NoCall, Outstanding, Fresh
<1>2. \A p \in Tabs : tab[p] = BlankPage
  BY DEF Init
<1>3. \A p \in Tabs : Saves(p) = {} /\ Asked(p) = {}
  BY <1>2 DEF Saves, Asked, BlankPage
<1>4. \A p \in Tabs : Saved(p) = {}
  BY <1>3 DEF Saved
<1>5. \A b \in Browsers : cookie[b] = None /\ cached[b] = None /\ disk[b] = None
  BY DEF Init
<1>6. \A b \in Browsers : Kept(b) = {}
  BY <1>3, <1>4, <1>5 DEF Kept, FamilyOf
<1> QED BY <1>1, <1>3, <1>4, <1>5, <1>6 DEF Presented

LEMMA HonestInit == Init => HonestInv
<1> SUFFICES ASSUME Init PROVE HonestInv
  OBVIOUS
<1>1. /\ \A p \in Tabs : Saves(p) = {} /\ Saved(p) = {} /\ Asked(p) = {}
      /\ \A b \in Browsers : Kept(b) = {} /\ Presented(b) = None
      /\ \A k \in Calls : call[k] = NoCall /\ ~Outstanding(k) /\ ~Fresh(k)
  BY NothingYet
<1>2. \A p \in Tabs : tab[p] = BlankPage
  BY DEF Init
<1>3. WaitInv
  BY <1>2 DEF WaitInv, BlankPage
<1>4. AnswerInv /\ AloneOut /\ NewInv /\ ReadsInv /\ NextLive
  BY <1>1 DEF AnswerInv, AloneOut, NewInv, ReadsInv, NextLive, NoCall, Working
<1>5. HomeInv /\ PresentedInv
  BY <1>1 DEF HomeInv, PresentedInv, Died
<1>6. \A b \in Browsers : cookie[b] = None /\ cached[b] = None /\ disk[b] = None
  BY DEF Init
<1>7. ChainInv
  BY <1>1, <1>6 DEF ChainInv, ChainAt, Died
<1>8. PhoneInv
  BY <1>1, <1>2, <1>6 DEF PhoneInv, EmptyAt, LeavingAt, Leaving, EnteringAt, BareAt, FamilyOf, BlankPage
<1> QED BY <1>3, <1>4, <1>5, <1>7, <1>8 DEF HonestInv

-----------------------------------------------------------------------------
(* What the steps of a client change.                                      *)

\* One request begins.
LEMMA SendCase ==
    ASSUME Typed, NEW p \in Tabs, NEW op \in {"login", "refresh", "logout", "password"},
           NEW field \in {"refresh", "ask"}, Send(p, op, field), op = "refresh" => tab[p].refresh = None
    PROVE  \E k \in Calls : \E tok \in Maybe(Tokens) :
             /\ tok = (IF op \in {"refresh", "logout"} THEN Presented(BrowserOf[p]) ELSE None)
             /\ call[k].pc = "new" /\ \A j \in Calls \ {k} : call'[j] = call[j]
             /\ call'[k].op = op /\ call'[k].tok = tok /\ call'[k].tab = p
             /\ call'[k].pc = "sent" /\ call'[k].new = None
             /\ call'[k].body <=> (BrowserOf[p] \in Native /\ cached[BrowserOf[p]] # None)
             /\ \A q \in Tabs : /\ tab'[q].saves = tab[q].saves
                                /\ tab'[q].refresh = IF q = p /\ field = "refresh" THEN k ELSE tab[q].refresh
                                /\ tab'[q].ask = IF q = p /\ field = "ask" THEN k ELSE tab[q].ask
             /\ \A j \in Calls : Outstanding(j) => FamilyOf(tok) \cap FamilyOf(call[j].tok) \subseteq overlapped'
             /\ overlapped \subseteq overlapped'
             /\ UNCHANGED <<token, cookie, cached, disk, ended, lost>>
<1> DEFINE tok == IF op \in {"refresh", "logout"} THEN Presented(BrowserOf[p]) ELSE None
           body == BrowserOf[p] \in Native /\ cached[BrowserOf[p]] # None
           mine == IF op = "password" THEN Families ELSE FamilyOf(tok)
           c == [NoCall EXCEPT !.op = op, !.tab = p, !.tok = tok, !.pc = "sent", !.body = body]
<1>1. PICK k \in Calls :
         /\ call[k].pc = "new" /\ call' = [call EXCEPT ![k] = c]
         /\ tab' = [tab EXCEPT ![p] = IF field = "refresh" THEN [@ EXCEPT !.refresh = k]
                                                           ELSE [@ EXCEPT !.ask = k]]
         /\ overlapped' = overlapped \cup
               UNION {mine \cap Touches(j) : j \in {j \in Calls : Outstanding(j)
                         /\ ~(op = "refresh" /\ tab[p].refresh = j)}}
         /\ UNCHANGED <<token, cookie, cached, disk, ended, lost>>
  BY DEF Send
<1>2. Token(tok) /\ tok \in Maybe(Tokens)
  <2>1. BrowserOf[p] \in Browsers
    OBVIOUS
  <2>2. Token(tok)
    BY <2>1, PresentedHeld DEF Token
  <2> QED BY <2>2, FamilyHeld
<1>3. c.op = op /\ c.tok = tok /\ c.tab = p /\ c.pc = "sent" /\ c.new = None /\ c.body = body
  BY DEF NoCall
<1>4. \A j \in Calls : call'[j] = IF j = k THEN c ELSE call[j]
  BY <1>1 DEF Typed, TypeOK
<1>5. ASSUME NEW q \in Tabs
      PROVE  /\ tab'[q].saves = tab[q].saves
             /\ tab'[q].refresh = IF q = p /\ field = "refresh" THEN k ELSE tab[q].refresh
             /\ tab'[q].ask = IF q = p /\ field = "ask" THEN k ELSE tab[q].ask
  <2>1. tab[q] \in Page /\ tab[p] \in Page
    BY PageType
  <2>2. tab' = [tab EXCEPT ![p] = IF field = "refresh" THEN [tab[p] EXCEPT !.refresh = k]
                                                       ELSE [tab[p] EXCEPT !.ask = k]]
    BY <1>1
  <2>3. tab'[q] = IF q = p THEN (IF field = "refresh" THEN [tab[p] EXCEPT !.refresh = k]
                                                      ELSE [tab[p] EXCEPT !.ask = k]) ELSE tab[q]
    BY <2>2 DEF Typed, TypeOK
  <2> QED BY <2>1, <2>3 DEF Page
<1>6. ASSUME NEW j \in Calls, Outstanding(j)
      PROVE  FamilyOf(tok) \cap FamilyOf(call[j].tok) \subseteq overlapped'
  <2>1. mine \cap Touches(j) \subseteq overlapped'
    BY <1>1, <1>6, NoneApart
  <2>2. FamilyOf(tok) \subseteq mine
    BY DEF FamilyOf
  <2>3. FamilyOf(call[j].tok) \subseteq Touches(j)
    BY DEF Touches, Typed, CallInv, FamilyOf
  <2> QED BY <2>1, <2>2, <2>3
<1>7. overlapped \subseteq overlapped'
  BY <1>1
<1>8. tok = (IF op \in {"refresh", "logout"} THEN Presented(BrowserOf[p]) ELSE None)
  OBVIOUS
<1>9. c.body <=> (BrowserOf[p] \in Native /\ cached[BrowserOf[p]] # None)
  BY <1>3
<1> HIDE DEF c, mine, tok, body
<1> QED BY <1>1, <1>2, <1>3, <1>4, <1>5, <1>6, <1>7, <1>8, <1>9

-----------------------------------------------------------------------------
(* Families seen from a page, before a step and after it.                  *)

LEMMA HeldTokens ==
    ASSUME Typed
    PROVE  /\ \A p \in Tabs : /\ tab[p].saves \in Seq({"refresh", "login"} \X Tokens)
                              /\ tab[p].refresh # None => tab[p].refresh \in Calls
                              /\ tab[p].ask # None => tab[p].ask \in Calls
                              /\ \A i \in Saves(p) : Token(tab[p].saves[i][2])
           /\ \A k \in Calls : Token(call[k].tok) /\ Token(call[k].new)
           /\ \A b \in Browsers : /\ Token(cookie[b]) /\ Token(cached[b]) /\ Token(disk[b])
                                  /\ Token(Presented(b))
<1>1. \A p \in Tabs : tab[p] \in Page
  BY PageType
<1>2. \A p \in Tabs : \A i \in Saves(p) : tab[p].saves[i][2] \in Issued
  BY DEF Typed, HeldInv, Saves
<1> QED BY <1>1, <1>2, PresentedHeld DEF Page, Maybe, Typed, HeldInv, Token

\* A step that keeps the families of the tokens in use.
FamiliesKept == \A t : Token(t) => FamilyOf(t)' = FamilyOf(t)

LEMMA KeptByFamily ==
    ASSUME Typed, \A t \in Issued : token'[t].family = token[t].family
    PROVE  FamiliesKept
BY DEF FamiliesKept, FamilyOf, Token

LEMMA SavesKept ==
    ASSUME Typed, FamiliesKept, NEW p \in Tabs, tab'[p].saves = tab[p].saves
    PROVE  /\ Saves(p)' = Saves(p) /\ Saved(p)' = Saved(p) /\ Entered(p)' = Entered(p)
           /\ \A i \in Saves(p) : Later(p, i)' = Later(p, i)
           /\ \A kind : Saving(p, kind)' = Saving(p, kind)
<1>1. Saves(p)' = Saves(p)
  BY DEF Saves
<1>2. \A i \in Saves(p) : FamilyOf(tab[p].saves[i][2])' = FamilyOf(tab[p].saves[i][2])
  <2>1. \A i \in Saves(p) : Token(tab[p].saves[i][2])
    BY HeldTokens
  <2> QED BY <2>1 DEF FamiliesKept, FamilyOf
<1>3. Saved(p)' = Saved(p)
  BY <1>1, <1>2 DEF Saved
<1>4. Entered(p)' = Entered(p)
  BY <1>1, <1>2 DEF Entered
<1>5. \A i \in Saves(p) : Later(p, i)' = Later(p, i)
  BY <1>1, <1>2 DEF Later
<1>6. \A kind : Saving(p, kind)' = Saving(p, kind)
  BY DEF Saving
<1> QED BY <1>1, <1>3, <1>4, <1>5, <1>6

LEMMA AskedKept ==
    ASSUME Typed, FamiliesKept, NEW p \in Tabs, tab'[p].refresh = tab[p].refresh,
           tab[p].refresh # None => call'[tab[p].refresh].tok = call[tab[p].refresh].tok
    PROVE  Asked(p)' = Asked(p)
<1>1. CASE tab[p].refresh = None
  BY <1>1 DEF Asked
<1>2. CASE tab[p].refresh # None
  <2>1. Token(call[tab[p].refresh].tok)
    BY <1>2, HeldTokens
  <2> QED BY <1>2, <2>1 DEF Asked, FamiliesKept, FamilyOf
<1> QED BY <1>1, <1>2

LEMMA RotatingKept ==
    ASSUME Typed, FamiliesKept, NEW p \in Tabs, tab'[p].refresh = tab[p].refresh,
           tab[p].refresh # None => call'[tab[p].refresh] = call[tab[p].refresh]
    PROVE  Rotating(p)' = Rotating(p)
<1>1. Asked(p)' = Asked(p)
  BY AskedKept
<1> QED BY <1>1 DEF Rotating

\* The page asks for one more write, or one of its writes is done.
LEMMA SavesAppended ==
    ASSUME Typed, FamiliesKept, NEW p \in Tabs, NEW kind \in {"refresh", "login"}, NEW t \in Issued,
           tab'[p].saves = Append(tab[p].saves, <<kind, t>>)
    PROVE  /\ Saved(p)' = Saved(p) \cup FamilyOf(t)
           /\ Entered(p)' = Entered(p) \cup IF kind = "login" THEN FamilyOf(t) ELSE {}
           /\ \A o : Saving(p, o)' => Saving(p, o) \/ o = kind
           /\ \A i \in Saves(p)' : \/ /\ i \in Saves(p) /\ tab'[p].saves[i] = tab[p].saves[i]
                                      /\ Later(p, i)' = Later(p, i) \cup FamilyOf(t)
                                   \/ tab'[p].saves[i][2] = t
<1>1. PICK s, s1, e, n : s = tab[p].saves /\ s1 = tab'[p].saves /\ e = <<kind, t>> /\ n = Len(s)
  OBVIOUS
<1>2. /\ n \in Nat /\ Len(s1) = n + 1
      /\ \A i \in 1..n : s1[i] = s[i]
      /\ s1[n + 1] = e
  <2>1. s \in Seq({"refresh", "login"} \X Tokens) /\ e \in {"refresh", "login"} \X Tokens
    BY <1>1, HeldTokens DEF Issued
  <2>2. s1 = Append(s, e)
    BY <1>1
  <2> QED BY <1>1, <2>1, <2>2, AppendProperties
<1>3. e[1] = kind /\ e[2] = t
  BY <1>1
<1>4. Saves(p) = 1..n /\ Saves(p)' = 1..(n + 1)
  BY <1>1, <1>2 DEF Saves
<1>5. \A i \in 1..n : Token(s[i][2])
  BY <1>1, <1>4, HeldTokens
<1> DEFINE fam(i) == FamilyOf(s1[i][2])'
           old(i) == FamilyOf(s[i][2])
<1>7. /\ Saved(p)' = UNION {fam(i) : i \in 1..(n + 1)}
      /\ Saved(p) = UNION {old(i) : i \in 1..n}
      /\ Entered(p)' = UNION {fam(i) : i \in {i \in 1..(n + 1) : s1[i][1] = "login"}}
      /\ Entered(p) = UNION {old(i) : i \in {i \in 1..n : s[i][1] = "login"}}
      /\ \A i \in 1..n : /\ Later(p, i)' = UNION {fam(j) : j \in {j \in 1..(n + 1) : i < j}}
                         /\ Later(p, i) = UNION {old(j) : j \in {j \in 1..n : i < j}}
  BY <1>1, <1>4 DEF Saved, Entered, Later
<1>8. /\ \A i \in 1..n : fam(i) = old(i)
      /\ fam(n + 1) = FamilyOf(t)
  BY <1>2, <1>3, <1>5 DEF FamiliesKept, Token
<1>9. /\ \A i \in 1..(n + 1) : i \in 1..n \/ i = n + 1
      /\ n + 1 \in 1..(n + 1) /\ \A i \in 1..n : i \in 1..(n + 1) /\ i < n + 1
  BY <1>2
<1>10. \A o : Saving(p, o)' => Saving(p, o) \/ o = kind
  BY <1>1, <1>2, <1>3, <1>9 DEF Saving
<1> HIDE DEF fam, old
<1>11. Saved(p)' = Saved(p) \cup FamilyOf(t)
  BY ONLY <1>7, <1>8, <1>9
<1>12. Entered(p)' = Entered(p) \cup IF kind = "login" THEN FamilyOf(t) ELSE {}
  BY ONLY <1>2, <1>3, <1>7, <1>8, <1>9
<1>13. \A i \in 1..n : Later(p, i)' = Later(p, i) \cup FamilyOf(t)
  BY ONLY <1>7, <1>8, <1>9
<1> QED BY <1>1, <1>2, <1>3, <1>4, <1>9, <1>10, <1>11, <1>12, <1>13

LEMMA SavesWritten ==
    ASSUME Typed, FamiliesKept, NEW p \in Tabs, tab[p].saves # <<>>,
           tab'[p].saves = Tail(tab[p].saves)
    PROVE  LET head == Head(tab[p].saves)[2] IN
           /\ 1 \in Saves(p) /\ head = tab[p].saves[1][2] /\ head \in Issued
           /\ Saved(p) = FamilyOf(head) \cup Saved(p)' /\ Later(p, 1) = Saved(p)'
           /\ Entered(p)' \subseteq Entered(p)
           /\ \A o : Saving(p, o)' => Saving(p, o)
           /\ \A i \in Saves(p)' : /\ i + 1 \in Saves(p) /\ tab'[p].saves[i] = tab[p].saves[i + 1]
                                   /\ Later(p, i)' = Later(p, i + 1)
<1>1. PICK s, s1, n : s = tab[p].saves /\ s1 = tab'[p].saves /\ n = Len(s)
  OBVIOUS
<1>2. /\ n \in Nat /\ n > 0 /\ Len(s1) = n - 1 /\ Head(s) = s[1]
      /\ \A i \in 1..(n - 1) : s1[i] = s[i + 1]
  <2>1. s \in Seq({"refresh", "login"} \X Tokens) /\ s # <<>> /\ s1 = Tail(s)
    BY <1>1, HeldTokens
  <2>2. /\ Len(s) \in Nat /\ Len(s) > 0 /\ Head(s) = s[1]
        /\ Len(Tail(s)) = Len(s) - 1 /\ \A i \in 1..Len(Tail(s)) : Tail(s)[i] = s[i + 1]
    BY <2>1, HeadTailProperties
  <2> QED BY <1>1, <2>1, <2>2
<1>3. Saves(p) = 1..n /\ Saves(p)' = 1..(n - 1)
  BY <1>1, <1>2 DEF Saves
<1>4. \A i \in 1..n : Token(s[i][2])
  BY <1>1, <1>3, HeldTokens
<1> DEFINE fam(i) == FamilyOf(s1[i][2])'
           old(i) == FamilyOf(s[i][2])
<1>5. /\ Saved(p)' = UNION {fam(i) : i \in 1..(n - 1)}
      /\ Saved(p) = UNION {old(i) : i \in 1..n}
      /\ Entered(p)' = UNION {fam(i) : i \in {i \in 1..(n - 1) : s1[i][1] = "login"}}
      /\ Entered(p) = UNION {old(i) : i \in {i \in 1..n : s[i][1] = "login"}}
      /\ \A i \in 1..(n - 1) : Later(p, i)' = UNION {fam(j) : j \in {j \in 1..(n - 1) : i < j}}
      /\ \A i \in 1..n : Later(p, i) = UNION {old(j) : j \in {j \in 1..n : i < j}}
  BY <1>1, <1>3 DEF Saved, Entered, Later
<1>7. /\ 1 \in 1..n
      /\ \A i \in 1..(n - 1) : i + 1 \in 1..n /\ 1 < i + 1
      /\ \A i \in 1..n : i = 1 \/ \E j \in 1..(n - 1) : i = j + 1
      /\ \A i, j \in 1..(n - 1) : i < j <=> i + 1 < j + 1
  <2>1. \A i \in 1..n : i # 1 => i - 1 \in 1..(n - 1) /\ i = (i - 1) + 1
    BY <1>2
  <2> QED BY <1>2, <2>1
<1>6. \A i \in 1..(n - 1) : fam(i) = old(i + 1) /\ s1[i][1] = s[i + 1][1]
  BY <1>2, <1>4, <1>7 DEF FamiliesKept
<1>8. \A o : Saving(p, o)' => Saving(p, o)
  <2> SUFFICES ASSUME NEW o, NEW i \in 1..(n - 1), s1[i][1] = o PROVE Saving(p, o)
    BY <1>1, <1>2 DEF Saving
  <2>1. i + 1 \in 1..Len(tab[p].saves) /\ tab[p].saves[i + 1][1] = o
    BY <1>1, <1>2, <1>7
  <2> QED BY <2>1 DEF Saving
<1>9. s[1][2] \in Issued
  BY <1>1, <1>2, <1>7 DEF Typed, HeldInv
<1> HIDE DEF fam
<1>10. Saved(p) = old(1) \cup Saved(p)'
  <2> HIDE DEF old
  <2> QED BY ONLY <1>5, <1>6, <1>7
<1>11. Later(p, 1) = Saved(p)'
  <2>1. \A j \in 1..n : 1 < j <=> \E i \in 1..(n - 1) : j = i + 1
    BY <1>2, <1>7
  <2> HIDE DEF old
  <2> QED BY ONLY <1>5, <1>6, <1>7, <2>1
<1>12. Entered(p)' \subseteq Entered(p)
  <2> HIDE DEF old
  <2> QED BY ONLY <1>5, <1>6, <1>7
<1>13. ASSUME NEW i \in 1..(n - 1) PROVE Later(p, i)' = Later(p, i + 1)
  <2>1. \A j \in 1..n : i + 1 < j => \E m \in 1..(n - 1) : j = m + 1 /\ i < m
    BY <1>2, <1>7
  <2>2. i + 1 \in 1..n
    BY <1>7
  <2>3. /\ Later(p, i)' = UNION {fam(j) : j \in {j \in 1..(n - 1) : i < j}}
        /\ Later(p, i + 1) = UNION {old(j) : j \in {j \in 1..n : i + 1 < j}}
    BY <1>5, <2>2
  <2> HIDE DEF old
  <2>4. \A j \in 1..(n - 1) : i < j => fam(j) = old(j + 1) /\ j + 1 \in 1..n /\ i + 1 < j + 1
    BY <1>6, <1>7
  <2>5. ASSUME NEW x \in Later(p, i)' PROVE x \in Later(p, i + 1)
    <3>1. PICK j \in 1..(n - 1) : i < j /\ x \in fam(j)
      BY <2>3, <2>5
    <3> QED BY <2>3, <2>4, <3>1
  <2>6. ASSUME NEW x \in Later(p, i + 1) PROVE x \in Later(p, i)'
    <3>1. PICK j \in 1..n : i + 1 < j /\ x \in old(j)
      BY <2>3, <2>6
    <3>2. PICK m \in 1..(n - 1) : j = m + 1 /\ i < m
      BY <2>1, <3>1
    <3> QED BY <2>3, <2>4, <3>1, <3>2
  <2> QED BY <2>5, <2>6
<1>14. Head(tab[p].saves)[2] = s[1][2] /\ tab[p].saves[1][2] = s[1][2] /\ old(1) = FamilyOf(s[1][2])
  BY <1>1, <1>2
<1>15. \A i \in Saves(p)' : i + 1 \in Saves(p) /\ tab'[p].saves[i] = tab[p].saves[i + 1]
  BY <1>1, <1>2, <1>3, <1>7
<1>16. \A i \in Saves(p)' : Later(p, i)' = Later(p, i + 1)
  BY <1>3, <1>13
<1> HIDE DEF old
<1> QED BY <1>3, <1>7, <1>8, <1>9, <1>10, <1>11, <1>12, <1>14, <1>15, <1>16

-----------------------------------------------------------------------------
(* A step of the server, and what the pages see of it.                     *)

Grows == FamiliesKept /\ Bad \subseteq Bad'
ServerStep ==
    /\ UNCHANGED <<tab, cookie, cached, disk, overlapped, lost>> /\ Grows
    /\ \A k \in Calls :
          /\ call'[k].op = call[k].op /\ call'[k].tok = call[k].tok /\ call'[k].tab = call[k].tab /\ call'[k].body = call[k].body
          /\ call[k].pc \in {"new", "answer", "over"} => call'[k] = call[k]
          /\ call[k].pc \notin {"new", "over"} => call'[k].pc \notin {"new", "over"}

LEMMA ServerSteps ==
    ASSUME Typed,
           \/ \E k \in Calls : Find(k) \/ Mint(k) \/ Retire(k) \/ RevokeFamily(k) \/ RevokeAll(k)
           \/ \E t \in Tokens : Expire(t)
           \/ UNCHANGED vars
    PROVE  ServerStep
<1>0. \A t \in Issued : t \in Tokens
  BY DEF Issued
<1>1. ASSUME NEW k \in Calls, Find(k) PROVE ServerStep
  <2>1. UNCHANGED <<token, tab, cookie, cached, disk, overlapped, ended, lost>>
    BY <1>1 DEF Find, client
  <2>2. Grows
    BY <2>1, KeptByFamily DEF Grows, Bad
  <2> QED BY <1>1, <2>1, <2>2, FindCase DEF ServerStep
<1>2. ASSUME NEW k \in Calls, Mint(k) PROVE ServerStep
  <2>1. UNCHANGED <<tab, cookie, cached, disk, overlapped, ended, lost>>
    BY <1>2 DEF Mint, client
  <2>2. PICK t \in Tokens \ Issued :
             /\ \A u \in Tokens : u # t => token'[u] = token[u]
             /\ \A j \in Calls : /\ j # k => call'[j] = call[j]
                                 /\ call'[j].op = call[j].op /\ call'[j].tok = call[j].tok
                                 /\ call'[j].tab = call[j].tab /\ call'[j].body = call[j].body
             /\ call'[k].pc = (IF call[k].op = "refresh" THEN "retire" ELSE "answer")
    BY <1>2, MintCase
  <2>3. \A u \in Issued : token'[u].family = token[u].family
    BY <1>0, <2>2
  <2>4. Grows
    BY <2>1, <2>3, KeptByFamily DEF Grows, Bad
  <2>5. call[k].pc \in {"mint", "sent"}
    BY <1>2 DEF Mint, Mints
  <2> QED BY <2>1, <2>2, <2>4, <2>5 DEF ServerStep
<1>3. ASSUME NEW k \in Calls, Retire(k) PROVE ServerStep
  <2>1. UNCHANGED <<tab, cookie, cached, disk, overlapped, ended, lost>>
    BY <1>3 DEF Retire, client
  <2>2. \A u \in Issued : token'[u].family = token[u].family
    BY <1>0, <1>3, RetireCase
  <2>3. Grows
    BY <2>1, <2>2, KeptByFamily DEF Grows, Bad
  <2> QED BY <1>3, <2>1, <2>3, RetireCase, AnswerType DEF ServerStep
<1>4. ASSUME NEW k \in Calls, RevokeFamily(k) PROVE ServerStep
  <2>1. UNCHANGED <<tab, cookie, cached, disk, overlapped, lost>>
    BY <1>4 DEF RevokeFamily, client
  <2>2. \A u \in Issued : token'[u].family = token[u].family
    BY <1>0, <1>4, RevokeFamilyCase, RevokedType
  <2>3. Grows
    BY <1>4, <2>1, <2>2, RevokeFamilyCase, KeptByFamily DEF Grows, Bad
  <2>4. PICK v \in {"rejected", "closed"} : \A j \in Calls : call'[j] = IF j = k THEN Answer(k, v) ELSE call[j]
    BY <1>4, RevokeFamilyCase
  <2> QED BY <1>4, <2>1, <2>3, <2>4, RevokeFamilyCase, AnswerType DEF ServerStep
<1>5. ASSUME NEW k \in Calls, RevokeAll(k) PROVE ServerStep
  <2>1. UNCHANGED <<tab, cookie, cached, disk, overlapped, lost>>
    BY <1>5 DEF RevokeAll, client
  <2>2. \A u \in Issued : token'[u].family = token[u].family
    BY <1>0, <1>5, RevokeAllCase, RevokedType
  <2>3. Grows
    BY <1>5, <2>1, <2>2, RevokeAllCase, KeptByFamily DEF Grows, Bad
  <2>4. call' = [call EXCEPT ![k] = [call[k] EXCEPT !.pc = "mint"]]
    BY <1>5 DEF RevokeAll
  <2>5. call'[k].tab = call[k].tab /\ call'[k].body = call[k].body
    BY <2>4, PcType DEF Typed, TypeOK
  <2> QED BY <1>5, <2>1, <2>3, <2>5, RevokeAllCase DEF ServerStep
<1>6. ASSUME NEW t \in Tokens, Expire(t) PROVE ServerStep
  <2>1. UNCHANGED <<call, tab, cookie, cached, disk, overlapped, ended, lost>>
    BY <1>6 DEF Expire, client
  <2>2. Grows
    BY <1>0, <1>6, <2>1, ExpireCase, KeptByFamily DEF Grows, Bad
  <2> QED BY <2>1, <2>2 DEF ServerStep
<1>7. CASE UNCHANGED vars
  <2>1. Grows
    BY <1>7, KeptByFamily DEF Grows, Bad, vars
  <2> QED BY <1>7, <2>1 DEF ServerStep, vars
<1> QED BY <1>1, <1>2, <1>3, <1>4, <1>5, <1>6, <1>7

\* What a phone or a page holds, seen after the step as before it.
LEMMA KeptSame ==
    ASSUME NEW b \in Browsers, Typed, FamiliesKept,
           cookie'[b] = cookie[b], cached'[b] = cached[b], disk'[b] = disk[b]
    PROVE  /\ FamilyOf(cookie[b])' = FamilyOf(cookie[b]) /\ FamilyOf(cached[b])' = FamilyOf(cached[b])
           /\ FamilyOf(disk[b])' = FamilyOf(disk[b])
           /\ Presented(b)' = Presented(b) /\ FamilyOf(Presented(b))' = FamilyOf(Presented(b))
<1>1. Token(cookie[b]) /\ Token(cached[b]) /\ Token(disk[b]) /\ Token(Presented(b))
  BY HeldTokens
<1>2. Presented(b)' = Presented(b)
  BY DEF Presented
<1>3. \A t : Token(t) => FamilyOf(t)' = FamilyOf(t)
  BY DEF FamiliesKept
<1>4. \A t, u : t = u => FamilyOf(t)' = FamilyOf(u)'
  OBVIOUS
<1> QED BY <1>1, <1>2, <1>3 DEF FamilyOf

LEMMA ServerViews ==
    ASSUME Typed, WaitInv, ServerStep
    PROVE  /\ \A p \in Tabs :
                /\ tab'[p] = tab[p] /\ Saves(p)' = Saves(p) /\ Saved(p)' = Saved(p)
                /\ Entered(p)' = Entered(p) /\ \A i \in Saves(p) : Later(p, i)' = Later(p, i)
                /\ Asked(p)' = Asked(p) /\ Rotating(p) \subseteq Rotating(p)'
           /\ \A b \in Browsers :
                /\ FamilyOf(cookie[b])' = FamilyOf(cookie[b]) /\ FamilyOf(cached[b])' = FamilyOf(cached[b])
                /\ FamilyOf(disk[b])' = FamilyOf(disk[b])
                /\ Presented(b)' = Presented(b) /\ FamilyOf(Presented(b))' = FamilyOf(Presented(b))
                /\ Kept(b)' = Kept(b)
           /\ \A k \in Calls : /\ FamilyOf(call[k].tok)' = FamilyOf(call[k].tok)
                               /\ Outstanding(k)' => Outstanding(k)
<1>1. FamiliesKept /\ UNCHANGED <<tab, cookie, cached, disk>>
  BY DEF ServerStep, Grows
<1>2. ASSUME NEW p \in Tabs
      PROVE  /\ tab'[p] = tab[p] /\ Saves(p)' = Saves(p) /\ Saved(p)' = Saved(p)
             /\ Entered(p)' = Entered(p) /\ \A i \in Saves(p) : Later(p, i)' = Later(p, i)
  BY <1>1, SavesKept
<1>3. ASSUME NEW p \in Tabs PROVE Asked(p)' = Asked(p)
  <2>1. tab[p].refresh # None => tab[p].refresh \in Calls
    BY HeldTokens
  <2> QED BY <1>1, <2>1, AskedKept DEF ServerStep
<1>4. ASSUME NEW p \in Tabs PROVE Rotating(p) \subseteq Rotating(p)'
  <2>1. tab[p].refresh # None => tab[p].refresh \in Calls
    BY HeldTokens
  <2> QED BY <1>1, <1>3, <2>1 DEF ServerStep, Rotating
<1>5. \A b \in Browsers :
         /\ FamilyOf(cookie[b])' = FamilyOf(cookie[b]) /\ FamilyOf(cached[b])' = FamilyOf(cached[b])
         /\ FamilyOf(disk[b])' = FamilyOf(disk[b])
         /\ Presented(b)' = Presented(b) /\ FamilyOf(Presented(b))' = FamilyOf(Presented(b))
  BY <1>1, KeptSame
<1>6. \A b \in Browsers : Kept(b)' = Kept(b)
  BY <1>2, <1>3, <1>5 DEF Kept
<1>7. \A k \in Calls : FamilyOf(call[k].tok)' = FamilyOf(call[k].tok)
  BY <1>1, HeldTokens DEF FamiliesKept, ServerStep, FamilyOf
<1>8. ASSUME NEW k \in Calls, Outstanding(k)' PROVE Outstanding(k)
  <2>1. call[k] \in Request
    BY DEF Typed, TypeOK
  <2>2. call[k].pc \in {"sent", "mint", "retire", "reuse", "close", "answer"}
    BY <1>8, <2>1 DEF Outstanding, ServerStep, Request
  <2>3. \A p \in Tabs : Waits(p, k)' = Waits(p, k)
    BY <1>1 DEF Waits
  <2> QED BY <1>8, <2>2, <2>3 DEF Outstanding, ServerStep
<1> QED BY <1>2, <1>3, <1>4, <1>5, <1>6, <1>7, <1>8

-----------------------------------------------------------------------------
(* A step of a page that asks nothing, and what the pages see of it.       *)

ClientStep(p) ==
    /\ UNCHANGED <<token, overlapped, ended>> /\ lost \subseteq lost'
    /\ \A k \in Calls : call'[k] = call[k] \/ (Waits(p, k) /\ call'[k] = [NoCall EXCEPT !.pc = "over"])
    /\ \A q \in Tabs \ {p} : tab'[q] = tab[q]
    /\ \A b \in Browsers \ {BrowserOf[p]} :
          cookie'[b] = cookie[b] /\ cached'[b] = cached[b] /\ disk'[b] = disk[b]
    /\ \/ tab'[p].refresh = None
       \/ tab'[p].refresh = tab[p].refresh /\ call'[tab[p].refresh] = call[tab[p].refresh]
    /\ \/ tab'[p].ask = None
       \/ tab'[p].ask = tab[p].ask /\ call'[tab[p].ask] = call[tab[p].ask]

LEMMA OverOnly ==
    ASSUME Typed, NEW k \in Calls, Over(k)
    PROVE  \A j \in Calls : call'[j] = IF j = k THEN [NoCall EXCEPT !.pc = "over"] ELSE call[j]
BY DEF Over, Typed, TypeOK

LEMMA PageFields ==
    ASSUME Typed, NEW p \in Tabs
    PROVE  /\ tab[p] \in Page
           /\ \A x, y, z : /\ [tab[p] EXCEPT !.refresh = x].refresh = x
                           /\ [tab[p] EXCEPT !.refresh = x].ask = tab[p].ask
                           /\ [tab[p] EXCEPT !.refresh = x].saves = tab[p].saves
                           /\ [tab[p] EXCEPT !.refresh = x, !.authed = y].refresh = x
                           /\ [tab[p] EXCEPT !.refresh = x, !.authed = y].ask = tab[p].ask
                           /\ [tab[p] EXCEPT !.refresh = x, !.authed = y].saves = tab[p].saves
                           /\ [tab[p] EXCEPT !.refresh = x, !.authed = y, !.saves = z].refresh = x
                           /\ [tab[p] EXCEPT !.refresh = x, !.authed = y, !.saves = z].ask = tab[p].ask
                           /\ [tab[p] EXCEPT !.refresh = x, !.authed = y, !.saves = z].saves = z
                           /\ [tab[p] EXCEPT !.ask = x, !.authed = y].ask = x
                           /\ [tab[p] EXCEPT !.ask = x, !.authed = y].refresh = tab[p].refresh
                           /\ [tab[p] EXCEPT !.ask = x, !.authed = y].saves = tab[p].saves
                           /\ [tab[p] EXCEPT !.ask = x, !.authed = y, !.saves = z].ask = x
                           /\ [tab[p] EXCEPT !.ask = x, !.authed = y, !.saves = z].refresh = tab[p].refresh
                           /\ [tab[p] EXCEPT !.ask = x, !.authed = y, !.saves = z].saves = z
                           /\ [tab[p] EXCEPT !.saves = z, !.authed = y].saves = z
                           /\ [tab[p] EXCEPT !.saves = z, !.authed = y].refresh = tab[p].refresh
                           /\ [tab[p] EXCEPT !.saves = z, !.authed = y].ask = tab[p].ask
<1>1. tab[p] \in Page
  BY PageType
<1> QED BY <1>1 DEF Page

LEMMA PageSet ==
    ASSUME Typed, NEW p \in Tabs, NEW r, tab' = [tab EXCEPT ![p] = r]
    PROVE  tab'[p] = r /\ \A q \in Tabs \ {p} : tab'[q] = tab[q]
BY DEF Typed, TypeOK

LEMMA JarType ==
    ASSUME Typed
    PROVE  /\ cookie \in [Browsers -> Maybe(Tokens)] /\ cached \in [Browsers -> Maybe(Tokens)]
           /\ disk \in [Browsers -> Maybe(Tokens)]
BY DEF Typed, TypeOK

\* A refresh is answered.
LEMMA RefreshCase ==
    ASSUME Typed, WaitInv, NEW p \in Tabs, NEW k \in Calls, TakeRefresh(p, k), NEW b, b = BrowserOf[p]
    PROVE  /\ b \in Browsers /\ call[k].pc = "answer" /\ tab[p].refresh = k /\ call[k].op = "refresh"
           /\ \A j \in Calls : call'[j] = IF j = k THEN [NoCall EXCEPT !.pc = "over"] ELSE call[j]
           /\ tab'[p].refresh = None /\ tab'[p].ask = tab[p].ask
           /\ \/ /\ call[k].verdict = "ok" /\ call[k].new \in Issued
                 /\ b \in Native /\ call[k].body /\ cached'[b] = call[k].new
                 /\ tab'[p].saves = Append(tab[p].saves, <<"refresh", call[k].new>>)
              \/ /\ call[k].verdict = "ok" /\ call[k].new \in Issued
                 /\ ~(b \in Native /\ call[k].body) /\ UNCHANGED cached
                 /\ tab'[p].saves = tab[p].saves
              \/ call[k].verdict # "ok" /\ UNCHANGED cached /\ tab'[p].saves = tab[p].saves
           /\ SetCookie(b, k) /\ cookie'[b] \in {cookie[b], CookieFor(b, k)}
           /\ \A q \in Tabs \ {p} : tab'[q] = tab[q]
           /\ \A c \in Browsers \ {b} : cookie'[c] = cookie[c] /\ cached'[c] = cached[c]
           /\ UNCHANGED <<token, disk, overlapped, ended>> /\ lost \subseteq lost'
<1>1. /\ b \in Browsers /\ call[k].pc = "answer" /\ tab[p].refresh = k
      /\ SetCookie(b, k) /\ Over(k) /\ UNCHANGED <<token, disk, overlapped, ended>>
  BY DEF TakeRefresh
<1>2. call[k].op = "refresh"
  BY <1>1, NoneApart DEF WaitInv
<1>3. \A j \in Calls : call'[j] = IF j = k THEN [NoCall EXCEPT !.pc = "over"] ELSE call[j]
  BY <1>1, OverOnly
<1>4. /\ cookie'[b] \in {cookie[b], CookieFor(b, k)} /\ lost \subseteq lost'
      /\ \A c \in Browsers \ {b} : cookie'[c] = cookie[c]
  <2>1. cookie' = [cookie EXCEPT ![b] = CookieFor(b, k)] \/ UNCHANGED cookie
    BY <1>1 DEF SetCookie
  <2>2. lost \subseteq lost'
    BY <1>1 DEF SetCookie
  <2>3. CASE cookie' = [cookie EXCEPT ![b] = CookieFor(b, k)]
    <3>1. PICK t : t = CookieFor(b, k)
      OBVIOUS
    <3>2. cookie' = [cookie EXCEPT ![b] = t]
      BY <2>3, <3>1
    <3>3. cookie'[b] = t /\ \A c \in Browsers \ {b} : cookie'[c] = cookie[c]
      BY <1>1, <3>2, JarType
    <3> QED BY <2>2, <3>1, <3>3
  <2> QED BY <2>1, <2>2, <2>3
<1>5. call[k].verdict = "ok" => call[k].new \in Issued
  BY <1>1 DEF Typed, CallInv, HeldInv, Token
<1>6. CASE call[k].verdict = "ok" /\ b \in Native /\ call[k].body
  <2>1. cached' = [cached EXCEPT ![b] = call[k].new]
    BY <1>6 DEF TakeRefresh
  <2>2. PICK shown : tab' = [tab EXCEPT ![p] = [tab[p] EXCEPT !.refresh = None, !.authed = shown,
                                        !.saves = Append(tab[p].saves, <<"refresh", call[k].new>>)]]
    BY <1>6 DEF TakeRefresh
  <2>3. /\ tab'[p] = [tab[p] EXCEPT !.refresh = None, !.authed = shown,
                                        !.saves = Append(tab[p].saves, <<"refresh", call[k].new>>)]
        /\ \A q \in Tabs \ {p} : tab'[q] = tab[q]
    BY <2>2, PageSet
  <2>4. /\ tab'[p].refresh = None /\ tab'[p].ask = tab[p].ask
        /\ tab'[p].saves = Append(tab[p].saves, <<"refresh", call[k].new>>)
    BY <2>3, PageFields
  <2>5. cached'[b] = call[k].new /\ \A c \in Browsers \ {b} : cached'[c] = cached[c]
    <3>1. PICK t : t = call[k].new
      OBVIOUS
    <3>2. cached' = [cached EXCEPT ![b] = t]
      BY <2>1, <3>1
    <3> QED BY <1>1, <3>1, <3>2, JarType
  <2> QED BY <1>1, <1>2, <1>3, <1>4, <1>5, <1>6, <2>3, <2>4, <2>5
<1>7. CASE call[k].verdict = "ok" /\ ~(b \in Native /\ call[k].body)
  <2>1. UNCHANGED cached
    BY <1>7 DEF TakeRefresh
  <2>2. PICK shown : tab' = [tab EXCEPT ![p] = [tab[p] EXCEPT !.refresh = None, !.authed = shown,
                                        !.saves = tab[p].saves]]
    BY <1>7 DEF TakeRefresh
  <2>3. /\ tab'[p] = [tab[p] EXCEPT !.refresh = None, !.authed = shown, !.saves = tab[p].saves]
        /\ \A q \in Tabs \ {p} : tab'[q] = tab[q]
    BY <2>2, PageSet
  <2>4. tab'[p].refresh = None /\ tab'[p].ask = tab[p].ask /\ tab'[p].saves = tab[p].saves
    BY <2>3, PageFields
  <2> QED BY <1>1, <1>2, <1>3, <1>4, <1>5, <1>7, <2>1, <2>3, <2>4
<1>8. CASE call[k].verdict # "ok"
  <2>1. UNCHANGED cached /\ tab' = [tab EXCEPT ![p] = [tab[p] EXCEPT !.refresh = None, !.authed = FALSE]]
    BY <1>8 DEF TakeRefresh
  <2>2. /\ tab'[p] = [tab[p] EXCEPT !.refresh = None, !.authed = FALSE]
        /\ \A q \in Tabs \ {p} : tab'[q] = tab[q]
    BY <2>1, PageSet
  <2>3. tab'[p].refresh = None /\ tab'[p].ask = tab[p].ask /\ tab'[p].saves = tab[p].saves
    BY <2>2, PageFields
  <2> QED BY <1>1, <1>2, <1>3, <1>4, <1>8, <2>1, <2>2, <2>3
<1> QED BY <1>6, <1>7, <1>8

\* A login, a logout or a change of password is answered.
LEMMA AnswerCase ==
    ASSUME Typed, WaitInv, NEW p \in Tabs, NEW k \in Calls, TakeAnswer(p, k), NEW b, b = BrowserOf[p]
    PROVE  /\ b \in Browsers /\ call[k].pc = "answer" /\ tab[p].ask = k
           /\ call[k].op \in {"login", "logout", "password"}
           /\ \A j \in Calls : call'[j] = IF j = k THEN [NoCall EXCEPT !.pc = "over"] ELSE call[j]
           /\ tab'[p].ask = None /\ tab'[p].refresh = tab[p].refresh
           /\ call[k].op # "logout" => call[k].verdict = "ok" /\ call[k].new \in Issued
           /\ IF call[k].op = "login" /\ b \in Native
              THEN tab'[p].saves = Append(tab[p].saves, <<"login", call[k].new>>)
              ELSE tab'[p].saves = tab[p].saves
           /\ cached'[b] = CachedAfter(b, k)
           /\ disk'[b] = IF call[k].op = "logout" THEN None ELSE disk[b]
           /\ SetCookie(b, k) /\ cookie'[b] \in {cookie[b], CookieFor(b, k)}
           /\ \A q \in Tabs \ {p} : tab'[q] = tab[q]
           /\ \A c \in Browsers \ {b} : cookie'[c] = cookie[c] /\ cached'[c] = cached[c] /\ disk'[c] = disk[c]
           /\ UNCHANGED <<token, overlapped, ended>> /\ lost \subseteq lost'
<1>1. /\ b \in Browsers /\ call[k].pc = "answer" /\ tab[p].ask = k
      /\ SetCookie(b, k) /\ Over(k) /\ UNCHANGED <<token, overlapped, ended>>
      /\ cached' = [cached EXCEPT ![b] = CachedAfter(b, k)]
      /\ disk' = IF call[k].op = "logout" THEN [disk EXCEPT ![b] = None] ELSE disk
  BY DEF TakeAnswer
<1>2. call[k].op \in {"login", "logout", "password"}
  BY <1>1, NoneApart DEF WaitInv
<1>3. \A j \in Calls : call'[j] = IF j = k THEN [NoCall EXCEPT !.pc = "over"] ELSE call[j]
  BY <1>1, OverOnly
<1>4. /\ cookie'[b] \in {cookie[b], CookieFor(b, k)} /\ lost \subseteq lost'
      /\ \A c \in Browsers \ {b} : cookie'[c] = cookie[c]
  <2>1. cookie' = [cookie EXCEPT ![b] = CookieFor(b, k)] \/ UNCHANGED cookie
    BY <1>1 DEF SetCookie
  <2>2. lost \subseteq lost'
    BY <1>1 DEF SetCookie
  <2>3. CASE cookie' = [cookie EXCEPT ![b] = CookieFor(b, k)]
    <3>1. PICK t : t = CookieFor(b, k)
      OBVIOUS
    <3>2. cookie' = [cookie EXCEPT ![b] = t]
      BY <2>3, <3>1
    <3>3. cookie'[b] = t /\ \A c \in Browsers \ {b} : cookie'[c] = cookie[c]
      BY <1>1, <3>2, JarType
    <3> QED BY <2>2, <3>1, <3>3
  <2> QED BY <2>1, <2>2, <2>3
<1>5. call[k].op # "logout" => call[k].verdict = "ok" /\ call[k].new \in Issued
  BY <1>1, <1>2 DEF Typed, CallInv, HeldInv, Token
<1>6. cached'[b] = CachedAfter(b, k) /\ \A c \in Browsers \ {b} : cached'[c] = cached[c]
  <2>1. PICK t : t = CachedAfter(b, k)
    OBVIOUS
  <2>2. cached' = [cached EXCEPT ![b] = t]
    BY <1>1, <2>1
  <2> QED BY <1>1, <2>1, <2>2, JarType
<1>7. /\ disk'[b] = (IF call[k].op = "logout" THEN None ELSE disk[b])
      /\ \A c \in Browsers \ {b} : disk'[c] = disk[c]
  <2>1. CASE call[k].op = "logout"
    <3>1. disk' = [disk EXCEPT ![b] = None]
      BY <1>1, <2>1
    <3>2. disk'[b] = None /\ \A c \in Browsers \ {b} : disk'[c] = disk[c]
      BY <1>1, <3>1, JarType
    <3> QED BY <2>1, <3>2
  <2>2. CASE call[k].op # "logout"
    BY <1>1, <2>2
  <2> QED BY <2>1, <2>2
<1> DEFINE shown == IF call[k].op = "login" THEN b \notin Native ELSE call[k].op = "password" /\ tab[p].authed
           s == IF call[k].op = "login" /\ b \in Native
                THEN Append(tab[p].saves, <<"login", call[k].new>>) ELSE tab[p].saves
<1>8. tab' = [tab EXCEPT ![p] = [tab[p] EXCEPT !.ask = None, !.authed = shown, !.saves = s]]
  BY DEF TakeAnswer
<1>9. /\ tab'[p] = [tab[p] EXCEPT !.ask = None, !.authed = shown, !.saves = s]
      /\ \A q \in Tabs \ {p} : tab'[q] = tab[q]
  <2> HIDE DEF shown, s
  <2> QED BY <1>8, PageSet
<1>10. tab'[p].ask = None /\ tab'[p].refresh = tab[p].refresh /\ tab'[p].saves = s
  <2> HIDE DEF shown, s
  <2> QED BY <1>9, PageFields
<1> HIDE DEF shown
<1> QED BY <1>1, <1>2, <1>3, <1>4, <1>5, <1>6, <1>7, <1>9, <1>10

LEMMA SaveCase ==
    ASSUME Typed, NEW p \in Tabs, Save(p), NEW b, b = BrowserOf[p]
    PROVE  /\ b \in Browsers /\ tab[p].saves # <<>> /\ tab'[p].saves = Tail(tab[p].saves)
           /\ tab'[p].refresh = tab[p].refresh /\ tab'[p].ask = tab[p].ask
           /\ disk'[b] = Head(tab[p].saves)[2] /\ \A c \in Browsers \ {b} : disk'[c] = disk[c]
           /\ \A q \in Tabs \ {p} : tab'[q] = tab[q]
           /\ UNCHANGED <<token, call, cookie, cached, overlapped, ended, lost>>
<1>1. PICK shown, head, rest : /\ head = Head(tab[p].saves)[2] /\ rest = Tail(tab[p].saves)
                         /\ shown = (tab[p].authed \/ Head(tab[p].saves)[1] = "login")
  OBVIOUS
<1>2. /\ tab[p].saves # <<>> /\ tab' = [tab EXCEPT ![p] = [tab[p] EXCEPT !.saves = rest, !.authed = shown]]
      /\ disk' = [disk EXCEPT ![b] = head] /\ b \in Browsers
      /\ UNCHANGED <<token, call, cookie, cached, overlapped, ended, lost>>
  BY <1>1 DEF Save, server
<1>3. /\ tab'[p] = [tab[p] EXCEPT !.saves = rest, !.authed = shown]
      /\ \A q \in Tabs \ {p} : tab'[q] = tab[q]
  BY <1>2, PageSet
<1>4. tab'[p].saves = rest /\ tab'[p].refresh = tab[p].refresh /\ tab'[p].ask = tab[p].ask
  BY <1>3, PageFields
<1>5. disk'[b] = head /\ \A c \in Browsers \ {b} : disk'[c] = disk[c]
  BY <1>2, JarType
<1> QED BY <1>1, <1>2, <1>3, <1>4, <1>5

LEMMA LoseCase ==
    ASSUME Typed, NEW p \in Tabs, NEW k \in Calls, Lose(p, k)
    PROVE  /\ call[k].pc \in {"sent", "answer"} /\ Waits(p, k)
           /\ \A j \in Calls : call'[j] = IF j = k THEN [NoCall EXCEPT !.pc = "over"] ELSE call[j]
           /\ IF tab[p].refresh = k THEN tab'[p].refresh = None /\ tab'[p].ask = tab[p].ask
                                    ELSE tab'[p].ask = None /\ tab'[p].refresh = tab[p].refresh
           /\ tab'[p].saves = tab[p].saves
           /\ \A q \in Tabs \ {p} : tab'[q] = tab[q]
           /\ lost' = IF call[k].pc = "answer" THEN lost \cup FamilyOf(call[k].tok) ELSE lost
           /\ UNCHANGED <<token, cookie, cached, disk, overlapped, ended>>
<1>0. PICK still \in {tab[p].authed, FALSE} :
         tab' = [tab EXCEPT ![p] = IF tab[p].refresh = k
                   THEN [tab[p] EXCEPT !.refresh = None, !.authed = still]
                   ELSE [tab[p] EXCEPT !.ask = None, !.authed = tab[p].authed /\ call[k].op # "logout"]]
  BY DEF Lose
<1>1. PICK shown, r : /\ shown = (tab[p].authed /\ call[k].op # "logout")
                      /\ r = IF tab[p].refresh = k THEN [tab[p] EXCEPT !.refresh = None, !.authed = still]
                             ELSE [tab[p] EXCEPT !.ask = None, !.authed = shown]
  OBVIOUS
<1>2. /\ call[k].pc \in {"sent", "answer"} /\ Waits(p, k) /\ Over(k)
      /\ lost' = IF call[k].pc = "answer" THEN lost \cup FamilyOf(call[k].tok) ELSE lost
      /\ tab' = [tab EXCEPT ![p] = r]
      /\ UNCHANGED <<token, cookie, cached, disk, overlapped, ended>>
  BY <1>0, <1>1 DEF Lose
<1>3. tab'[p] = r /\ \A q \in Tabs \ {p} : tab'[q] = tab[q]
  BY <1>2, PageSet
<1>4. /\ IF tab[p].refresh = k THEN tab'[p].refresh = None /\ tab'[p].ask = tab[p].ask
                               ELSE tab'[p].ask = None /\ tab'[p].refresh = tab[p].refresh
      /\ tab'[p].saves = tab[p].saves
  BY <1>1, <1>3, PageFields
<1>5. \A j \in Calls : call'[j] = IF j = k THEN [NoCall EXCEPT !.pc = "over"] ELSE call[j]
  BY <1>2, OverOnly
<1> QED BY <1>2, <1>3, <1>4, <1>5

LEMMA ReloadCase ==
    ASSUME Typed, NEW p \in Tabs, Reload(p), NEW b, b = BrowserOf[p]
    PROVE  /\ b \in Browsers /\ tab'[p] = BlankPage
           /\ tab'[p].refresh = None /\ tab'[p].ask = None /\ tab'[p].saves = <<>>
           /\ cached'[b] = IF b \in Native THEN disk[b] ELSE cached[b]
           /\ \A c \in Browsers \ {b} : cached'[c] = cached[c]
           /\ \A q \in Tabs \ {p} : tab'[q] = tab[q]
           /\ lost \subseteq lost' /\ Saved(p) \subseteq lost' /\ Asked(p) \subseteq lost'
           /\ b \in Native /\ disk[b] = None => FamilyOf(cookie[b]) \subseteq lost'
           /\ UNCHANGED <<token, call, cookie, disk, overlapped, ended>>
<1> DEFINE left == {call[k].tok : k \in {k \in Calls : Waits(p, k)}}
           unsaved == {tab[p].saves[i][2] : i \in 1..Len(tab[p].saves)}
           passed == IF b \in Native /\ disk[b] = None THEN {cookie[b]} ELSE {}
<1>1. /\ tab' = [tab EXCEPT ![p] = BlankPage]
      /\ cached' = IF b \in Native THEN [cached EXCEPT ![b] = disk[b]] ELSE cached
      /\ lost' = lost \cup UNION {FamilyOf(t) : t \in left \cup unsaved \cup passed}
      /\ UNCHANGED <<token, call, cookie, disk, overlapped, ended>> /\ b \in Browsers
  BY DEF Reload, server
<1>2. tab'[p] = BlankPage /\ \A q \in Tabs \ {p} : tab'[q] = tab[q]
  BY <1>1, PageSet
<1>3. BlankPage.refresh = None /\ BlankPage.ask = None /\ BlankPage.saves = <<>>
  BY DEF BlankPage
<1>4. /\ cached'[b] = (IF b \in Native THEN disk[b] ELSE cached[b])
      /\ \A c \in Browsers \ {b} : cached'[c] = cached[c]
  <2>1. PICK t : t = disk[b]
    OBVIOUS
  <2> QED BY <1>1, <2>1, JarType
<1>5. Saved(p) \subseteq lost'
  <2>1. \A i \in Saves(p) : tab[p].saves[i][2] \in unsaved
    BY DEF Saves
  <2> HIDE DEF unsaved, left, passed
  <2> QED BY <1>1, <2>1 DEF Saved
<1>6. Asked(p) \subseteq lost'
  <2>1. CASE tab[p].refresh = None
    BY <2>1 DEF Asked
  <2>2. CASE tab[p].refresh # None
    <3>1. tab[p].refresh \in Calls /\ Waits(p, tab[p].refresh)
      BY <2>2, HeldTokens DEF Waits
    <3>2. call[tab[p].refresh].tok \in left
      BY <3>1
    <3> HIDE DEF unsaved, left, passed
    <3> QED BY <1>1, <2>2, <3>2 DEF Asked
  <2> QED BY <2>1, <2>2
<1>7. b \in Native /\ disk[b] = None => FamilyOf(cookie[b]) \subseteq lost'
  <2>1. b \in Native /\ disk[b] = None => cookie[b] \in passed
    OBVIOUS
  <2> HIDE DEF unsaved, left, passed
  <2> QED BY <1>1, <2>1
<1>8. lost \subseteq lost'
  BY <1>1
<1> HIDE DEF left, unsaved, passed
<1> QED BY <1>1, <1>2, <1>3, <1>4, <1>5, <1>6, <1>7, <1>8

LEMMA ClientSteps ==
    ASSUME Typed, WaitInv, NEW p \in Tabs,
           \/ \E k \in Calls : TakeRefresh(p, k) \/ TakeAnswer(p, k) \/ Lose(p, k)
           \/ Save(p) \/ Reload(p)
    PROVE  ClientStep(p)
<1>0. PICK b : b = BrowserOf[p]
  OBVIOUS
<1>1. ASSUME NEW k \in Calls, TakeRefresh(p, k) PROVE ClientStep(p)
  <2>1. /\ tab[p].refresh = k /\ call[k].op = "refresh"
        /\ \A j \in Calls : call'[j] = IF j = k THEN [NoCall EXCEPT !.pc = "over"] ELSE call[j]
        /\ tab'[p].refresh = None /\ tab'[p].ask = tab[p].ask
        /\ \A q \in Tabs \ {p} : tab'[q] = tab[q]
        /\ \A c \in Browsers \ {b} : cookie'[c] = cookie[c] /\ cached'[c] = cached[c]
        /\ UNCHANGED <<token, disk, overlapped, ended>> /\ lost \subseteq lost'
    BY <1>0, <1>1, RefreshCase
  <2>2. tab[p].ask # None => tab[p].ask \in Calls /\ tab[p].ask # k
    BY <2>1, HeldTokens DEF WaitInv
  <2> QED BY <1>0, <2>1, <2>2 DEF ClientStep, Waits
<1>2. ASSUME NEW k \in Calls, TakeAnswer(p, k) PROVE ClientStep(p)
  <2>1. /\ tab[p].ask = k /\ call[k].op # "refresh"
        /\ \A j \in Calls : call'[j] = IF j = k THEN [NoCall EXCEPT !.pc = "over"] ELSE call[j]
        /\ tab'[p].ask = None /\ tab'[p].refresh = tab[p].refresh
        /\ \A q \in Tabs \ {p} : tab'[q] = tab[q]
        /\ \A c \in Browsers \ {b} : cookie'[c] = cookie[c] /\ cached'[c] = cached[c] /\ disk'[c] = disk[c]
        /\ UNCHANGED <<token, overlapped, ended>> /\ lost \subseteq lost'
    BY <1>0, <1>2, AnswerCase
  <2>2. tab[p].refresh # None => tab[p].refresh \in Calls /\ tab[p].refresh # k
    BY <2>1, HeldTokens DEF WaitInv
  <2> QED BY <1>0, <2>1, <2>2 DEF ClientStep, Waits
<1>3. ASSUME NEW k \in Calls, Lose(p, k) PROVE ClientStep(p)
  <2>1. /\ Waits(p, k)
        /\ \A j \in Calls : call'[j] = IF j = k THEN [NoCall EXCEPT !.pc = "over"] ELSE call[j]
        /\ IF tab[p].refresh = k THEN tab'[p].refresh = None /\ tab'[p].ask = tab[p].ask
                                 ELSE tab'[p].ask = None /\ tab'[p].refresh = tab[p].refresh
        /\ \A q \in Tabs \ {p} : tab'[q] = tab[q]
        /\ UNCHANGED <<token, cookie, cached, disk, overlapped, ended>> /\ lost \subseteq lost'
    BY <1>3, LoseCase
  <2>2. /\ tab[p].refresh # None => tab[p].refresh \in Calls
        /\ tab[p].ask # None => tab[p].ask \in Calls
        /\ tab[p].refresh # None /\ tab[p].ask # None => tab[p].ask # tab[p].refresh
    BY HeldTokens DEF WaitInv
  <2>3. /\ \/ tab'[p].refresh = None
           \/ tab'[p].refresh = tab[p].refresh /\ call'[tab[p].refresh] = call[tab[p].refresh]
        /\ \/ tab'[p].ask = None
           \/ tab'[p].ask = tab[p].ask /\ call'[tab[p].ask] = call[tab[p].ask]
    <3>1. CASE tab[p].refresh = k
      BY <2>1, <2>2, <3>1, NoneApart
    <3>2. CASE tab[p].refresh # k
      BY <2>1, <2>2, <3>2, NoneApart
    <3> QED BY <3>1, <3>2
  <2> QED BY <1>0, <2>1, <2>3 DEF ClientStep
<1>4. CASE Save(p)
  <2>1. /\ tab'[p].refresh = tab[p].refresh /\ tab'[p].ask = tab[p].ask
        /\ \A c \in Browsers \ {b} : disk'[c] = disk[c]
        /\ \A q \in Tabs \ {p} : tab'[q] = tab[q]
        /\ UNCHANGED <<token, call, cookie, cached, overlapped, ended, lost>>
    BY <1>0, <1>4, SaveCase
  <2> QED BY <1>0, <2>1 DEF ClientStep
<1>5. CASE Reload(p)
  <2>1. /\ tab'[p].refresh = None /\ tab'[p].ask = None
        /\ \A c \in Browsers \ {b} : cached'[c] = cached[c]
        /\ \A q \in Tabs \ {p} : tab'[q] = tab[q]
        /\ UNCHANGED <<token, call, cookie, disk, overlapped, ended>> /\ lost \subseteq lost'
    BY <1>0, <1>5, ReloadCase
  <2> QED BY <1>0, <2>1 DEF ClientStep
<1> QED BY <1>1, <1>2, <1>3, <1>4, <1>5

LEMMA ClientViews ==
    ASSUME Typed, WaitInv, NEW p \in Tabs, ClientStep(p)
    PROVE  /\ Grows /\ UNCHANGED <<token, overlapped, ended>>
           /\ \A q \in Tabs \ {p} :
                /\ tab'[q] = tab[q] /\ Saves(q)' = Saves(q) /\ Saved(q)' = Saved(q)
                /\ Entered(q)' = Entered(q) /\ \A i \in Saves(q) : Later(q, i)' = Later(q, i)
                /\ Asked(q)' = Asked(q) /\ Rotating(q)' = Rotating(q)
                /\ tab[q].refresh # None => call'[tab[q].refresh] = call[tab[q].refresh]
                /\ tab[q].ask # None => call'[tab[q].ask] = call[tab[q].ask]
           /\ \A b \in Browsers \ {BrowserOf[p]} :
                /\ FamilyOf(cookie[b])' = FamilyOf(cookie[b]) /\ FamilyOf(cached[b])' = FamilyOf(cached[b])
                /\ FamilyOf(disk[b])' = FamilyOf(disk[b])
                /\ Presented(b)' = Presented(b) /\ Kept(b)' = Kept(b)
           /\ IF tab'[p].refresh = None THEN Asked(p)' = {} /\ Rotating(p)' = {}
              ELSE /\ tab'[p].refresh = tab[p].refresh /\ call'[tab[p].refresh] = call[tab[p].refresh]
                   /\ Asked(p)' = Asked(p) /\ Rotating(p)' = Rotating(p)
           /\ \A k \in Calls : /\ call'[k] = call[k] \/ call'[k] = [NoCall EXCEPT !.pc = "over"]
                               /\ Outstanding(k)' => Outstanding(k) /\ call'[k] = call[k]
           /\ \A t : Died(t)' = Died(t) /\ FamilyOf(t)' = FamilyOf(t)
<1>1. UNCHANGED <<token, overlapped, ended>> /\ lost \subseteq lost'
  BY DEF ClientStep
<1>2. \A t : Died(t)' = Died(t) /\ FamilyOf(t)' = FamilyOf(t)
  BY <1>1 DEF Died, FamilyOf
<1>3. Grows /\ FamiliesKept
  BY <1>1, <1>2 DEF Grows, FamiliesKept, Bad
<1>4. ASSUME NEW q \in Tabs \ {p}
      PROVE  /\ tab'[q] = tab[q]
             /\ tab[q].refresh # None => call'[tab[q].refresh] = call[tab[q].refresh]
             /\ tab[q].ask # None => call'[tab[q].ask] = call[tab[q].ask]
  <2>1. tab'[q] = tab[q]
    BY DEF ClientStep
  <2>2. /\ tab[q].refresh # None => tab[q].refresh \in Calls /\ call[tab[q].refresh].tab = q
        /\ tab[q].ask # None => tab[q].ask \in Calls /\ call[tab[q].ask].tab = q
    BY HeldTokens DEF WaitInv
  <2>3. \A k \in Calls : Waits(p, k) => call[k].tab = p
    BY NoneApart DEF Waits, WaitInv
  <2> QED BY <2>1, <2>2, <2>3 DEF ClientStep
<1>5. ASSUME NEW q \in Tabs \ {p}
      PROVE  /\ Saves(q)' = Saves(q) /\ Saved(q)' = Saved(q)
             /\ Entered(q)' = Entered(q) /\ \A i \in Saves(q) : Later(q, i)' = Later(q, i)
             /\ Asked(q)' = Asked(q) /\ Rotating(q)' = Rotating(q)
  BY <1>3, <1>4, SavesKept, AskedKept, RotatingKept
<1>6. ASSUME NEW b \in Browsers \ {BrowserOf[p]}
      PROVE  /\ FamilyOf(cookie[b])' = FamilyOf(cookie[b]) /\ FamilyOf(cached[b])' = FamilyOf(cached[b])
             /\ FamilyOf(disk[b])' = FamilyOf(disk[b])
             /\ Presented(b)' = Presented(b) /\ Kept(b)' = Kept(b)
  <2>1. cookie'[b] = cookie[b] /\ cached'[b] = cached[b] /\ disk'[b] = disk[b]
    BY DEF ClientStep
  <2>2. /\ FamilyOf(cookie[b])' = FamilyOf(cookie[b]) /\ FamilyOf(cached[b])' = FamilyOf(cached[b])
        /\ FamilyOf(disk[b])' = FamilyOf(disk[b]) /\ Presented(b)' = Presented(b)
    BY <1>3, <2>1, KeptSame
  <2>3. \A q \in Tabs : BrowserOf[q] = b => Saved(q)' = Saved(q) /\ Asked(q)' = Asked(q)
    BY <1>5
  <2>4. Kept(b)' = Kept(b)
    BY <2>2, <2>3 DEF Kept
  <2> QED BY <2>2, <2>4
<1>7. IF tab'[p].refresh = None THEN Asked(p)' = {} /\ Rotating(p)' = {}
      ELSE /\ tab'[p].refresh = tab[p].refresh /\ call'[tab[p].refresh] = call[tab[p].refresh]
           /\ Asked(p)' = Asked(p) /\ Rotating(p)' = Rotating(p)
  <2>1. CASE tab'[p].refresh = None
    BY <2>1 DEF Asked, Rotating
  <2>2. CASE tab'[p].refresh # None
    <3>1. tab'[p].refresh = tab[p].refresh /\ call'[tab[p].refresh] = call[tab[p].refresh]
      BY <2>2 DEF ClientStep
    <3> QED BY <1>3, <2>2, <3>1, AskedKept, RotatingKept
  <2> QED BY <2>1, <2>2
<1>8. ASSUME NEW k \in Calls
      PROVE  /\ call'[k] = call[k] \/ call'[k] = [NoCall EXCEPT !.pc = "over"]
             /\ Outstanding(k)' => Outstanding(k) /\ call'[k] = call[k]
  <2>1. call'[k] = call[k] \/ call'[k] = [NoCall EXCEPT !.pc = "over"]
    BY DEF ClientStep
  <2>2. [NoCall EXCEPT !.pc = "over"].pc = "over"
    BY DEF NoCall
  <2>3. Outstanding(k)' => call'[k] = call[k]
    BY <2>1, <2>2 DEF Outstanding
  <2>4. \A q \in Tabs : Waits(q, k)' => Waits(q, k)
    BY <1>4, NoneApart DEF Waits, ClientStep
  <2> QED BY <2>1, <2>3, <2>4 DEF Outstanding
<1> QED BY <1>1, <1>2, <1>3, <1>4, <1>5, <1>6, <1>7, <1>8

-----------------------------------------------------------------------------
(* A request begins, and what the pages see of it.                         *)

AskStep(p, op, k, tok) ==
    /\ op \in {"login", "refresh", "logout", "password"}
    /\ tok = IF op \in {"refresh", "logout"} THEN Presented(BrowserOf[p]) ELSE None
    /\ call[k].pc = "new" /\ \A j \in Calls \ {k} : call'[j] = call[j]
    /\ call'[k].op = op /\ call'[k].tok = tok /\ call'[k].tab = p
    /\ call'[k].pc = "sent" /\ call'[k].new = None
    /\ call'[k].body <=> (BrowserOf[p] \in Native /\ cached[BrowserOf[p]] # None)
    /\ IF op = "refresh" THEN tab[p].refresh = None /\ ~Saving(p, "refresh") ELSE tab[p].ask = None
    /\ op = "login" => ~Saving(p, "login")
    /\ \A q \in Tabs : /\ tab'[q].saves = tab[q].saves
                       /\ tab'[q].refresh = IF q = p /\ op = "refresh" THEN k ELSE tab[q].refresh
                       /\ tab'[q].ask = IF q = p /\ op # "refresh" THEN k ELSE tab[q].ask
    /\ \A j \in Calls : Outstanding(j) => FamilyOf(tok) \cap FamilyOf(call[j].tok) \subseteq overlapped'
    /\ overlapped \subseteq overlapped' /\ UNCHANGED <<token, cookie, cached, disk, ended, lost>>

LEMMA AskSteps ==
    ASSUME Typed, NEW p \in Tabs, Refresh(p) \/ Login(p) \/ Logout(p) \/ ChangePassword(p)
    PROVE  \E op : \E k \in Calls : \E tok \in Maybe(Tokens) : AskStep(p, op, k, tok)
<1>1. PICK op \in {"login", "refresh", "logout", "password"}, field \in {"refresh", "ask"} :
         /\ Send(p, op, field) /\ (op = "refresh" <=> field = "refresh")
         /\ IF op = "refresh" THEN tab[p].refresh = None /\ ~Saving(p, "refresh") ELSE tab[p].ask = None
         /\ op = "login" => ~Saving(p, "login")
  BY DEF Refresh, Login, Logout, ChangePassword
<1>2. PICK k \in Calls, tok \in Maybe(Tokens) :
             /\ tok = (IF op \in {"refresh", "logout"} THEN Presented(BrowserOf[p]) ELSE None)
             /\ call[k].pc = "new" /\ \A j \in Calls \ {k} : call'[j] = call[j]
             /\ call'[k].op = op /\ call'[k].tok = tok /\ call'[k].tab = p
             /\ call'[k].pc = "sent" /\ call'[k].new = None
             /\ call'[k].body <=> (BrowserOf[p] \in Native /\ cached[BrowserOf[p]] # None)
             /\ \A q \in Tabs : /\ tab'[q].saves = tab[q].saves
                                /\ tab'[q].refresh = IF q = p /\ field = "refresh" THEN k ELSE tab[q].refresh
                                /\ tab'[q].ask = IF q = p /\ field = "ask" THEN k ELSE tab[q].ask
             /\ \A j \in Calls : Outstanding(j) => FamilyOf(tok) \cap FamilyOf(call[j].tok) \subseteq overlapped'
             /\ overlapped \subseteq overlapped'
             /\ UNCHANGED <<token, cookie, cached, disk, ended, lost>>
  <2>1. op = "refresh" => tab[p].refresh = None
    BY <1>1
  <2> QED BY <1>1, <2>1, SendCase
<1>3. AskStep(p, op, k, tok)
  BY <1>1, <1>2 DEF AskStep
<1> QED BY <1>3

LEMMA AskViews ==
    ASSUME Typed, WaitInv, NEW p \in Tabs, NEW op, NEW k \in Calls, NEW tok, AskStep(p, op, k, tok)
    PROVE  /\ Grows
           /\ \A q \in Tabs :
                /\ Saves(q)' = Saves(q) /\ Saved(q)' = Saved(q) /\ tab'[q].saves = tab[q].saves
                /\ Entered(q)' = Entered(q) /\ \A i \in Saves(q) : Later(q, i)' = Later(q, i)
                /\ \A kind : Saving(q, kind)' = Saving(q, kind)
                /\ Asked(q)' = IF q = p /\ op = "refresh" THEN FamilyOf(tok) ELSE Asked(q)
                /\ Rotating(q)' = Rotating(q)
                /\ tab[q].refresh # None => tab[q].refresh # k /\ call'[tab[q].refresh] = call[tab[q].refresh]
                /\ tab[q].ask # None => tab[q].ask # k /\ call'[tab[q].ask] = call[tab[q].ask]
           /\ \A b \in Browsers : Presented(b)' = Presented(b) /\ Kept(b)' \subseteq Kept(b)
           /\ FamilyOf(tok) \subseteq Kept(BrowserOf[p])
           /\ \A j \in Calls : j # k /\ Outstanding(j)' => Outstanding(j)
           /\ ~Outstanding(k)
           /\ \A t : Died(t)' = Died(t) /\ FamilyOf(t)' = FamilyOf(t)
<1>1. UNCHANGED <<token, cookie, cached, disk, ended, lost>> /\ overlapped \subseteq overlapped'
  BY DEF AskStep
<1>2. \A t : Died(t)' = Died(t) /\ FamilyOf(t)' = FamilyOf(t)
  BY <1>1 DEF Died, FamilyOf
<1>3. Grows /\ FamiliesKept
  BY <1>1, <1>2 DEF Grows, FamiliesKept, Bad
<1>4. ASSUME NEW q \in Tabs
      PROVE  /\ tab[q].refresh # None => tab[q].refresh # k /\ call'[tab[q].refresh] = call[tab[q].refresh]
             /\ tab[q].ask # None => tab[q].ask # k /\ call'[tab[q].ask] = call[tab[q].ask]
  <2>1. /\ tab[q].refresh # None => tab[q].refresh \in Calls /\ call[tab[q].refresh].pc # "new"
        /\ tab[q].ask # None => tab[q].ask \in Calls /\ call[tab[q].ask].pc # "new"
    BY HeldTokens DEF WaitInv
  <2> QED BY <2>1 DEF AskStep
<1>5. ASSUME NEW q \in Tabs
      PROVE  /\ Saves(q)' = Saves(q) /\ Saved(q)' = Saved(q) /\ tab'[q].saves = tab[q].saves
             /\ Entered(q)' = Entered(q) /\ \A i \in Saves(q) : Later(q, i)' = Later(q, i)
             /\ \A kind : Saving(q, kind)' = Saving(q, kind)
  <2>1. tab'[q].saves = tab[q].saves
    BY DEF AskStep
  <2> QED BY <1>3, <2>1, SavesKept
<1>6. ASSUME NEW q \in Tabs
      PROVE  /\ Asked(q)' = IF q = p /\ op = "refresh" THEN FamilyOf(tok) ELSE Asked(q)
             /\ Rotating(q)' = Rotating(q)
  <2>1. CASE q = p /\ op = "refresh"
    <3>1. tab[q].refresh = None /\ tab'[q].refresh = k /\ call'[k].pc = "sent" /\ call'[k].tok = tok
          /\ k # None
      BY <2>1, NoneApart DEF AskStep
    <3>2. Asked(q)' = FamilyOf(tok)'
      BY <3>1 DEF Asked
    <3>3. Rotating(q)' = {} /\ Rotating(q) = {}
      BY <3>1 DEF Rotating
    <3> QED BY <1>2, <2>1, <3>2, <3>3
  <2>2. CASE ~(q = p /\ op = "refresh")
    <3>1. tab'[q].refresh = tab[q].refresh
      BY <2>2 DEF AskStep
    <3> QED BY <1>3, <1>4, <2>2, <3>1, AskedKept, RotatingKept
  <2> QED BY <2>1, <2>2
<1>7. \A b \in Browsers : Presented(b)' = Presented(b)
  BY <1>1 DEF Presented
<1>8. FamilyOf(tok) \subseteq Kept(BrowserOf[p])
  <2>1. tok \in {None, cookie[BrowserOf[p]], cached[BrowserOf[p]]}
    BY DEF AskStep, Presented
  <2>2. FamilyOf(None) = {}
    BY DEF FamilyOf
  <2> QED BY <2>1, <2>2 DEF Kept
<1>9. ASSUME NEW b \in Browsers PROVE Kept(b)' \subseteq Kept(b)
  <2>1. /\ FamilyOf(cookie[b])' = FamilyOf(cookie[b]) /\ FamilyOf(cached[b])' = FamilyOf(cached[b])
        /\ FamilyOf(disk[b])' = FamilyOf(disk[b])
    BY <1>1, <1>3, KeptSame
  <2>2. \A q \in Tabs : BrowserOf[q] = b => Saved(q)' = Saved(q) /\ Asked(q)' \subseteq Kept(b)
    BY <1>5, <1>6, <1>8 DEF Kept
  <2>3. \A q \in Tabs : BrowserOf[q] = b => Saved(q) \subseteq Kept(b)
    BY DEF Kept
  <2>4. FamilyOf(cookie[b]) \cup FamilyOf(cached[b]) \cup FamilyOf(disk[b]) \subseteq Kept(b)
    BY DEF Kept
  <2>5. Kept(b)' = (FamilyOf(cookie[b]) \cup FamilyOf(cached[b]) \cup FamilyOf(disk[b]))'
                   \cup UNION {Saved(q)' \cup Asked(q)' : q \in {q \in Tabs : BrowserOf[q] = b}}
    BY DEF Kept
  <2> QED BY <2>1, <2>2, <2>3, <2>4, <2>5
<1>10. ~Outstanding(k)
  BY DEF Outstanding, AskStep
<1>11. ASSUME NEW j \in Calls, j # k, Outstanding(j)' PROVE Outstanding(j)
  <2>1. call'[j] = call[j]
    BY <1>11 DEF AskStep
  <2>2. \A q \in Tabs : Waits(q, j)' => Waits(q, j)
    BY <1>11 DEF Waits, AskStep
  <2> QED BY <1>11, <2>1, <2>2 DEF Outstanding
<1> QED BY <1>2, <1>3, <1>4, <1>5, <1>6, <1>7, <1>8, <1>9, <1>10, <1>11

-----------------------------------------------------------------------------
(* Requests and the pages that wait for them.                              *)

LEMMA WaitStep == Typed /\ WaitInv /\ [Next]_vars => WaitInv'
<1> SUFFICES ASSUME Typed, WaitInv, [Next]_vars PROVE WaitInv'
  OBVIOUS
<1> DEFINE Wait(p) ==
             /\ tab[p].refresh # None =>
                  /\ call[tab[p].refresh].op = "refresh" /\ call[tab[p].refresh].tab = p
                  /\ call[tab[p].refresh].pc \notin {"new", "over"} /\ ~Saving(p, "refresh")
             /\ tab[p].ask # None =>
                  /\ call[tab[p].ask].op \in {"login", "logout", "password"} /\ call[tab[p].ask].tab = p
                  /\ call[tab[p].ask].pc \notin {"new", "over"}
                  /\ call[tab[p].ask].op = "login" => ~Saving(p, "login")
<1>0. /\ WaitInv => \A p \in Tabs : Wait(p)
      /\ (\A p \in Tabs : Wait(p)') => WaitInv'
  BY DEF WaitInv
<1>1. CASE ServerStep
  <2> SUFFICES ASSUME NEW p \in Tabs PROVE Wait(p)'
    BY <1>0
  <2>1. tab'[p] = tab[p] /\ \A o : Saving(p, o)' = Saving(p, o)
    BY <1>1 DEF ServerStep, Saving
  <2>2. (tab[p].refresh # None => tab[p].refresh \in Calls) /\ (tab[p].ask # None => tab[p].ask \in Calls)
    BY HeldTokens
  <2>3. \A k \in Calls : /\ call'[k].op = call[k].op /\ call'[k].tab = call[k].tab
                         /\ call[k].pc \notin {"new", "over"} => call'[k].pc \notin {"new", "over"}
    BY <1>1 DEF ServerStep
  <2>4. Wait(p)
    BY <1>0
  <2> QED BY <2>1, <2>2, <2>3, <2>4
<1>2. ASSUME NEW p \in Tabs, NEW op, NEW k \in Calls, NEW tok, AskStep(p, op, k, tok) PROVE WaitInv'
  <2> SUFFICES ASSUME NEW q \in Tabs PROVE Wait(q)'
    BY <1>0
  <2>1. /\ \A o : Saving(q, o)' = Saving(q, o)
        /\ tab[q].refresh # None => tab[q].refresh # k /\ call'[tab[q].refresh] = call[tab[q].refresh]
        /\ tab[q].ask # None => tab[q].ask # k /\ call'[tab[q].ask] = call[tab[q].ask]
    BY <1>2, AskViews
  <2>2. Wait(q)
    BY <1>0
  <2>3. k # None
    BY NoneApart
  <2>4. tab'[q].refresh # None =>
                  /\ call'[tab'[q].refresh].op = "refresh" /\ call'[tab'[q].refresh].tab = q
                  /\ call'[tab'[q].refresh].pc \notin {"new", "over"} /\ ~Saving(q, "refresh")'
    <3>1. CASE q = p /\ op = "refresh"
      BY <1>2, <2>1, <3>1 DEF AskStep
    <3>2. CASE ~(q = p /\ op = "refresh")
      BY <1>2, <2>1, <2>2, <3>2 DEF AskStep
    <3> QED BY <3>1, <3>2
  <2>5. tab'[q].ask # None =>
                  /\ call'[tab'[q].ask].op \in {"login", "logout", "password"} /\ call'[tab'[q].ask].tab = q
                  /\ call'[tab'[q].ask].pc \notin {"new", "over"}
                  /\ call'[tab'[q].ask].op = "login" => ~Saving(q, "login")'
    <3>1. CASE q = p /\ op # "refresh"
      BY <1>2, <2>1, <3>1 DEF AskStep
    <3>2. CASE ~(q = p /\ op # "refresh")
      BY <1>2, <2>1, <2>2, <3>2 DEF AskStep
    <3> QED BY <3>1, <3>2
  <2> QED BY <2>4, <2>5
<1>3. ASSUME NEW p \in Tabs, ClientStep(p),
             tab'[p].refresh # None => (Saving(p, "refresh")' => Saving(p, "refresh")),
             tab'[p].ask # None => (Saving(p, "login")' => Saving(p, "login"))
      PROVE  WaitInv'
  <2> SUFFICES ASSUME NEW q \in Tabs PROVE Wait(q)'
    BY <1>0
  <2>1. Wait(q)
    BY <1>0
  <2>2. CASE q = p
    BY <1>3, <2>1, <2>2 DEF ClientStep
  <2>3. CASE q # p
    <3>1. /\ tab'[q] = tab[q]
          /\ tab[q].refresh # None => call'[tab[q].refresh] = call[tab[q].refresh]
          /\ tab[q].ask # None => call'[tab[q].ask] = call[tab[q].ask]
      BY <1>3, <2>3, ClientViews
    <3>2. \A o : Saving(q, o)' = Saving(q, o)
      BY <3>1 DEF Saving
    <3> QED BY <2>1, <3>1, <3>2
  <2> QED BY <2>2, <2>3
<1> HIDE DEF Wait
<1>4. ASSUME NEW p \in Tabs, Refresh(p) \/ Login(p) \/ Logout(p) \/ ChangePassword(p) PROVE WaitInv'
  BY <1>2, <1>4, AskSteps
<1>5. ASSUME NEW p \in Tabs, NEW k \in Calls, TakeRefresh(p, k) PROVE WaitInv'
  <2>1. ClientStep(p)
    BY <1>5, ClientSteps
  <2>2. PICK b : b = BrowserOf[p]
    OBVIOUS
  <2>3. /\ tab'[p].refresh = None
        /\ \/ call[k].new \in Issued /\ tab'[p].saves = Append(tab[p].saves, <<"refresh", call[k].new>>)
           \/ tab'[p].saves = tab[p].saves
    BY <1>5, <2>2, RefreshCase
  <2>4. Saving(p, "login")' => Saving(p, "login")
    <3>1. CASE call[k].new \in Issued /\ tab'[p].saves = Append(tab[p].saves, <<"refresh", call[k].new>>)
      <4>1. PICK t \in Issued : t = call[k].new
        BY <3>1
      <4>2. FamiliesKept
        BY <2>1, ClientViews DEF Grows
      <4> QED BY <3>1, <4>1, <4>2, SavesAppended
    <3>2. CASE tab'[p].saves = tab[p].saves
      BY <3>2 DEF Saving
    <3> QED BY <2>3, <3>1, <3>2
  <2> QED BY <1>3, <2>1, <2>3, <2>4
<1>6. ASSUME NEW p \in Tabs, NEW k \in Calls, TakeAnswer(p, k) PROVE WaitInv'
  <2>1. ClientStep(p)
    BY <1>6, ClientSteps
  <2>2. PICK b : b = BrowserOf[p]
    OBVIOUS
  <2>3. /\ tab'[p].ask = None
        /\ \/ call[k].new \in Issued /\ tab'[p].saves = Append(tab[p].saves, <<"login", call[k].new>>)
           \/ tab'[p].saves = tab[p].saves
    BY <1>6, <2>2, AnswerCase
  <2>4. Saving(p, "refresh")' => Saving(p, "refresh")
    <3>1. CASE call[k].new \in Issued /\ tab'[p].saves = Append(tab[p].saves, <<"login", call[k].new>>)
      <4>1. PICK t \in Issued : t = call[k].new
        BY <3>1
      <4>2. FamiliesKept
        BY <2>1, ClientViews DEF Grows
      <4> QED BY <3>1, <4>1, <4>2, SavesAppended
    <3>2. CASE tab'[p].saves = tab[p].saves
      BY <3>2 DEF Saving
    <3> QED BY <2>3, <3>1, <3>2
  <2> QED BY <1>3, <2>1, <2>3, <2>4
<1>7. ASSUME NEW p \in Tabs, NEW k \in Calls, Lose(p, k) PROVE WaitInv'
  <2>1. ClientStep(p)
    BY <1>7, ClientSteps
  <2>2. \A o : Saving(p, o)' = Saving(p, o)
    BY <1>7, LoseCase DEF Saving
  <2> QED BY <1>3, <2>1, <2>2
<1>8. ASSUME NEW p \in Tabs, Save(p) PROVE WaitInv'
  <2>1. ClientStep(p)
    BY <1>8, ClientSteps
  <2>2. PICK b : b = BrowserOf[p]
    OBVIOUS
  <2>3. tab[p].saves # <<>> /\ tab'[p].saves = Tail(tab[p].saves)
    BY <1>8, <2>2, SaveCase
  <2>4. FamiliesKept
    BY <2>1, ClientViews DEF Grows
  <2>5. \A o : Saving(p, o)' => Saving(p, o)
    BY <2>3, <2>4, SavesWritten
  <2> QED BY <1>3, <2>1, <2>5
<1>9. ASSUME NEW p \in Tabs, Reload(p) PROVE WaitInv'
  <2>1. ClientStep(p)
    BY <1>9, ClientSteps
  <2>2. PICK b : b = BrowserOf[p]
    OBVIOUS
  <2>3. tab'[p].refresh = None /\ tab'[p].ask = None
    BY <1>9, <2>2, ReloadCase
  <2> QED BY <1>3, <2>1, <2>3
<1> QED BY <1>1, <1>4, <1>5, <1>6, <1>7, <1>8, <1>9, ServerSteps DEF Next

-----------------------------------------------------------------------------
(* What the requests carry, and whose requests overlap.                    *)

AnswerAt(k) ==
    /\ call[k].op = "logout" /\ call[k].pc = "answer" => call[k].verdict = "closed"
    /\ call[k].new # None =>
          \/ /\ call[k].op = "refresh" /\ call[k].pc \in {"retire", "answer"}
             /\ FamilyOf(call[k].new) = FamilyOf(call[k].tok) /\ call[k].new # call[k].tok
          \/ call[k].op \in {"login", "password"} /\ call[k].pc = "answer"

LEMMA AnswerSame ==
    ASSUME Typed, AnswerInv, FamiliesKept, NEW k \in Calls, call'[k] = call[k]
    PROVE  AnswerAt(k)'
<1>1. AnswerAt(k)
  BY DEF AnswerInv, AnswerAt
<1>2. Token(call[k].tok) /\ Token(call[k].new)
  BY HeldTokens
<1>3. /\ FamilyOf(call[k].tok)' = FamilyOf(call[k].tok)
      /\ FamilyOf(call[k].new)' = FamilyOf(call[k].new)
  BY <1>2 DEF FamiliesKept, FamilyOf
<1> QED BY <1>1, <1>3 DEF AnswerAt

LEMMA StepCases ==
    ASSUME Typed, WaitInv, [Next]_vars
    PROVE  \/ ServerStep
           \/ \E p \in Tabs : \E op : \E k \in Calls : \E tok \in Maybe(Tokens) : AskStep(p, op, k, tok)
           \/ \E p \in Tabs : ClientStep(p)
<1>1. ASSUME NEW p \in Tabs, Refresh(p) \/ Login(p) \/ Logout(p) \/ ChangePassword(p)
      PROVE  \E op : \E k \in Calls : \E tok \in Maybe(Tokens) : AskStep(p, op, k, tok)
  BY <1>1, AskSteps
<1>2. ASSUME NEW p \in Tabs,
             \/ \E k \in Calls : TakeRefresh(p, k) \/ TakeAnswer(p, k) \/ Lose(p, k)
             \/ Save(p) \/ Reload(p)
      PROVE  ClientStep(p)
  BY <1>2, ClientSteps
<1> QED BY <1>1, <1>2, ServerSteps DEF Next

LEMMA AnswerStep == Typed /\ WaitInv /\ AnswerInv /\ [Next]_vars => AnswerInv'
<1> SUFFICES ASSUME Typed, WaitInv, AnswerInv, [Next]_vars PROVE AnswerInv'
  OBVIOUS
<1>0. /\ \A k \in Calls : AnswerAt(k)
      /\ (\A k \in Calls : AnswerAt(k)') => AnswerInv'
  BY DEF AnswerInv, AnswerAt
<1>1. ASSUME NEW k \in Calls, FamiliesKept, AnswerAt(k)', \A j \in Calls \ {k} : call'[j] = call[j]
      PROVE  AnswerInv'
  BY <1>0, <1>1, AnswerSame
<1>2. ASSUME NEW k \in Calls, call[k].pc \in {"sent", "mint", "reuse", "close"}
      PROVE  call[k].new = None
  BY <1>0, <1>2 DEF AnswerAt
<1>3. ASSUME NEW k \in Calls, Find(k) PROVE AnswerInv'
  <2>1. FamiliesKept
    BY <1>3, ServerSteps DEF ServerStep, Grows
  <2>2. call'[k].new = None /\ \A j \in Calls \ {k} : call'[j] = call[j]
    BY <1>2, <1>3, FindCase
  <2>3. call[k].op = "logout" /\ call'[k].pc = "answer" => call'[k].verdict = "closed"
    <3> SUFFICES ASSUME call[k].op = "logout", call'[k].pc = "answer" PROVE call'[k].verdict = "closed"
      OBVIOUS
    <3>1. \/ call' = [call EXCEPT ![k] = Answer(k, "closed")]
          \/ call' = [call EXCEPT ![k] = [call[k] EXCEPT !.pc = "close"]]
      BY <1>3 DEF Find
    <3>2. PICK r : call' = [call EXCEPT ![k] = r] /\ (r = Answer(k, "closed") \/ r.pc = "close")
      BY <3>1, PcType
    <3>3. call'[k] = r
      BY <3>2 DEF Typed, TypeOK
    <3> QED BY <3>2, <3>3, AnswerType
  <2>4. AnswerAt(k)'
    BY <1>3, <2>2, <2>3, FindCase DEF AnswerAt
  <2> QED BY <1>1, <2>1, <2>2, <2>4
<1>4. ASSUME NEW k \in Calls, Mint(k) PROVE AnswerInv'
  <2>1. FamiliesKept
    BY <1>4, ServerSteps DEF ServerStep, Grows
  <2>2. PICK t \in Tokens \ Issued :
             /\ \A u \in Tokens : u # t => token'[u] = token[u]
             /\ token'[t].family = (IF call[k].op = "refresh" THEN token[call[k].tok].family ELSE t)
             /\ call[k].op = "refresh" => call[k].pc = "mint" /\ call[k].tok \in Issued
             /\ \A j \in Calls : /\ j # k => call'[j] = call[j]
                                 /\ call'[j].op = call[j].op /\ call'[j].tok = call[j].tok
             /\ call'[k].new = t
             /\ call'[k].pc = (IF call[k].op = "refresh" THEN "retire" ELSE "answer")
             /\ call[k].op # "refresh" => call[k].op \in {"login", "password"}
    BY <1>4, MintCase
  <2>3. AnswerAt(k)'
    <3>1. CASE call[k].op = "refresh"
      <4>1. call[k].tok \in Issued /\ call[k].tok # t /\ call[k].tok \in Tokens /\ t # None
            /\ call[k].tok # None
        BY <2>2, <3>1, NoneApart DEF Issued
      <4>2. token'[call[k].tok] = token[call[k].tok]
        BY <2>2, <4>1
      <4>3. FamilyOf(t)' = FamilyOf(call[k].tok)'
        BY <2>2, <3>1, <4>1, <4>2 DEF FamilyOf
      <4>4. FamilyOf(call[k].new)' = FamilyOf(call[k].tok)'
        BY <2>2, <4>3 DEF FamilyOf
      <4> QED BY <2>2, <3>1, <4>1, <4>4 DEF AnswerAt
    <3>2. CASE call[k].op # "refresh"
      BY <2>2, <3>2 DEF AnswerAt
    <3> QED BY <3>1, <3>2
  <2> QED BY <1>1, <2>1, <2>2, <2>3
<1>5. ASSUME NEW k \in Calls, Retire(k) PROVE AnswerInv'
  <2>1. FamiliesKept
    BY <1>5, ServerSteps DEF ServerStep, Grows
  <2>2. /\ call'[k].op = call[k].op /\ call'[k].tok = call[k].tok /\ call'[k].new = call[k].new
        /\ call'[k].pc = "answer" /\ call[k].op = "refresh" /\ call[k].pc = "retire"
        /\ \A j \in Calls \ {k} : call'[j] = call[j]
    BY <1>5, RetireCase, AnswerType
  <2>3. Token(call[k].tok) /\ Token(call[k].new)
    BY HeldTokens
  <2>4. /\ FamilyOf(call[k].tok)' = FamilyOf(call[k].tok)
        /\ FamilyOf(call[k].new)' = FamilyOf(call[k].new)
    BY <2>1, <2>2, <2>3 DEF FamiliesKept, FamilyOf
  <2>5. AnswerAt(k)'
    BY <1>0, <2>2, <2>4 DEF AnswerAt
  <2> QED BY <1>1, <2>1, <2>2, <2>5
<1>6. ASSUME NEW k \in Calls, RevokeFamily(k) PROVE AnswerInv'
  <2>1. FamiliesKept
    BY <1>6, ServerSteps DEF ServerStep, Grows
  <2>2. PICK v : v = IF call[k].pc = "reuse" THEN "rejected" ELSE "closed"
    OBVIOUS
  <2>3. call' = [call EXCEPT ![k] = Answer(k, v)] /\ v \in {"rejected", "closed"}
    BY <1>6, <2>2 DEF RevokeFamily
  <2>4. \A j \in Calls : call'[j] = IF j = k THEN Answer(k, v) ELSE call[j]
    BY <2>3 DEF Typed, TypeOK
  <2>5. /\ call'[k].op = call[k].op /\ call'[k].new = call[k].new
        /\ call'[k].verdict = v /\ call[k].pc \in {"reuse", "close"}
        /\ \A j \in Calls \ {k} : call'[j] = call[j]
    BY <1>6, <2>3, <2>4, RevokeFamilyCase, AnswerType
  <2>6. call[k].pc = "reuse" => call[k].op = "refresh"
    BY DEF Typed, CallInv
  <2>7. AnswerAt(k)'
    BY <1>2, <2>2, <2>5, <2>6 DEF AnswerAt
  <2> QED BY <1>1, <2>1, <2>5, <2>7
<1>7. ASSUME NEW k \in Calls, RevokeAll(k) PROVE AnswerInv'
  <2>1. FamiliesKept
    BY <1>7, ServerSteps DEF ServerStep, Grows
  <2>2. AnswerAt(k)'
    BY <1>2, <1>7, RevokeAllCase DEF AnswerAt
  <2> QED BY <1>1, <1>7, <2>1, <2>2, RevokeAllCase
<1>8. CASE (\E t \in Tokens : Expire(t)) \/ UNCHANGED vars
  <2>1. FamiliesKept
    BY <1>8, ServerSteps DEF ServerStep, Grows
  <2>2. UNCHANGED call
    BY <1>8 DEF Expire, vars
  <2> QED BY <1>0, <2>1, <2>2, AnswerSame
<1>9. ASSUME NEW p \in Tabs, NEW op, NEW k \in Calls, NEW tok, AskStep(p, op, k, tok) PROVE AnswerInv'
  <2>1. FamiliesKept
    BY <1>9, AskViews DEF Grows
  <2>2. AnswerAt(k)' /\ \A j \in Calls \ {k} : call'[j] = call[j]
    BY <1>9 DEF AskStep, AnswerAt
  <2> QED BY <1>1, <2>1, <2>2
<1>10. ASSUME NEW p \in Tabs, ClientStep(p) PROVE AnswerInv'
  <2> SUFFICES ASSUME NEW k \in Calls PROVE AnswerAt(k)'
    BY <1>0
  <2>1. FamiliesKept /\ (call'[k] = call[k] \/ call'[k] = [NoCall EXCEPT !.pc = "over"])
    BY <1>10, ClientViews DEF Grows
  <2>2. [NoCall EXCEPT !.pc = "over"].new = None /\ [NoCall EXCEPT !.pc = "over"].pc = "over"
    BY DEF NoCall
  <2>3. CASE call'[k] = [NoCall EXCEPT !.pc = "over"]
    BY <2>2, <2>3 DEF AnswerAt
  <2> QED BY <2>1, <2>3, AnswerSame
<1>11. ASSUME NEW p \in Tabs, Refresh(p) \/ Login(p) \/ Logout(p) \/ ChangePassword(p) PROVE AnswerInv'
  BY <1>9, <1>11, AskSteps
<1>12. ASSUME NEW p \in Tabs,
             \/ \E k \in Calls : TakeRefresh(p, k) \/ TakeAnswer(p, k) \/ Lose(p, k)
             \/ Save(p) \/ Reload(p)
      PROVE  AnswerInv'
  BY <1>10, <1>12, ClientSteps
<1> QED BY <1>3, <1>4, <1>5, <1>6, <1>7, <1>8, <1>11, <1>12 DEF Next

LEMMA OutStep == Typed /\ WaitInv /\ AloneOut /\ [Next]_vars => AloneOut'
<1> SUFFICES ASSUME Typed, WaitInv, AloneOut, [Next]_vars,
                    NEW j \in Calls, NEW k \in Calls, j # k, Outstanding(j)', Outstanding(k)'
             PROVE  (FamilyOf(call[j].tok) \cap FamilyOf(call[k].tok))' \subseteq overlapped'
  BY DEF AloneOut
<1>1. CASE ServerStep
  <2>1. /\ Outstanding(j) /\ Outstanding(k) /\ FamilyOf(call[j].tok)' = FamilyOf(call[j].tok)
        /\ FamilyOf(call[k].tok)' = FamilyOf(call[k].tok)
    BY <1>1, ServerViews
  <2>2. UNCHANGED overlapped
    BY <1>1 DEF ServerStep
  <2> QED BY <2>1, <2>2 DEF AloneOut
<1>2. ASSUME NEW p \in Tabs, ClientStep(p)
      PROVE  (FamilyOf(call[j].tok) \cap FamilyOf(call[k].tok))' \subseteq overlapped'
  <2>1. /\ Outstanding(j) /\ Outstanding(k) /\ call'[j] = call[j] /\ call'[k] = call[k]
        /\ UNCHANGED <<token, overlapped>>
    BY <1>2, ClientViews
  <2> QED BY <2>1 DEF AloneOut, FamilyOf
<1>3. ASSUME NEW p \in Tabs, NEW op, NEW i \in Calls, NEW tok, AskStep(p, op, i, tok)
      PROVE  (FamilyOf(call[j].tok) \cap FamilyOf(call[k].tok))' \subseteq overlapped'
  <2>1. /\ \A m \in Calls : m # i /\ Outstanding(m)' => Outstanding(m)
        /\ \A m \in Calls : m # i => call'[m] = call[m]
        /\ call'[i].tok = tok /\ UNCHANGED token /\ overlapped \subseteq overlapped'
        /\ \A m \in Calls : Outstanding(m) => FamilyOf(tok) \cap FamilyOf(call[m].tok) \subseteq overlapped'
    BY <1>3, AskViews DEF AskStep
  <2>2. CASE j = i
    <3>1. Outstanding(k) /\ call'[k] = call[k]
      BY <2>1, <2>2
    <3> QED BY <2>1, <2>2, <3>1 DEF FamilyOf
  <2>3. CASE k = i
    <3>1. Outstanding(j) /\ call'[j] = call[j]
      BY <2>1, <2>3
    <3> QED BY <2>1, <2>3, <3>1 DEF FamilyOf
  <2>4. CASE j # i /\ k # i
    <3>1. Outstanding(j) /\ call'[j] = call[j] /\ Outstanding(k) /\ call'[k] = call[k]
      BY <2>1, <2>4
    <3> QED BY <2>1, <3>1 DEF AloneOut, FamilyOf
  <2> QED BY <2>2, <2>3, <2>4
<1> QED BY <1>1, <1>2, <1>3, StepCases

-----------------------------------------------------------------------------
(* Every login is kept in one place.                                       *)

LEMMA KeptIssued ==
    ASSUME Typed
    PROVE  /\ \A b \in Browsers : Kept(b) \subseteq Issued
           /\ \A k \in Calls : FamilyOf(call[k].tok) \subseteq Issued /\ FamilyOf(call[k].new) \subseteq Issued
<1>1. \A t : Token(t) => FamilyOf(t) \subseteq Issued
  BY FamilyHeld
<1>2. \A p \in Tabs : Saved(p) \subseteq Issued
  BY <1>1, HeldTokens DEF Saved
<1>3. \A p \in Tabs : Asked(p) \subseteq Issued
  BY <1>1, HeldTokens DEF Asked
<1>4. \A b \in Browsers : FamilyOf(cookie[b]) \cup FamilyOf(cached[b]) \cup FamilyOf(disk[b]) \subseteq Issued
  BY <1>1, HeldTokens
<1>5. \A b \in Browsers : Kept(b) \subseteq Issued
  BY <1>2, <1>3, <1>4 DEF Kept
<1> QED BY <1>1, <1>5, HeldTokens

\* A step that moves logins only within a place, or brings one fresh login.
LEMMA HomeFrame ==
    ASSUME Typed, HomeInv, NewInv, FamiliesKept, NEW b \in Browsers, NEW G,
           Kept(b)' \subseteq Kept(b) \cup G,
           \A c \in Browsers \ {b} : Kept(c)' \subseteq Kept(c) /\ Kept(c) \cap G = {},
           \A j \in Calls : Fresh(j)' => /\ Fresh(j) /\ call'[j].new = call[j].new
                                         /\ FamilyOf(call[j].new) \cap G = {},
           \A j \in Calls : FamilyOf(call[j].tok)' \subseteq
                               FamilyOf(call[j].tok) \cup UNION {Kept(c) : c \in Browsers}
    PROVE  HomeInv' /\ NewInv'
<1>1. ASSUME NEW c \in Browsers, NEW d \in Browsers, c # d PROVE Kept(c)' \cap Kept(d)' = {}
  <2>1. Kept(c) \cap Kept(d) = {}
    BY <1>1 DEF HomeInv
  <2>2. CASE c = b
    BY <1>1, <2>1, <2>2
  <2>3. CASE d = b
    BY <1>1, <2>1, <2>3
  <2>4. CASE c # b /\ d # b
    BY <1>1, <2>1, <2>4
  <2> QED BY <2>2, <2>3, <2>4
<1>2. HomeInv'
  BY <1>1 DEF HomeInv
<1>3. ASSUME NEW k \in Calls, Fresh(k)'
      PROVE  /\ \A c \in Browsers : FamilyOf(call[k].new)' \cap Kept(c)' = {}
             /\ \A j \in Calls : FamilyOf(call[k].new)' \cap FamilyOf(call[j].tok)' = {}
             /\ \A j \in Calls : j # k /\ Fresh(j)' => FamilyOf(call[k].new)' \cap FamilyOf(call[j].new)' = {}
  <2>0. \A j \in Calls : Fresh(j)' => FamilyOf(call[j].new)' = FamilyOf(call[j].new)
    BY HeldTokens DEF FamiliesKept, FamilyOf
  <2>1. /\ \A c \in Browsers : FamilyOf(call[k].new) \cap Kept(c) = {}
        /\ \A j \in Calls : FamilyOf(call[k].new) \cap FamilyOf(call[j].tok) = {}
        /\ \A j \in Calls : j # k /\ Fresh(j) => FamilyOf(call[k].new) \cap FamilyOf(call[j].new) = {}
    BY <1>3 DEF NewInv
  <2>2. FamilyOf(call[k].new)' = FamilyOf(call[k].new) /\ FamilyOf(call[k].new) \cap G = {}
    BY <1>3, <2>0
  <2>3. \A c \in Browsers : FamilyOf(call[k].new)' \cap Kept(c)' = {}
    BY <2>1, <2>2
  <2>4. \A j \in Calls : FamilyOf(call[k].new)' \cap FamilyOf(call[j].tok)' = {}
    BY <2>1, <2>2
  <2>5. \A j \in Calls : j # k /\ Fresh(j)' => FamilyOf(call[k].new)' \cap FamilyOf(call[j].new)' = {}
    BY <2>0, <2>1, <2>2
  <2> QED BY <2>3, <2>4, <2>5
<1>4. NewInv'
  BY <1>3 DEF NewInv
<1> QED BY <1>2, <1>4

LEMMA HomeSame ==
    ASSUME Typed, HomeInv, NewInv, FamiliesKept,
           \A c \in Browsers : Kept(c)' \subseteq Kept(c),
           \A j \in Calls : Fresh(j)' => Fresh(j) /\ call'[j].new = call[j].new,
           \A j \in Calls : FamilyOf(call[j].tok)' \subseteq
                               FamilyOf(call[j].tok) \cup UNION {Kept(c) : c \in Browsers}
    PROVE  HomeInv' /\ NewInv'
<1>1. CASE Browsers = {}
  <2>1. HomeInv'
    BY <1>1 DEF HomeInv
  <2>2. ASSUME NEW k \in Calls, Fresh(k)'
        PROVE  /\ \A j \in Calls : FamilyOf(call[k].new)' \cap FamilyOf(call[j].tok)' = {}
               /\ \A j \in Calls : j # k /\ Fresh(j)' => FamilyOf(call[k].new)' \cap FamilyOf(call[j].new)' = {}
    <3>0. \A j \in Calls : Fresh(j)' => FamilyOf(call[j].new)' = FamilyOf(call[j].new)
      BY HeldTokens DEF FamiliesKept, FamilyOf
    <3>1. /\ \A j \in Calls : FamilyOf(call[k].new) \cap FamilyOf(call[j].tok) = {}
          /\ \A j \in Calls : j # k /\ Fresh(j) => FamilyOf(call[k].new) \cap FamilyOf(call[j].new) = {}
      BY <2>2 DEF NewInv
    <3>2. \A j \in Calls : FamilyOf(call[j].tok)' \subseteq FamilyOf(call[j].tok)
      BY <1>1
    <3> QED BY <2>2, <3>0, <3>1, <3>2
  <2> QED BY <1>1, <2>1, <2>2 DEF NewInv
<1>2. CASE Browsers # {}
  <2>1. PICK b \in Browsers : TRUE
    BY <1>2
  <2>2. PICK G : G = {}
    OBVIOUS
  <2> QED BY <2>1, <2>2, HomeFrame
<1> QED BY <1>1, <1>2

\* A page moves logins within its browser.
LEMMA KeptBound ==
    ASSUME Typed, WaitInv, NEW p \in Tabs, ClientStep(p), NEW b \in Browsers, b = BrowserOf[p], NEW G,
           FamilyOf(cookie[b])' \subseteq Kept(b) \cup G, FamilyOf(cached[b])' \subseteq Kept(b) \cup G,
           FamilyOf(disk[b])' \subseteq Kept(b) \cup G, Saved(p)' \subseteq Kept(b) \cup G
    PROVE  Kept(b)' \subseteq Kept(b) \cup G /\ \A c \in Browsers \ {b} : Kept(c)' = Kept(c)
<1>1. Asked(p)' \subseteq Asked(p) /\ \A c \in Browsers \ {b} : Kept(c)' = Kept(c)
  BY ClientViews
<1>2. \A q \in Tabs \ {p} : Saved(q)' = Saved(q) /\ Asked(q)' = Asked(q)
  BY ClientViews
<1>3. \A q \in Tabs : BrowserOf[q] = b => Saved(q) \cup Asked(q) \subseteq Kept(b)
  BY DEF Kept
<1>4. \A q \in Tabs : BrowserOf[q] = b => Saved(q)' \cup Asked(q)' \subseteq Kept(b) \cup G
  BY <1>1, <1>2, <1>3
<1>5. Kept(b)' = (FamilyOf(cookie[b]) \cup FamilyOf(cached[b]) \cup FamilyOf(disk[b]))'
                 \cup UNION {Saved(q)' \cup Asked(q)' : q \in {q \in Tabs : BrowserOf[q] = b}}
  BY DEF Kept
<1> QED BY <1>1, <1>4, <1>5

LEMMA KeptParts ==
    ASSUME NEW p \in Tabs, NEW b, b = BrowserOf[p]
    PROVE  /\ FamilyOf(cookie[b]) \subseteq Kept(b) /\ FamilyOf(cached[b]) \subseteq Kept(b)
           /\ FamilyOf(disk[b]) \subseteq Kept(b) /\ Saved(p) \subseteq Kept(b) /\ Asked(p) \subseteq Kept(b)
           /\ FamilyOf(Presented(b)) \subseteq Kept(b)
BY DEF Kept, Presented

LEMMA ClientHome ==
    ASSUME Typed, WaitInv, HomeInv, NewInv, NEW p \in Tabs, ClientStep(p), NEW b \in Browsers,
           b = BrowserOf[p], Kept(b)' \subseteq Kept(b)
    PROVE  HomeInv' /\ NewInv'
<1>1. FamiliesKept
  BY ClientViews DEF Grows
<1>2. \A c \in Browsers : Kept(c)' \subseteq Kept(c)
  BY ClientViews
<1>3. [NoCall EXCEPT !.pc = "over"].new = None /\ [NoCall EXCEPT !.pc = "over"].tok = None
  BY DEF NoCall
<1>4. \A j \in Calls : Fresh(j)' => Fresh(j) /\ call'[j].new = call[j].new
  BY <1>3, ClientViews DEF Fresh
<1>5. \A j \in Calls : FamilyOf(call[j].tok)' \subseteq FamilyOf(call[j].tok)
  <2> SUFFICES ASSUME NEW j \in Calls PROVE FamilyOf(call[j].tok)' \subseteq FamilyOf(call[j].tok)
    OBVIOUS
  <2>1. UNCHANGED token /\ (call'[j] = call[j] \/ call'[j].tok = None)
    BY <1>3, ClientViews
  <2> QED BY <2>1 DEF FamilyOf
<1> QED BY <1>1, <1>2, <1>4, <1>5, HomeSame

\* The families of the tokens an answer brings.
LEMMA CookieFamily ==
    ASSUME Typed, NEW k \in Calls, NEW b \in Browsers, UNCHANGED token,
           cookie'[b] \in {cookie[b], CookieFor(b, k)}
    PROVE  FamilyOf(cookie[b])' \subseteq FamilyOf(cookie[b]) \cup
                (IF call[k].verdict = "ok" THEN FamilyOf(call[k].new) ELSE {})
<1>1. cookie'[b] = cookie[b] \/ cookie'[b] = None \/ (call[k].verdict = "ok" /\ cookie'[b] = call[k].new)
  BY DEF CookieFor
<1> QED BY <1>1 DEF FamilyOf

LEMMA HomeStep == Typed /\ WaitInv /\ AnswerInv /\ HomeInv /\ NewInv /\ [Next]_vars => HomeInv' /\ NewInv'
<1> SUFFICES ASSUME Typed, WaitInv, AnswerInv, HomeInv, NewInv, [Next]_vars PROVE HomeInv' /\ NewInv'
  OBVIOUS
<1>1. ASSUME ServerStep, \A j \in Calls : call'[j].new = call[j].new PROVE HomeInv' /\ NewInv'
  <2>1. /\ \A c \in Browsers : Kept(c)' \subseteq Kept(c)
        /\ \A j \in Calls : FamilyOf(call[j].tok)' = FamilyOf(call[j].tok)
    BY <1>1, ServerViews
  <2>2. FamiliesKept /\ \A j \in Calls : Fresh(j)' => Fresh(j) /\ call'[j].new = call[j].new
    BY <1>1 DEF ServerStep, Grows, Fresh
  <2> QED BY <2>1, <2>2, HomeSame
<1>2. ASSUME NEW k \in Calls, Find(k) \/ Retire(k) \/ RevokeFamily(k) \/ RevokeAll(k)
      PROVE  HomeInv' /\ NewInv'
  <2>1. ServerStep
    BY <1>2, ServerSteps
  <2>2. CASE Find(k)
    BY <1>1, <2>1, <2>2, FindCase
  <2>3. CASE Retire(k)
    BY <1>1, <2>1, <2>3, RetireCase, AnswerType
  <2>4. CASE RevokeFamily(k)
    <3>1. PICK v \in {"rejected", "closed"} : \A j \in Calls : call'[j] = IF j = k THEN Answer(k, v) ELSE call[j]
      BY <2>4, RevokeFamilyCase
    <3> QED BY <1>1, <2>1, <3>1, AnswerType
  <2>5. CASE RevokeAll(k)
    BY <1>1, <2>1, <2>5, RevokeAllCase
  <2> QED BY <1>2, <2>2, <2>3, <2>4, <2>5
<1>3. CASE (\E t \in Tokens : Expire(t)) \/ UNCHANGED vars
  <2>1. ServerStep
    BY <1>3, ServerSteps
  <2>2. UNCHANGED call
    BY <1>3 DEF Expire, vars
  <2> QED BY <1>1, <2>1, <2>2
<1>4. ASSUME NEW k \in Calls, Mint(k) PROVE HomeInv' /\ NewInv'
  <2>1. ServerStep
    BY <1>4, ServerSteps
  <2>2. PICK t \in Tokens \ Issued :
             /\ token'[t].family = (IF call[k].op = "refresh" THEN token[call[k].tok].family ELSE t)
             /\ \A j \in Calls : /\ j # k => call'[j] = call[j]
                                 /\ call'[j].op = call[j].op
             /\ call'[k].new = t
    BY <1>4, MintCase
  <2>3. /\ \A c \in Browsers : Kept(c)' = Kept(c)
        /\ \A j \in Calls : FamilyOf(call[j].tok)' = FamilyOf(call[j].tok)
    BY <2>1, ServerViews
  <2>4. FamiliesKept
    BY <2>1 DEF ServerStep, Grows
  <2>5. CASE call[k].op = "refresh"
    <3>1. \A j \in Calls : Fresh(j)' => Fresh(j) /\ call'[j].new = call[j].new
      BY <2>2, <2>5 DEF Fresh
    <3> QED BY <2>3, <2>4, <3>1, HomeSame
  <2>6. CASE call[k].op # "refresh"
    <3>1. HomeInv'
      BY <2>3 DEF HomeInv
    <3>2. FamilyOf(call[k].new)' = {t}
      BY <2>2, <2>6, NoneApart DEF FamilyOf
    <3>3. \A j \in Calls \ {k} : Fresh(j)' => Fresh(j) /\ FamilyOf(call[j].new)' = FamilyOf(call[j].new)
      BY <2>2, <2>4, HeldTokens DEF Fresh, FamiliesKept, FamilyOf
    <3>4. /\ \A c \in Browsers : t \notin Kept(c)
          /\ \A j \in Calls : t \notin FamilyOf(call[j].tok) /\ t \notin FamilyOf(call[j].new)
      BY <2>2, KeptIssued
    <3>5. ASSUME NEW m \in Calls, Fresh(m)'
          PROVE  /\ \A c \in Browsers : FamilyOf(call[m].new)' \cap Kept(c)' = {}
                 /\ \A j \in Calls : FamilyOf(call[m].new)' \cap FamilyOf(call[j].tok)' = {}
                 /\ \A j \in Calls : j # m /\ Fresh(j)' => FamilyOf(call[m].new)' \cap FamilyOf(call[j].new)' = {}
      <4>1. CASE m = k
        BY <2>3, <3>2, <3>3, <3>4, <4>1
      <4>2. CASE m # k
        <5>1. Fresh(m) /\ FamilyOf(call[m].new)' = FamilyOf(call[m].new)
          BY <3>3, <3>5, <4>2
        <5>2. /\ \A c \in Browsers : FamilyOf(call[m].new) \cap Kept(c) = {}
              /\ \A j \in Calls : FamilyOf(call[m].new) \cap FamilyOf(call[j].tok) = {}
              /\ \A j \in Calls : j # m /\ Fresh(j) => FamilyOf(call[m].new) \cap FamilyOf(call[j].new) = {}
          BY <5>1 DEF NewInv
        <5>3. \A j \in Calls : j # m /\ Fresh(j)' => FamilyOf(call[m].new)' \cap FamilyOf(call[j].new)' = {}
          <6> SUFFICES ASSUME NEW j \in Calls, j # m, Fresh(j)'
                       PROVE  FamilyOf(call[m].new)' \cap FamilyOf(call[j].new)' = {}
            OBVIOUS
          <6>1. CASE j = k
            BY <3>2, <3>4, <5>1, <6>1
          <6>2. CASE j # k
            BY <3>3, <5>1, <5>2, <6>2
          <6> QED BY <6>1, <6>2
        <5> QED BY <2>3, <5>1, <5>2, <5>3
      <4> QED BY <4>1, <4>2
    <3>6. NewInv'
      BY <3>5 DEF NewInv
    <3> QED BY <3>1, <3>6
  <2> QED BY <2>5, <2>6
<1>5. ASSUME NEW p \in Tabs, NEW op, NEW k \in Calls, NEW tok, AskStep(p, op, k, tok)
      PROVE  HomeInv' /\ NewInv'
  <2>1. /\ FamiliesKept /\ \A c \in Browsers : Kept(c)' \subseteq Kept(c)
        /\ FamilyOf(tok) \subseteq Kept(BrowserOf[p]) /\ \A t : FamilyOf(t)' = FamilyOf(t)
    BY <1>5, AskViews DEF Grows
  <2>2. /\ call'[k].new = None /\ call'[k].tok = tok /\ \A j \in Calls \ {k} : call'[j] = call[j]
        /\ UNCHANGED token
    BY <1>5 DEF AskStep
  <2>3. \A j \in Calls : Fresh(j)' => Fresh(j) /\ call'[j].new = call[j].new
    BY <2>2 DEF Fresh
  <2>4. \A j \in Calls : FamilyOf(call[j].tok)' \subseteq
                               FamilyOf(call[j].tok) \cup UNION {Kept(c) : c \in Browsers}
    <3> SUFFICES ASSUME NEW j \in Calls
                 PROVE  FamilyOf(call[j].tok)' \subseteq FamilyOf(call[j].tok) \cup UNION {Kept(c) : c \in Browsers}
      OBVIOUS
    <3>1. CASE j = k
      <4>1. FamilyOf(call[j].tok)' = FamilyOf(tok)
        BY <2>2, <3>1 DEF FamilyOf
      <4>2. BrowserOf[p] \in Browsers
        OBVIOUS
      <4> QED BY <2>1, <4>1, <4>2
    <3>2. CASE j # k
      BY <2>2, <3>2 DEF FamilyOf
    <3> QED BY <3>1, <3>2
  <2> QED BY <2>1, <2>3, <2>4, HomeSame
<1>6. ASSUME NEW p \in Tabs, Refresh(p) \/ Login(p) \/ Logout(p) \/ ChangePassword(p) PROVE HomeInv' /\ NewInv'
  BY <1>5, <1>6, AskSteps
<1>7. ASSUME NEW p \in Tabs, NEW k \in Calls, TakeRefresh(p, k) PROVE HomeInv' /\ NewInv'
  <2>1. ClientStep(p)
    BY <1>7, ClientSteps
  <2>2. PICK b, G : b = BrowserOf[p] /\ G = {}
    OBVIOUS
  <2>3. /\ b \in Browsers /\ tab[p].refresh = k /\ call[k].op = "refresh"
        /\ \/ /\ call[k].verdict = "ok" /\ call[k].new \in Issued
              /\ cached'[b] = call[k].new
              /\ tab'[p].saves = Append(tab[p].saves, <<"refresh", call[k].new>>)
           \/ cached'[b] = cached[b] /\ tab'[p].saves = tab[p].saves
        /\ call[k].verdict = "ok" => call[k].new \in Issued
        /\ cookie'[b] \in {cookie[b], CookieFor(b, k)} /\ UNCHANGED <<token, disk>>
    BY <1>7, <2>2, RefreshCase
  <2>4. call[k].verdict = "ok" => FamilyOf(call[k].new) = Asked(p)
    <3> SUFFICES ASSUME call[k].verdict = "ok" PROVE FamilyOf(call[k].new) = Asked(p)
      OBVIOUS
    <3>1. call[k].new # None
      BY <2>3, NoneApart DEF Issued
    <3> QED BY <2>3, <3>1, NoneApart DEF AnswerInv, Asked
  <2>5. /\ FamilyOf(cookie[b]) \subseteq Kept(b) /\ FamilyOf(cached[b]) \subseteq Kept(b)
        /\ FamilyOf(disk[b]) \subseteq Kept(b) /\ Saved(p) \subseteq Kept(b) /\ Asked(p) \subseteq Kept(b)
    BY <2>2, KeptParts
  <2>6. FamilyOf(cookie[b])' \subseteq Kept(b)
    BY <2>3, <2>4, <2>5, CookieFamily
  <2>7. FamilyOf(disk[b])' \subseteq Kept(b)
    BY <2>3, <2>5 DEF FamilyOf
  <2>8. FamilyOf(cached[b])' \subseteq Kept(b) /\ Saved(p)' \subseteq Kept(b)
    <3>0. FamiliesKept
      BY <2>1, ClientViews DEF Grows
    <3>1. CASE /\ call[k].verdict = "ok" /\ call[k].new \in Issued /\ cached'[b] = call[k].new
               /\ tab'[p].saves = Append(tab[p].saves, <<"refresh", call[k].new>>)
      <4>1. PICK t \in Issued : t = call[k].new
        BY <3>1
      <4>2. Saved(p)' = Saved(p) \cup FamilyOf(t)
        BY <3>0, <3>1, <4>1, SavesAppended
      <4>3. FamilyOf(cached[b])' = FamilyOf(t)
        BY <2>3, <3>1, <4>1 DEF FamilyOf
      <4> QED BY <2>4, <2>5, <3>1, <4>1, <4>2, <4>3
    <3>2. CASE cached'[b] = cached[b] /\ tab'[p].saves = tab[p].saves
      <4>1. Saved(p)' = Saved(p)
        BY <3>0, <3>2, SavesKept
      <4>2. FamilyOf(cached[b])' = FamilyOf(cached[b])
        BY <2>3, <3>2 DEF FamilyOf
      <4> QED BY <2>5, <4>1, <4>2
    <3> QED BY <2>3, <3>1, <3>2
  <2>9. Kept(b)' \subseteq Kept(b) \cup G
    BY <2>1, <2>2, <2>3, <2>6, <2>7, <2>8, KeptBound
  <2> QED BY <2>1, <2>2, <2>3, <2>9, ClientHome
<1>8. ASSUME NEW p \in Tabs, NEW k \in Calls, TakeAnswer(p, k) PROVE HomeInv' /\ NewInv'
  <2>1. ClientStep(p)
    BY <1>8, ClientSteps
  <2>2. PICK b, G : b = BrowserOf[p] /\ G = IF call[k].op = "logout" THEN {} ELSE FamilyOf(call[k].new)
    OBVIOUS
  <2>3. /\ b \in Browsers /\ call[k].pc = "answer" /\ call[k].op \in {"login", "logout", "password"}
        /\ \A j \in Calls : call'[j] = IF j = k THEN [NoCall EXCEPT !.pc = "over"] ELSE call[j]
        /\ call[k].op # "logout" => call[k].verdict = "ok" /\ call[k].new \in Issued
        /\ IF call[k].op = "login" /\ b \in Native
           THEN tab'[p].saves = Append(tab[p].saves, <<"login", call[k].new>>)
           ELSE tab'[p].saves = tab[p].saves
        /\ cached'[b] = CachedAfter(b, k)
        /\ disk'[b] \in {None, disk[b]}
        /\ cookie'[b] \in {cookie[b], CookieFor(b, k)} /\ UNCHANGED token
    BY <1>8, <2>2, AnswerCase
  <2>4. call[k].verdict = "ok" => FamilyOf(call[k].new) \subseteq G
    BY <2>2, <2>3 DEF AnswerInv
  <2>5. /\ FamilyOf(cookie[b]) \subseteq Kept(b) /\ FamilyOf(cached[b]) \subseteq Kept(b)
        /\ FamilyOf(disk[b]) \subseteq Kept(b) /\ Saved(p) \subseteq Kept(b) /\ Asked(p) \subseteq Kept(b)
    BY <2>2, KeptParts
  <2>6. FamilyOf(cookie[b])' \subseteq Kept(b) \cup G
    BY <2>3, <2>4, <2>5, CookieFamily
  <2>7. FamilyOf(disk[b])' \subseteq Kept(b) \cup G
    BY <2>3, <2>5 DEF FamilyOf
  <2>8. FamilyOf(cached[b])' \subseteq Kept(b) \cup G
    <3>1. CachedAfter(b, k) \in {cached[b], None} \/ (call[k].op # "logout" /\ CachedAfter(b, k) = call[k].new)
      BY DEF CachedAfter
    <3> QED BY <2>2, <2>3, <2>5, <3>1 DEF FamilyOf
  <2>9. Saved(p)' \subseteq Kept(b) \cup G
    <3>0. FamiliesKept
      BY <2>1, ClientViews DEF Grows
    <3>1. CASE call[k].op = "login" /\ b \in Native
      <4>1. PICK t \in Issued : t = call[k].new
        BY <2>3, <3>1
      <4>2. Saved(p)' = Saved(p) \cup FamilyOf(t)
        BY <2>3, <3>0, <3>1, <4>1, SavesAppended
      <4> QED BY <2>2, <2>5, <3>1, <4>1, <4>2
    <3>2. CASE ~(call[k].op = "login" /\ b \in Native)
      <4>1. Saved(p)' = Saved(p)
        BY <2>3, <3>0, <3>2, SavesKept
      <4> QED BY <2>5, <4>1
    <3> QED BY <3>1, <3>2
  <2>10. Kept(b)' \subseteq Kept(b) \cup G /\ \A c \in Browsers \ {b} : Kept(c)' = Kept(c)
    BY <2>1, <2>2, <2>3, <2>6, <2>7, <2>8, <2>9, KeptBound
  <2>11. [NoCall EXCEPT !.pc = "over"].new = None /\ [NoCall EXCEPT !.pc = "over"].tok = None
    BY DEF NoCall
  <2>12. \A j \in Calls : FamilyOf(call[j].tok)' \subseteq FamilyOf(call[j].tok)
    BY <2>3, <2>11 DEF FamilyOf
  <2>13. \A j \in Calls : Fresh(j)' => j # k /\ Fresh(j) /\ call'[j].new = call[j].new
    BY <2>3, <2>11 DEF Fresh
  <2>14. call[k].op # "logout" => Fresh(k)
    BY <2>3, NoneApart DEF Fresh, Issued
  <2>15. /\ \A c \in Browsers \ {b} : Kept(c)' \subseteq Kept(c) /\ Kept(c) \cap G = {}
         /\ \A j \in Calls : Fresh(j)' => FamilyOf(call[j].new) \cap G = {}
    BY <2>2, <2>10, <2>13, <2>14 DEF NewInv
  <2>16. FamiliesKept
    BY <2>1, ClientViews DEF Grows
  <2> QED BY <2>3, <2>10, <2>12, <2>13, <2>15, <2>16, HomeFrame
<1>9. ASSUME NEW p \in Tabs, ClientStep(p), NEW b, b = BrowserOf[p], UNCHANGED cookie,
             cached'[b] \in {cached[b], disk[b]}, Saved(p)' \subseteq Saved(p),
             FamilyOf(disk[b])' \subseteq FamilyOf(disk[b]) \cup Saved(p)
      PROVE  HomeInv' /\ NewInv'
  <2>1. PICK G : G = {}
    OBVIOUS
  <2>2. /\ FamilyOf(cookie[b]) \subseteq Kept(b) /\ FamilyOf(cached[b]) \subseteq Kept(b)
        /\ FamilyOf(disk[b]) \subseteq Kept(b) /\ Saved(p) \subseteq Kept(b)
    BY <1>9, KeptParts
  <2>3. UNCHANGED token
    BY <1>9, ClientViews
  <2>4. FamilyOf(cookie[b])' \subseteq Kept(b) /\ FamilyOf(cached[b])' \subseteq Kept(b)
    BY <1>9, <2>2, <2>3 DEF FamilyOf
  <2>5. b \in Browsers
    BY <1>9
  <2>6. Kept(b)' \subseteq Kept(b) \cup G
    BY <1>9, <2>2, <2>4, <2>5, KeptBound
  <2> QED BY <1>9, <2>1, <2>5, <2>6, ClientHome
<1>10. ASSUME NEW p \in Tabs, Save(p) PROVE HomeInv' /\ NewInv'
  <2>1. ClientStep(p)
    BY <1>10, ClientSteps
  <2>2. PICK b : b = BrowserOf[p]
    OBVIOUS
  <2>3. /\ tab[p].saves # <<>> /\ tab'[p].saves = Tail(tab[p].saves)
        /\ disk'[b] = Head(tab[p].saves)[2] /\ UNCHANGED <<token, cookie, cached>>
    BY <1>10, <2>2, SaveCase
  <2>4. FamiliesKept
    BY <2>1, ClientViews DEF Grows
  <2>5. Saved(p) = FamilyOf(Head(tab[p].saves)[2]) \cup Saved(p)'
    BY <2>3, <2>4, SavesWritten
  <2>6. FamilyOf(disk[b])' = FamilyOf(Head(tab[p].saves)[2])
    BY <2>3 DEF FamilyOf
  <2> QED BY <1>9, <2>1, <2>2, <2>3, <2>5, <2>6
<1>11. ASSUME NEW p \in Tabs, NEW k \in Calls, Lose(p, k) PROVE HomeInv' /\ NewInv'
  <2>1. ClientStep(p)
    BY <1>11, ClientSteps
  <2>2. PICK b : b = BrowserOf[p]
    OBVIOUS
  <2>3. tab'[p].saves = tab[p].saves /\ UNCHANGED <<token, cookie, cached, disk>>
    BY <1>11, LoseCase
  <2>4. FamiliesKept
    BY <2>1, ClientViews DEF Grows
  <2>5. Saved(p)' = Saved(p)
    BY <2>3, <2>4, SavesKept
  <2>6. FamilyOf(disk[b])' = FamilyOf(disk[b])
    BY <2>3 DEF FamilyOf
  <2> QED BY <1>9, <2>1, <2>2, <2>3, <2>5, <2>6
<1>12. ASSUME NEW p \in Tabs, Reload(p) PROVE HomeInv' /\ NewInv'
  <2>1. ClientStep(p)
    BY <1>12, ClientSteps
  <2>2. PICK b : b = BrowserOf[p]
    OBVIOUS
  <2>3. /\ tab'[p].saves = <<>> /\ cached'[b] \in {cached[b], disk[b]}
        /\ UNCHANGED <<token, cookie, disk>>
    BY <1>12, <2>2, ReloadCase
  <2>5. Saved(p)' = {}
    BY <2>3 DEF Saved, Saves
  <2>6. FamilyOf(disk[b])' = FamilyOf(disk[b])
    BY <2>3 DEF FamilyOf
  <2> QED BY <1>9, <2>1, <2>2, <2>3, <2>5, <2>6
<1> QED BY <1>2, <1>3, <1>4, <1>6, <1>7, <1>8, <1>10, <1>11, <1>12 DEF Next

-----------------------------------------------------------------------------
(* What a phone presents, and what it stores.                              *)

PhoneAt(p) == EmptyAt(p) /\ LeavingAt(p) /\ EnteringAt(p) /\ BareAt(p)

LEMMA PhoneFrame ==
    ASSUME NEW p \in Tabs, NEW b, b = BrowserOf[p], PhoneAt(p), Bad \subseteq Bad',
           cached'[b] = cached[b], FamilyOf(cached[b])' = FamilyOf(cached[b]),
           FamilyOf(cookie[b])' = FamilyOf(cookie[b]),
           FamilyOf(disk[b])' \cup Saved(p)' \subseteq FamilyOf(disk[b]) \cup Saved(p),
           FamilyOf(Presented(b))' = FamilyOf(Presented(b)),
           Saved(p)' \subseteq Saved(p), Entered(p)' \subseteq Entered(p), Asked(p)' \subseteq Asked(p),
           Leaving(p)' => Leaving(p) /\ FamilyOf(call[tab[p].ask].tok)' = FamilyOf(call[tab[p].ask].tok),
           Bare(p)' => Bare(p)
    PROVE  PhoneAt(p)'
<1>1. EmptyAt(p)'
  BY DEF PhoneAt, EmptyAt
<1>2. LeavingAt(p)'
  BY DEF PhoneAt, LeavingAt
<1>3. EnteringAt(p)'
  BY DEF PhoneAt, EnteringAt
<1>4. BareAt(p)'
  BY DEF PhoneAt, BareAt
<1> QED BY <1>1, <1>2, <1>3, <1>4 DEF PhoneAt

\* A page's refresh that carried the cookie only still does.
LEMMA BareSame ==
    ASSUME NEW p \in Tabs, ClientStep(p)
    PROVE  Bare(p)' => Bare(p)
BY DEF ClientStep, Bare

\* The steps of others.
LEMMA PhoneOther ==
    ASSUME Typed, WaitInv, PhoneInv, NEW p \in Tabs, App(p),
           \/ ServerStep
           \/ \E q \in Tabs \ {p} : ClientStep(q)
           \/ \E q \in Tabs \ {p} : \E op : \E k \in Calls : \E tok : AskStep(q, op, k, tok)
    PROVE  PhoneAt(p)'
<1>0. PICK b : b = BrowserOf[p]
  OBVIOUS
<1>1. PhoneAt(p) /\ b \in Browsers /\ (tab[p].ask # None => tab[p].ask \in Calls)
  BY <1>0, HeldTokens DEF PhoneInv, PhoneAt
<1>2. CASE ServerStep
  <2>1. /\ tab'[p] = tab[p] /\ Saved(p)' = Saved(p) /\ Entered(p)' = Entered(p) /\ Asked(p)' = Asked(p)
        /\ FamilyOf(cookie[b])' = FamilyOf(cookie[b]) /\ FamilyOf(cached[b])' = FamilyOf(cached[b])
        /\ FamilyOf(disk[b])' = FamilyOf(disk[b]) /\ FamilyOf(Presented(b))' = FamilyOf(Presented(b))
        /\ \A k \in Calls : FamilyOf(call[k].tok)' = FamilyOf(call[k].tok)
    BY <1>1, <1>2, ServerViews
  <2>2. /\ Bad \subseteq Bad' /\ UNCHANGED cached /\ \A k \in Calls : call'[k].op = call[k].op
        /\ \A k \in Calls : call'[k].tok = call[k].tok /\ call'[k].body = call[k].body
    BY <1>2 DEF ServerStep, Grows
  <2>3. Leaving(p)' => Leaving(p) /\ FamilyOf(call[tab[p].ask].tok)' = FamilyOf(call[tab[p].ask].tok)
    <3>1. CASE tab[p].ask = None
      BY <2>1, <3>1 DEF Leaving
    <3>2. CASE tab[p].ask # None
      <4>1. PICK k \in Calls : k = tab[p].ask /\ k = tab'[p].ask
        BY <1>1, <2>1, <3>2
      <4>2. FamilyOf(call[tab[p].ask].tok)' = FamilyOf(call[k].tok)'
        BY <4>1
      <4> QED BY <2>1, <2>2, <4>1, <4>2 DEF Leaving
    <3> QED BY <3>1, <3>2
  <2>4. Bare(p)' => Bare(p)
    <3>1. tab[p].refresh # None => tab[p].refresh \in Calls
      BY HeldTokens
    <3> QED BY <2>1, <2>2, <3>1 DEF Bare
  <2> QED BY <1>0, <1>1, <2>1, <2>2, <2>3, <2>4, PhoneFrame
<1>3. ASSUME NEW q \in Tabs \ {p}, ClientStep(q) PROVE PhoneAt(p)'
  <2>0. b # BrowserOf[q]
    BY <1>0, AppAssumption DEF App
  <2>1. /\ Bad \subseteq Bad' /\ tab'[p] = tab[p]
        /\ Saved(p)' = Saved(p) /\ Entered(p)' = Entered(p) /\ Asked(p)' = Asked(p)
        /\ tab[p].ask # None => call'[tab[p].ask] = call[tab[p].ask]
        /\ tab[p].refresh # None => call'[tab[p].refresh] = call[tab[p].refresh]
        /\ FamilyOf(cookie[b])' = FamilyOf(cookie[b]) /\ FamilyOf(cached[b])' = FamilyOf(cached[b])
        /\ FamilyOf(disk[b])' = FamilyOf(disk[b]) /\ Presented(b)' = Presented(b)
        /\ \A t : FamilyOf(t)' = FamilyOf(t)
    BY <1>1, <1>3, <2>0, ClientViews DEF Grows
  <2>2. cached'[b] = cached[b] /\ UNCHANGED token
    BY <1>1, <1>3, <2>0 DEF ClientStep
  <2>3. Leaving(p)' => Leaving(p) /\ FamilyOf(call[tab[p].ask].tok)' = FamilyOf(call[tab[p].ask].tok)
    BY <2>1, <2>2 DEF Leaving, FamilyOf
  <2>4. FamilyOf(Presented(b))' = FamilyOf(Presented(b))
    BY <2>1, <2>2 DEF FamilyOf
  <2>5. Bare(p)' => Bare(p)
    BY <2>1 DEF Bare
  <2> QED BY <1>0, <1>1, <2>1, <2>2, <2>3, <2>4, <2>5, PhoneFrame
<1>4. ASSUME NEW q \in Tabs \ {p}, NEW op, NEW k \in Calls, NEW tok, AskStep(q, op, k, tok)
      PROVE  PhoneAt(p)'
  <2>1. /\ Bad \subseteq Bad'
        /\ Saved(p)' = Saved(p) /\ Entered(p)' = Entered(p) /\ Asked(p)' = Asked(p)
        /\ tab[p].ask # None => call'[tab[p].ask] = call[tab[p].ask]
        /\ tab[p].refresh # None => call'[tab[p].refresh] = call[tab[p].refresh]
        /\ Presented(b)' = Presented(b)
    BY <1>1, <1>4, AskViews DEF Grows
  <2>2. UNCHANGED <<token, cookie, cached, disk>> /\ tab'[p].ask = tab[p].ask /\ tab'[p].refresh = tab[p].refresh
    BY <1>4 DEF AskStep
  <2>3. Leaving(p)' => Leaving(p) /\ FamilyOf(call[tab[p].ask].tok)' = FamilyOf(call[tab[p].ask].tok)
    BY <2>1, <2>2 DEF Leaving, FamilyOf
  <2>4. /\ FamilyOf(Presented(b))' = FamilyOf(Presented(b)) /\ FamilyOf(cookie[b])' = FamilyOf(cookie[b])
        /\ FamilyOf(cached[b])' = FamilyOf(cached[b]) /\ FamilyOf(disk[b])' = FamilyOf(disk[b])
    BY <2>1, <2>2 DEF FamilyOf
  <2>5. Bare(p)' => Bare(p)
    BY <2>1, <2>2 DEF Bare
  <2> QED BY <1>0, <1>1, <2>1, <2>2, <2>3, <2>4, <2>5, PhoneFrame
<1> QED BY <1>2, <1>3, <1>4

\* While no refresh is being stored, what is being stored is a login.
LEMMA OnlyEntered ==
    ASSUME Typed, NEW p \in Tabs
    PROVE  /\ ~Saving(p, "refresh") => Saved(p) = Entered(p)
           /\ ~Saving(p, "login") => Entered(p) = {}
           /\ Entered(p) \subseteq Saved(p)
<1>1. PICK s, n : s = tab[p].saves /\ n = Len(s)
  OBVIOUS
<1>2. s \in Seq({"refresh", "login"} \X Tokens)
  BY <1>1, HeldTokens
<1>3. \A i \in 1..n : s[i][1] \in {"refresh", "login"}
  <2>1. \A i \in 1..n : s[i] \in {"refresh", "login"} \X Tokens
    BY <1>1, <1>2
  <2> QED BY <2>1
<1> DEFINE F(i) == FamilyOf(s[i][2])
<1>4. /\ Saved(p) = UNION {F(i) : i \in 1..n}
      /\ Entered(p) = UNION {F(i) : i \in {i \in 1..n : s[i][1] = "login"}}
      /\ \A o : Saving(p, o) <=> \E i \in 1..n : s[i][1] = o
  BY <1>1 DEF Saved, Entered, Saves, Saving
<1> HIDE DEF F
<1> QED BY ONLY <1>3, <1>4

\* The phone's own requests.
LEMMA PhoneAsk ==
    ASSUME Typed, WaitInv, PhoneInv, NEW p \in Tabs, App(p), NEW op, NEW k \in Calls, NEW tok,
           AskStep(p, op, k, tok)
    PROVE  PhoneAt(p)'
<1>0. PICK b : b = BrowserOf[p]
  OBVIOUS
<1>1. PhoneAt(p) /\ b \in Browsers /\ b \in Native
  BY <1>0 DEF PhoneInv, PhoneAt, App
<1>2. /\ Bad \subseteq Bad' /\ overlapped' \subseteq Bad'
      /\ Saved(p)' = Saved(p) /\ Entered(p)' = Entered(p)
      /\ Asked(p)' = IF op = "refresh" THEN FamilyOf(tok) ELSE Asked(p)
      /\ tab[p].refresh # None => tab[p].refresh # k /\ call'[tab[p].refresh] = call[tab[p].refresh]
      /\ tab[p].ask # None => tab[p].ask # k /\ call'[tab[p].ask] = call[tab[p].ask]
      /\ Presented(b)' = Presented(b)
  <2>1. overlapped' \subseteq Bad'
    BY DEF Bad
  <2>2. Grows
    BY AskViews
  <2>5. Saved(p)' = Saved(p) /\ Entered(p)' = Entered(p)
    BY AskViews
  <2>6. Asked(p)' = IF op = "refresh" THEN FamilyOf(tok) ELSE Asked(p)
    BY AskViews
  <2>7. /\ tab[p].refresh # None => tab[p].refresh # k /\ call'[tab[p].refresh] = call[tab[p].refresh]
        /\ tab[p].ask # None => tab[p].ask # k /\ call'[tab[p].ask] = call[tab[p].ask]
    BY AskViews
  <2>3. Presented(b)' = Presented(b)
    BY <1>1, AskViews
  <2> QED BY <2>1, <2>2, <2>3, <2>5, <2>6, <2>7 DEF Grows
<1>3. /\ UNCHANGED <<token, cookie, cached, disk>>
      /\ tab'[p].ask = IF op # "refresh" THEN k ELSE tab[p].ask
      /\ tab'[p].refresh = IF op = "refresh" THEN k ELSE tab[p].refresh
      /\ call'[k].body <=> (b \in Native /\ cached[b] # None)
      /\ call'[k].op = op /\ call'[k].tok = tok /\ k # None
      /\ op \in {"refresh", "logout"} => tok = Presented(b)
      /\ op = "refresh" => ~Saving(p, "refresh")
      /\ \A j \in Calls : Outstanding(j) => FamilyOf(tok) \cap FamilyOf(call[j].tok) \subseteq overlapped'
  BY <1>0, NoneApart DEF AskStep
<1>4. /\ FamilyOf(Presented(b))' = FamilyOf(Presented(b)) /\ FamilyOf(cookie[b])' = FamilyOf(cookie[b])
      /\ FamilyOf(cached[b])' = FamilyOf(cached[b]) /\ FamilyOf(disk[b])' = FamilyOf(disk[b])
      /\ \A t : FamilyOf(t)' = FamilyOf(t)
  BY <1>2, <1>3 DEF FamilyOf
<1>5. CASE op = "refresh"
  <2>1. tok = Presented(b) /\ Saved(p) = Entered(p) /\ Asked(p)' = FamilyOf(tok) /\ tab'[p].ask = tab[p].ask
    BY <1>2, <1>3, <1>5, OnlyEntered
  <2>2. EmptyAt(p)'
    <3> SUFFICES ASSUME cached[b] = None
                 PROVE  (FamilyOf(cookie[b]) \cup Asked(p)') \cap (FamilyOf(disk[b]) \cup Saved(p)) \subseteq Bad'
      BY <1>0, <1>2, <1>3, <1>4 DEF EmptyAt
    <3>1. tok = cookie[b]
      BY <2>1 DEF Presented
    <3>2. FamilyOf(cookie[b]) \cap (FamilyOf(disk[b]) \cup Saved(p)) \subseteq Bad
      BY <1>0, <1>1 DEF PhoneAt, EmptyAt
    <3> QED BY <1>2, <2>1, <3>1, <3>2
  <2>3. EnteringAt(p)'
    <3>1. FamilyOf(tok) \cap Entered(p) \subseteq Bad \cup FamilyOf(cached[b])
      <4>1. CASE cached[b] = None
        <5>1. tok = cookie[b]
          BY <2>1, <4>1 DEF Presented
        <5>2. FamilyOf(cookie[b]) \cap Saved(p) \subseteq Bad
          BY <1>0, <1>1, <4>1 DEF PhoneAt, EmptyAt
        <5> QED BY <2>1, <5>1, <5>2
      <4>2. CASE cached[b] # None
        <5>1. tok = cached[b]
          BY <1>1, <2>1, <4>2 DEF Presented
        <5> QED BY <5>1
      <4> QED BY <4>1, <4>2
    <3> QED BY <1>0, <1>2, <1>4, <2>1, <3>1 DEF EnteringAt
  <2>4. LeavingAt(p)'
    <3> SUFFICES ASSUME Leaving(p)'
                 PROVE  /\ Asked(p)' \cap Saved(p)' \subseteq Bad'
                        /\ FamilyOf(Presented(b))' \cap Entered(p)' \subseteq
                              Bad' \cup FamilyOf(call[tab[p].ask].tok)'
      BY <1>0 DEF LeavingAt
    <3>1. PICK a \in Calls : a = tab[p].ask /\ a = tab'[p].ask /\ call'[a] = call[a] /\ a # k
      BY <1>2, <2>1, HeldTokens DEF Leaving
    <3>2. Leaving(p) /\ Outstanding(a)
      <4>1. call[a].op = "logout" /\ a # None
        BY <2>1, <3>1 DEF Leaving
      <4>2. call[a].pc \notin {"new", "over"}
        BY <3>1, <4>1 DEF WaitInv
      <4>3. call[a] \in Request
        BY DEF Typed, TypeOK
      <4>4. Waits(p, a)
        BY <3>1 DEF Waits
      <4> QED BY <3>1, <4>1, <4>2, <4>3, <4>4 DEF Leaving, Outstanding, Request
    <3>3. FamilyOf(tok) \cap Entered(p) \subseteq Bad \cup FamilyOf(call[a].tok)
      BY <1>0, <1>1, <2>1, <3>1, <3>2 DEF PhoneAt, LeavingAt
    <3>4. FamilyOf(tok) \cap FamilyOf(call[a].tok) \subseteq Bad'
      BY <1>2, <1>3, <3>2
    <3>5. FamilyOf(call[tab[p].ask].tok)' = FamilyOf(call[a].tok)
      BY <1>3, <3>1 DEF FamilyOf
    <3> QED BY <1>2, <1>4, <2>1, <3>3, <3>4, <3>5
  <2>5. BareAt(p)'
    <3> SUFFICES ASSUME Bare(p)'
                 PROVE  FamilyOf(tok) \cap (FamilyOf(cached[b]) \cup FamilyOf(disk[b]) \cup Saved(p)) \subseteq Bad'
      BY <1>0, <1>2, <1>4, <2>1 DEF BareAt
    <3>1. cached[b] = None
      BY <1>1, <1>3, <1>5 DEF Bare
    <3>2. tok = cookie[b] /\ FamilyOf(cached[b]) = {}
      BY <2>1, <3>1 DEF Presented, FamilyOf
    <3>3. FamilyOf(cookie[b]) \cap (FamilyOf(disk[b]) \cup Saved(p)) \subseteq Bad
      BY <1>0, <1>1, <3>1 DEF PhoneAt, EmptyAt
    <3> QED BY <1>2, <3>2, <3>3
  <2> QED BY <2>2, <2>3, <2>4, <2>5 DEF PhoneAt
<1>6. CASE op # "refresh"
  <2>1. Asked(p)' = Asked(p) /\ tab'[p].ask = k
    BY <1>2, <1>3, <1>6
  <2>2. EmptyAt(p)'
    BY <1>0, <1>1, <1>2, <1>3, <1>4, <2>1 DEF PhoneAt, EmptyAt
  <2>3. EnteringAt(p)'
    BY <1>0, <1>1, <1>2, <1>4, <2>1 DEF PhoneAt, EnteringAt
  <2>4. LeavingAt(p)'
    <3> SUFFICES ASSUME Leaving(p)'
                 PROVE  /\ Asked(p)' \cap Saved(p)' \subseteq Bad'
                        /\ FamilyOf(Presented(b))' \cap Entered(p)' \subseteq
                              Bad' \cup FamilyOf(call[tab[p].ask].tok)'
      BY <1>0 DEF LeavingAt
    <3>1. op = "logout"
      BY <1>3, <2>1 DEF Leaving
    <3>2. FamilyOf(call[tab[p].ask].tok)' = FamilyOf(Presented(b))
      BY <1>3, <2>1, <3>1 DEF FamilyOf
    <3>3. Asked(p) \cap Saved(p) \subseteq Bad'
      <4>1. CASE tab[p].refresh = None
        BY <4>1 DEF Asked
      <4>2. CASE tab[p].refresh # None
        <5>1. PICK j \in Calls : j = tab[p].refresh
          BY <4>2, HeldTokens
        <5>2. ~Saving(p, "refresh") /\ call[j].pc \notin {"new", "over"}
          BY <4>2, <5>1 DEF WaitInv
        <5>3. call[j] \in Request /\ Waits(p, j)
          BY <5>1 DEF Typed, TypeOK, Waits
        <5>4. Outstanding(j)
          BY <5>2, <5>3 DEF Outstanding, Request
        <5>5. Asked(p) = FamilyOf(call[j].tok) /\ Saved(p) = Entered(p)
          BY <4>2, <5>1, <5>2, OnlyEntered DEF Asked
        <5>6. FamilyOf(tok) \cap Asked(p) \subseteq Bad'
          BY <1>2, <1>3, <5>4, <5>5
        <5>7. Asked(p) \cap Saved(p) \subseteq Bad \cup FamilyOf(cached[b])
          BY <1>0, <1>1, <5>5 DEF PhoneAt, EnteringAt
        <5>8. FamilyOf(cached[b]) \subseteq FamilyOf(tok)
          <6>1. CASE cached[b] = None
            BY <6>1 DEF FamilyOf
          <6>2. CASE cached[b] # None
            <7>1. tok = cached[b]
              BY <1>1, <1>3, <3>1, <6>2 DEF Presented
            <7> QED BY <7>1
          <6> QED BY <6>1, <6>2
        <5> QED BY <1>2, <5>6, <5>7, <5>8
      <4> QED BY <4>1, <4>2
    <3> QED BY <1>2, <1>4, <2>1, <3>2, <3>3
  <2>5. Bare(p)' => Bare(p)
    BY <1>2, <1>3, <1>6 DEF Bare
  <2>6. BareAt(p)'
    BY <1>0, <1>1, <1>2, <1>4, <2>1, <2>5 DEF PhoneAt, BareAt
  <2> QED BY <2>2, <2>3, <2>4, <2>6 DEF PhoneAt
<1> QED BY <1>5, <1>6

\* The phone's own steps: what an answer brings is of the login it was for.
LEMMA NewAsked ==
    ASSUME Typed, WaitInv, AnswerInv, NEW p \in Tabs, NEW k \in Calls, TakeRefresh(p, k)
    PROVE  call[k].verdict = "ok" => FamilyOf(call[k].new) = Asked(p)
<1> SUFFICES ASSUME call[k].verdict = "ok" PROVE FamilyOf(call[k].new) = Asked(p)
  OBVIOUS
<1>1. PICK b : b = BrowserOf[p]
  OBVIOUS
<1>2. tab[p].refresh = k /\ call[k].op = "refresh" /\ call[k].new \in Issued
  BY <1>1, RefreshCase
<1>3. call[k].new # None
  BY <1>2, NoneApart DEF Issued
<1> QED BY <1>2, <1>3, NoneApart DEF AnswerInv, Asked

LEMMA LeavingSame ==
    ASSUME Typed, WaitInv, NEW p \in Tabs, ClientStep(p), Leaving(p)'
    PROVE  Leaving(p) /\ FamilyOf(call[tab[p].ask].tok)' = FamilyOf(call[tab[p].ask].tok)
<1>1. tab'[p].ask = tab[p].ask /\ call'[tab[p].ask] = call[tab[p].ask] /\ UNCHANGED token
  BY DEF ClientStep, Leaving
<1> QED BY <1>1 DEF Leaving, FamilyOf

LEMMA PhoneRefresh ==
    ASSUME Typed, WaitInv, AnswerInv, PhoneInv, NEW p \in Tabs, App(p), NEW k \in Calls, TakeRefresh(p, k)
    PROVE  PhoneAt(p)'
<1>0. PICK b : b = BrowserOf[p]
  OBVIOUS
<1>1. PhoneAt(p) /\ b \in Browsers /\ b \in Native /\ ClientStep(p)
  BY <1>0, ClientSteps DEF PhoneInv, PhoneAt, App
<1>2. /\ call[k].op = "refresh" /\ tab'[p].refresh = None
      /\ \/ /\ call[k].verdict = "ok" /\ call[k].new \in Issued
            /\ cached'[b] = call[k].new
            /\ tab'[p].saves = Append(tab[p].saves, <<"refresh", call[k].new>>)
         \/ /\ call[k].verdict = "ok" /\ call[k].new \in Issued
            /\ UNCHANGED cached /\ tab'[p].saves = tab[p].saves
         \/ call[k].verdict # "ok" /\ UNCHANGED cached /\ tab'[p].saves = tab[p].saves
      /\ cookie'[b] \in {cookie[b], CookieFor(b, k)} /\ UNCHANGED <<token, disk>>
  BY <1>0, <1>1, RefreshCase
<1>3. /\ Grows /\ Asked(p)' = {} /\ \A t : FamilyOf(t)' = FamilyOf(t)
  BY <1>1, <1>2, ClientViews
<1>4. call[k].verdict = "ok" => FamilyOf(call[k].new) = Asked(p)
  BY NewAsked
<1>5. FamilyOf(cookie[b])' \subseteq FamilyOf(cookie[b]) \cup Asked(p)
  BY <1>1, <1>2, <1>4, CookieFamily
<1>6. Entered(p)' = Entered(p) /\ (cached'[b] = None => cached[b] = None /\ Saved(p)' = Saved(p))
  <2>1. CASE call[k].new \in Issued /\ cached'[b] = call[k].new
             /\ tab'[p].saves = Append(tab[p].saves, <<"refresh", call[k].new>>)
    <3>1. PICK t \in Issued : t = call[k].new
      BY <2>1
    <3>2. Entered(p)' = Entered(p) \cup IF "refresh" = "login" THEN FamilyOf(t) ELSE {}
      BY <1>3, <2>1, <3>1, SavesAppended DEF Grows
    <3>3. t # None
      BY NoneApart DEF Issued
    <3> QED BY <2>1, <3>1, <3>2, <3>3
  <2>2. CASE UNCHANGED cached /\ tab'[p].saves = tab[p].saves
    BY <1>3, <2>2, SavesKept DEF Grows
  <2> QED BY <1>2, <2>1, <2>2
<1>7. EmptyAt(p)'
  <2> SUFFICES ASSUME cached'[b] = None
               PROVE  (FamilyOf(cookie[b])' \cup Asked(p)') \cap (FamilyOf(disk[b])' \cup Saved(p)') \subseteq Bad'
    BY <1>0 DEF EmptyAt
  <2>1. (FamilyOf(cookie[b]) \cup Asked(p)) \cap (FamilyOf(disk[b]) \cup Saved(p)) \subseteq Bad
    BY <1>0, <1>1, <1>6 DEF PhoneAt, EmptyAt
  <2>2. FamilyOf(disk[b])' = FamilyOf(disk[b])
    BY <1>2 DEF FamilyOf
  <2> QED BY <1>3, <1>5, <1>6, <2>1, <2>2 DEF Grows
<1>8. EnteringAt(p)'
  BY <1>3 DEF EnteringAt
<1>9. LeavingAt(p)'
  <2> SUFFICES ASSUME Leaving(p)'
               PROVE  FamilyOf(Presented(b))' \cap Entered(p)' \subseteq Bad' \cup FamilyOf(call[tab[p].ask].tok)'
    BY <1>0, <1>3 DEF LeavingAt
  <2>1. Leaving(p) /\ FamilyOf(call[tab[p].ask].tok)' = FamilyOf(call[tab[p].ask].tok)
    BY <1>1, LeavingSame
  <2>2. /\ Asked(p) \cap Saved(p) \subseteq Bad
        /\ FamilyOf(Presented(b)) \cap Entered(p) \subseteq Bad \cup FamilyOf(call[tab[p].ask].tok)
    BY <1>0, <1>1, <2>1 DEF PhoneAt, LeavingAt
  <2>3. FamilyOf(Presented(b))' \subseteq FamilyOf(Presented(b)) \cup Asked(p)
    <3>1. Presented(b) = (IF cached[b] # None THEN cached[b] ELSE cookie[b])
          /\ Presented(b)' = (IF cached'[b] # None THEN cached'[b] ELSE cookie'[b])
      BY <1>1 DEF Presented
    <3>2. CASE call[k].verdict = "ok" /\ call[k].new \in Issued /\ cached'[b] = call[k].new
      <4>1. Presented(b)' = call[k].new
        BY <3>1, <3>2, NoneApart DEF Issued
      <4>2. FamilyOf(Presented(b))' = FamilyOf(call[k].new)
        BY <1>2, <4>1 DEF FamilyOf
      <4> QED BY <1>4, <3>2, <4>2
    <3>3. CASE UNCHANGED cached
      <4>1. CASE cached[b] = None
        <5>1. Presented(b) = cookie[b] /\ Presented(b)' = cookie'[b]
          BY <3>1, <3>3, <4>1
        <5>2. FamilyOf(Presented(b))' = FamilyOf(cookie[b])'
          BY <5>1 DEF FamilyOf
        <5> QED BY <1>5, <5>1, <5>2
      <4>2. CASE cached[b] # None
        <5>1. Presented(b)' = Presented(b)
          BY <3>1, <3>3, <4>2
        <5>2. FamilyOf(Presented(b))' = FamilyOf(Presented(b))
          BY <1>2, <5>1 DEF FamilyOf
        <5> QED BY <5>2
      <4> QED BY <4>1, <4>2
    <3> QED BY <1>2, <3>2, <3>3
  <2>4. Entered(p) \subseteq Saved(p)
    BY OnlyEntered
  <2> QED BY <1>3, <1>6, <2>1, <2>2, <2>3, <2>4 DEF Grows
<1>10. BareAt(p)'
  BY <1>2 DEF BareAt, Bare
<1> QED BY <1>7, <1>8, <1>9, <1>10 DEF PhoneAt

LEMMA PhoneAnswer ==
    ASSUME Typed, WaitInv, AnswerInv, NewInv, PhoneInv, NEW p \in Tabs, App(p), NEW k \in Calls,
           TakeAnswer(p, k)
    PROVE  PhoneAt(p)'
<1>0. PICK b : b = BrowserOf[p]
  OBVIOUS
<1>1. PhoneAt(p) /\ b \in Browsers /\ b \in Native /\ ClientStep(p)
  BY <1>0, ClientSteps DEF PhoneInv, PhoneAt, App
<1>2. /\ call[k].op \in {"login", "logout", "password"} /\ call[k].pc = "answer" /\ tab[p].ask = k
      /\ tab'[p].ask = None /\ tab'[p].refresh = tab[p].refresh
      /\ call[k].op # "logout" => call[k].verdict = "ok" /\ call[k].new \in Issued
      /\ IF call[k].op = "login" THEN tab'[p].saves = Append(tab[p].saves, <<"login", call[k].new>>)
                                 ELSE tab'[p].saves = tab[p].saves
      /\ cached'[b] = CachedAfter(b, k)
      /\ disk'[b] = IF call[k].op = "logout" THEN None ELSE disk[b]
      /\ SetCookie(b, k) /\ cookie'[b] \in {cookie[b], CookieFor(b, k)} /\ UNCHANGED token
  BY <1>0, <1>1, AnswerCase
<1>3. Grows /\ \A t : FamilyOf(t)' = FamilyOf(t)
  BY <1>1, ClientViews
<1>4. Asked(p)' \subseteq Asked(p)
  BY <1>1, ClientViews
<1>5. LeavingAt(p)'
  BY <1>2 DEF LeavingAt, Leaving
<1>bare. Bare(p)' => Bare(p)
  BY <1>1, BareSame
<1>6. CASE call[k].op = "login"
  <2>1. PICK t \in Issued : t = call[k].new
    BY <1>2, <1>6
  <2>2. cached'[b] = t /\ t # None
    BY <1>1, <1>2, <1>6, <2>1, NoneApart DEF CachedAfter, Issued
  <2>3. EmptyAt(p)'
    BY <1>0, <2>2 DEF EmptyAt
  <2>4. Entered(p)' = Entered(p) \cup IF "login" = "login" THEN FamilyOf(t) ELSE {}
    BY <1>2, <1>3, <1>6, <2>1, SavesAppended DEF Grows
  <2>5. Entered(p) = {}
    BY <1>2, <1>6, NoneApart, OnlyEntered DEF WaitInv
  <2>6. FamilyOf(cached[b])' = FamilyOf(t)
    BY <1>2, <2>2 DEF FamilyOf
  <2>7. EnteringAt(p)'
    BY <1>0, <2>4, <2>5, <2>6 DEF EnteringAt
  <2>8. Fresh(k)
    BY <1>2, <1>6, NoneApart DEF Fresh, Issued
  <2>9. FamilyOf(t) \cap Asked(p) = {}
    <3>1. Asked(p) \subseteq Kept(b)
      BY <1>0, KeptParts
    <3> QED BY <1>1, <2>1, <2>8, <3>1 DEF NewInv
  <2>10. Saved(p)' = Saved(p) \cup FamilyOf(t)
    BY <1>2, <1>3, <1>6, <2>1, SavesAppended DEF Grows
  <2>11. FamilyOf(disk[b])' = FamilyOf(disk[b])
    BY <1>2, <1>6 DEF FamilyOf
  <2>12. BareAt(p)'
    <3> SUFFICES ASSUME Bare(p)'
                 PROVE  Asked(p)' \cap (FamilyOf(cached[b])' \cup FamilyOf(disk[b])' \cup Saved(p)') \subseteq Bad'
      BY <1>0 DEF BareAt
    <3>1. Asked(p) \cap (FamilyOf(disk[b]) \cup Saved(p)) \subseteq Bad
      BY <1>0, <1>1, <1>bare DEF PhoneAt, BareAt
    <3> QED BY <1>3, <1>4, <2>6, <2>9, <2>10, <2>11, <3>1 DEF Grows
  <2> QED BY <1>5, <2>3, <2>7, <2>12 DEF PhoneAt
<1>7. CASE call[k].op = "password"
  <2>1. cached'[b] = cached[b] /\ disk'[b] = disk[b]
    BY <1>2, <1>7 DEF CachedAfter
  <2>2. Saved(p)' = Saved(p) /\ Entered(p)' = Entered(p)
    BY <1>2, <1>3, <1>7, SavesKept DEF Grows
  <2>3. FamilyOf(cached[b])' = FamilyOf(cached[b]) /\ FamilyOf(disk[b])' = FamilyOf(disk[b])
    BY <1>2, <2>1 DEF FamilyOf
  <2>4. EnteringAt(p)'
    BY <1>0, <1>1, <1>3, <1>4, <2>2, <2>3 DEF PhoneAt, EnteringAt, Grows
  <2>5. Fresh(k)
    BY <1>2, <1>7, NoneApart DEF Fresh, Issued
  <2>6. FamilyOf(call[k].new) \cap (FamilyOf(disk[b]) \cup Saved(p)) = {}
    <3>1. FamilyOf(disk[b]) \subseteq Kept(b) /\ Saved(p) \subseteq Kept(b)
      BY <1>0, KeptParts
    <3> QED BY <1>1, <2>5, <3>1 DEF NewInv
  <2>7. FamilyOf(cookie[b])' \subseteq FamilyOf(cookie[b]) \cup FamilyOf(call[k].new)
    BY <1>1, <1>2, CookieFamily
  <2>8. EmptyAt(p)'
    <3> SUFFICES ASSUME cached'[b] = None
                 PROVE  (FamilyOf(cookie[b])' \cup Asked(p)') \cap (FamilyOf(disk[b])' \cup Saved(p)') \subseteq Bad'
      BY <1>0 DEF EmptyAt
    <3>1. (FamilyOf(cookie[b]) \cup Asked(p)) \cap (FamilyOf(disk[b]) \cup Saved(p)) \subseteq Bad
      BY <1>0, <1>1, <2>1 DEF PhoneAt, EmptyAt
    <3>2. Bad \subseteq Bad'
      BY <1>3 DEF Grows
    <3> QED BY ONLY <1>4, <2>2, <2>3, <2>6, <2>7, <3>1, <3>2
  <2>9. BareAt(p)'
    BY <1>0, <1>1, <1>3, <1>4, <1>bare, <2>2, <2>3 DEF PhoneAt, BareAt, Grows
  <2> QED BY <1>5, <2>4, <2>8, <2>9 DEF PhoneAt
<1>8. CASE call[k].op = "logout"
  <2>1. cached'[b] = None /\ disk'[b] = None
    BY <1>1, <1>2, <1>8 DEF CachedAfter
  <2>2. Saved(p)' = Saved(p) /\ Entered(p)' = Entered(p)
    BY <1>2, <1>3, <1>8, SavesKept DEF Grows
  <2>3. FamilyOf(disk[b])' = {}
    BY <2>1 DEF FamilyOf
  <2>4. FamilyOf(cookie[b])' \subseteq Bad'
    <3>1. CookieFor(b, k) = None
      BY <1>2, <1>8 DEF CookieFor, AnswerInv
    <3>2. CASE cookie'[b] = None
      BY <3>2 DEF FamilyOf
    <3>3. CASE cookie'[b] # None
      <4>1. cookie'[b] = cookie[b] /\ lost' = lost \cup FamilyOf(cookie[b])
        BY <1>2, <2>1, <3>1, <3>3 DEF SetCookie
      <4>2. FamilyOf(cookie[b])' = FamilyOf(cookie[b])
        BY <1>2, <4>1 DEF FamilyOf
      <4>3. FamilyOf(cookie[b])' \subseteq lost'
        BY ONLY <4>1, <4>2
      <4> QED BY ONLY <4>3 DEF Bad
    <3> QED BY <3>2, <3>3
  <2>5. Asked(p) \cap Saved(p) \subseteq Bad
    BY <1>0, <1>1, <1>2, <1>8, NoneApart DEF PhoneAt, LeavingAt, Leaving
  <2>6. EmptyAt(p)'
    <3>1. (FamilyOf(cookie[b])' \cup Asked(p)') \cap (FamilyOf(disk[b])' \cup Saved(p)') \subseteq Bad'
      BY <1>3, <1>4, <2>2, <2>3, <2>4, <2>5 DEF Grows
    <3> QED BY <1>0, <3>1 DEF EmptyAt
  <2>7. Entered(p) \subseteq Saved(p)
    BY OnlyEntered
  <2>8. EnteringAt(p)'
    BY <1>3, <1>4, <2>2, <2>5, <2>7 DEF EnteringAt, Grows
  <2>9. FamilyOf(cached[b])' = {}
    BY <2>1 DEF FamilyOf
  <2>10. BareAt(p)'
    BY <1>0, <1>3, <1>4, <2>2, <2>3, <2>5, <2>9 DEF BareAt, Grows
  <2> QED BY <1>5, <2>6, <2>8, <2>10 DEF PhoneAt
<1> QED BY <1>2, <1>6, <1>7, <1>8

LEMMA PhoneSave ==
    ASSUME Typed, WaitInv, PhoneInv, NEW p \in Tabs, App(p), Save(p)
    PROVE  PhoneAt(p)'
<1>0. PICK b : b = BrowserOf[p]
  OBVIOUS
<1>1. PhoneAt(p) /\ b \in Browsers /\ b \in Native /\ ClientStep(p)
  BY <1>0, ClientSteps DEF PhoneInv, PhoneAt, App
<1>2. /\ tab[p].saves # <<>> /\ tab'[p].saves = Tail(tab[p].saves)
      /\ disk'[b] = Head(tab[p].saves)[2] /\ UNCHANGED <<token, cookie, cached>>
  BY <1>0, SaveCase
<1>3. Grows /\ Asked(p)' \subseteq Asked(p)
  BY <1>1, ClientViews
<1>4. Saved(p) = FamilyOf(Head(tab[p].saves)[2]) \cup Saved(p)' /\ Entered(p)' \subseteq Entered(p)
  BY <1>2, <1>3, SavesWritten DEF Grows
<1>5. /\ FamilyOf(disk[b])' = FamilyOf(Head(tab[p].saves)[2])
      /\ FamilyOf(cookie[b])' = FamilyOf(cookie[b]) /\ FamilyOf(cached[b])' = FamilyOf(cached[b])
      /\ FamilyOf(Presented(b))' = FamilyOf(Presented(b))
  BY <1>2 DEF FamilyOf, Presented
<1>6. Leaving(p)' => Leaving(p) /\ FamilyOf(call[tab[p].ask].tok)' = FamilyOf(call[tab[p].ask].tok)
  BY <1>1, LeavingSame
<1>7. FamilyOf(disk[b])' \cup Saved(p)' \subseteq FamilyOf(disk[b]) \cup Saved(p) /\ Saved(p)' \subseteq Saved(p)
  BY <1>4, <1>5
<1>8. cached'[b] = cached[b] /\ Bad \subseteq Bad'
  BY <1>2, <1>3 DEF Grows
<1> QED BY <1>0, <1>1, <1>3, <1>4, <1>5, <1>6, <1>7, <1>8, BareSame, PhoneFrame

LEMMA PhoneLose ==
    ASSUME Typed, WaitInv, PhoneInv, NEW p \in Tabs, App(p), NEW k \in Calls, Lose(p, k)
    PROVE  PhoneAt(p)'
<1>0. PICK b : b = BrowserOf[p]
  OBVIOUS
<1>1. PhoneAt(p) /\ b \in Browsers /\ b \in Native /\ ClientStep(p)
  BY <1>0, ClientSteps DEF PhoneInv, PhoneAt, App
<1>2. tab'[p].saves = tab[p].saves /\ UNCHANGED <<token, cookie, cached, disk>>
  BY LoseCase
<1>3. Grows /\ Asked(p)' \subseteq Asked(p)
  BY <1>1, ClientViews
<1>4. Saved(p)' = Saved(p) /\ Entered(p)' = Entered(p)
  BY <1>2, <1>3, SavesKept DEF Grows
<1>5. /\ FamilyOf(disk[b])' = FamilyOf(disk[b])
      /\ FamilyOf(cookie[b])' = FamilyOf(cookie[b]) /\ FamilyOf(cached[b])' = FamilyOf(cached[b])
      /\ FamilyOf(Presented(b))' = FamilyOf(Presented(b))
  BY <1>2 DEF FamilyOf, Presented
<1>6. Leaving(p)' => Leaving(p) /\ FamilyOf(call[tab[p].ask].tok)' = FamilyOf(call[tab[p].ask].tok)
  BY <1>1, LeavingSame
<1>7. cached'[b] = cached[b] /\ Bad \subseteq Bad'
  BY <1>2, <1>3 DEF Grows
<1> QED BY <1>0, <1>1, <1>3, <1>4, <1>5, <1>6, <1>7, BareSame, PhoneFrame

LEMMA PhoneReload ==
    ASSUME Typed, WaitInv, NEW p \in Tabs, App(p), Reload(p)
    PROVE  PhoneAt(p)'
<1>0. PICK b : b = BrowserOf[p]
  OBVIOUS
<1>1. b \in Native /\ ClientStep(p)
  BY <1>0, ClientSteps DEF App
<1>2. /\ tab'[p].refresh = None /\ tab'[p].ask = None /\ cached'[b] = disk[b]
      /\ disk[b] = None => FamilyOf(cookie[b]) \subseteq lost'
      /\ UNCHANGED <<token, cookie, disk>>
  BY <1>0, <1>1, ReloadCase
<1>3. Asked(p)' = {}
  BY <1>2 DEF Asked
<1>4. LeavingAt(p)' /\ EnteringAt(p)' /\ BareAt(p)'
  BY <1>2, <1>3 DEF LeavingAt, Leaving, EnteringAt, BareAt
<1>5. EmptyAt(p)'
  <2> SUFFICES ASSUME cached'[b] = None
               PROVE  (FamilyOf(cookie[b])' \cup Asked(p)') \cap (FamilyOf(disk[b])' \cup Saved(p)') \subseteq Bad'
    BY <1>0 DEF EmptyAt
  <2>1. FamilyOf(cookie[b])' = FamilyOf(cookie[b])
    BY <1>2 DEF FamilyOf
  <2>2. FamilyOf(cookie[b])' \subseteq lost'
    BY <1>2, <2>1
  <2>3. FamilyOf(cookie[b])' \subseteq Bad'
    BY ONLY <2>2 DEF Bad
  <2> QED BY <1>3, <2>3
<1> QED BY <1>4, <1>5 DEF PhoneAt

LEMMA PhoneStep == Typed /\ WaitInv /\ AnswerInv /\ NewInv /\ PhoneInv /\ [Next]_vars => PhoneInv'
<1> SUFFICES ASSUME Typed, WaitInv, AnswerInv, NewInv, PhoneInv, [Next]_vars, NEW p \in Tabs, App(p)
             PROVE  PhoneAt(p)'
  BY DEF PhoneInv, PhoneAt, App
<1>1. ASSUME NEW q \in Tabs, Refresh(q) \/ Login(q) \/ Logout(q) \/ ChangePassword(q) PROVE PhoneAt(p)'
  <2>1. PICK op : \E k \in Calls : \E tok \in Maybe(Tokens) : AskStep(q, op, k, tok)
    BY <1>1, AskSteps
  <2>2. PICK k \in Calls, tok \in Maybe(Tokens) : AskStep(q, op, k, tok)
    BY <2>1
  <2>3. CASE q = p
    BY <2>2, <2>3, PhoneAsk
  <2>4. CASE q # p
    BY <2>2, <2>4, PhoneOther
  <2> QED BY <2>3, <2>4
<1>2. ASSUME NEW q \in Tabs,
             \/ \E k \in Calls : TakeRefresh(q, k) \/ TakeAnswer(q, k) \/ Lose(q, k)
             \/ Save(q) \/ Reload(q)
      PROVE  PhoneAt(p)'
  <2>1. CASE q = p
    BY <1>2, <2>1, PhoneRefresh, PhoneAnswer, PhoneLose, PhoneSave, PhoneReload
  <2>2. CASE q # p
    <3>1. ClientStep(q)
      BY <1>2, ClientSteps
    <3> QED BY <2>2, <3>1, PhoneOther
  <2> QED BY <2>1, <2>2
<1>3. CASE ServerStep
  BY <1>3, PhoneOther
<1> QED BY <1>1, <1>2, <1>3, ServerSteps DEF Next

-----------------------------------------------------------------------------
(* Tokens die by rotation, or with their login.                            *)

ReadsAt(k) ==
    \/ FamilyOf(call[k].tok) \subseteq Bad
    \/ /\ call[k].pc # "reuse" /\ ~token[call[k].tok].revoked
       /\ \E p \in Tabs : tab[p].refresh = k
ServingInv == ReadsInv /\ NextLive /\ PresentedInv /\ ChainInv

LEMMA DiesEnded ==
    ASSUME Typed,
           \/ \E k \in Calls : Find(k) \/ Mint(k) \/ RevokeFamily(k) \/ RevokeAll(k)
           \/ \E t \in Tokens : Expire(t)
           \/ UNCHANGED vars
    PROVE  \A t : Token(t) => Died(t)' \subseteq Died(t) \cup Bad'
<1>1. ASSUME NEW F, token' = Revoked(F), ended' = ended \cup F, NEW t, Token(t)
      PROVE  Died(t)' \subseteq Died(t) \cup Bad'
  <2>1. CASE t = None
    BY <2>1 DEF Died
  <2>2. CASE t # None
    <3>1. t \in Tokens
      BY <1>1, <2>2 DEF Token, Issued
    <3>2. token'[t].family = token[t].family /\ token'[t].revoked = (token[t].revoked \/ token[t].family \in F)
      BY <1>1, <3>1, RevokedType
    <3>3. F \subseteq Bad'
      BY <1>1 DEF Bad
    <3> QED BY <2>2, <3>2, <3>3 DEF Died, FamilyOf
  <2> QED BY <2>1, <2>2
<1>2. ASSUME NEW t, Token(t), t # None => token'[t].family = token[t].family /\ token'[t].revoked = token[t].revoked
      PROVE  Died(t)' = Died(t)
  BY <1>2 DEF Died, FamilyOf
<1>3. ASSUME NEW k \in Calls, RevokeFamily(k), NEW t, Token(t) PROVE Died(t)' \subseteq Died(t) \cup Bad'
  <2>1. PICK F : F = FamilyOf(call[k].tok)
    OBVIOUS
  <2> QED BY <1>1, <1>3, <2>1, RevokeFamilyCase
<1>4. ASSUME NEW k \in Calls, RevokeAll(k), NEW t, Token(t) PROVE Died(t)' \subseteq Died(t) \cup Bad'
  <2>1. PICK F : F = Families
    OBVIOUS
  <2> QED BY <1>1, <1>4, <2>1, RevokeAllCase
<1>5. ASSUME NEW k \in Calls, Mint(k), NEW t, Token(t) PROVE Died(t)' \subseteq Died(t) \cup Bad'
  <2>1. PICK u \in Tokens \ Issued : \A v \in Tokens : v # u => token'[v] = token[v]
    BY <1>5, MintCase
  <2>2. t # None => token'[t] = token[t]
    BY <1>5, <2>1 DEF Token, Issued
  <2> QED BY <1>2, <1>5, <2>2
<1>6. ASSUME (\E k \in Calls : Find(k)) \/ UNCHANGED vars, NEW t, Token(t)
      PROVE  Died(t)' \subseteq Died(t) \cup Bad'
  <2>1. UNCHANGED token
    BY <1>6 DEF Find, vars
  <2> QED BY <1>2, <1>6, <2>1
<1>7. ASSUME NEW u \in Tokens, Expire(u), NEW t, Token(t) PROVE Died(t)' \subseteq Died(t) \cup Bad'
  <2>1. t # None => t \in Tokens
    BY <1>7 DEF Token, Issued
  <2> QED BY <1>2, <1>7, <2>1, ExpireCase
<1> QED BY <1>3, <1>4, <1>5, <1>6, <1>7

LEMMA DiesRetired ==
    ASSUME Typed, NEW k \in Calls, Retire(k)
    PROVE  \A t : Token(t) /\ t # call[k].tok => Died(t)' = Died(t)
<1> SUFFICES ASSUME NEW t, Token(t), t # call[k].tok PROVE Died(t)' = Died(t)
  OBVIOUS
<1>1. CASE t = None
  BY <1>1 DEF Died
<1>2. CASE t # None
  <2>1. t \in Tokens
    BY <1>2 DEF Token, Issued
  <2>2. token'[t].family = token[t].family /\ token[t].revoked \in BOOLEAN
        /\ token'[t].revoked = (token[t].revoked \/ t = call[k].tok)
    BY <2>1, RetireCase, RowType DEF Row
  <2> QED BY <2>2 DEF Died, FamilyOf
<1> QED BY <1>1, <1>2

LEMMA DiesWell ==
    ASSUME Typed, WaitInv, ReadsInv,
           \/ \E k \in Calls : Find(k) \/ Mint(k) \/ Retire(k) \/ RevokeFamily(k) \/ RevokeAll(k)
           \/ \E t \in Tokens : Expire(t)
           \/ UNCHANGED vars
    PROVE  /\ Rotated \cup Bad \subseteq Rotated' \cup Bad'
           /\ \A t : Token(t) => Died(t)' \subseteq Died(t) \cup Rotated' \cup Bad'
<1>1. ServerStep
  BY ServerSteps
<1>2. /\ \A p \in Tabs : Rotating(p) \subseteq Rotating(p)'
      /\ \A k \in Calls : FamilyOf(call[k].tok)' = FamilyOf(call[k].tok)
  BY <1>1, ServerViews
<1>3. Rotated \subseteq Rotated'
  BY <1>2 DEF Rotated
<1>4. Bad \subseteq Bad'
  BY <1>1 DEF ServerStep, Grows
<1>5. ASSUME NEW k \in Calls, Retire(k), NEW t, Token(t)
      PROVE  Died(t)' \subseteq Died(t) \cup Rotated' \cup Bad'
  <2>1. CASE t # call[k].tok
    BY <1>5, <2>1, DiesRetired
  <2>2. CASE t = call[k].tok
    <3>1. Working(k) /\ call[k].op = "refresh" /\ call[k].tok \in Issued
      BY <1>5, RetireCase DEF Working
    <3>2. FamilyOf(t)' = FamilyOf(call[k].tok)
      BY <1>1, <1>5, <2>2 DEF ServerStep, Grows, FamiliesKept
    <3>3. Died(t)' \subseteq FamilyOf(t)'
      BY DEF Died
    <3>4. CASE FamilyOf(call[k].tok) \subseteq Bad
      BY <1>4, <3>2, <3>3, <3>4
    <3>5. CASE \E p \in Tabs : tab[p].refresh = k
      <4>1. PICK p \in Tabs : tab[p].refresh = k
        BY <3>5
      <4>2. call'[k].pc = "answer" /\ call'[k].verdict = "ok" /\ k # None
        BY <1>5, RetireCase, AnswerType, NoneApart
      <4>3. tab'[p].refresh = k
        BY <1>1, <4>1 DEF ServerStep
      <4>4. Rotating(p)' = FamilyOf(call[k].tok)'
        BY <4>2, <4>3 DEF Rotating, Asked
      <4>5. Rotating(p)' \subseteq Rotated'
        BY DEF Rotated
      <4> QED BY <1>2, <3>2, <3>3, <4>4, <4>5
    <3> QED BY <3>1, <3>4, <3>5 DEF ReadsInv
  <2> QED BY <2>1, <2>2
<1> QED BY <1>3, <1>4, <1>5, DiesEnded

LEMMA ServingServer ==
    ASSUME Typed, WaitInv, AnswerInv, AloneOut, NewInv, ServingInv,
           \/ \E k \in Calls : Find(k) \/ Mint(k) \/ Retire(k) \/ RevokeFamily(k) \/ RevokeAll(k)
           \/ \E t \in Tokens : Expire(t)
           \/ UNCHANGED vars
    PROVE  ServingInv'
<1>1. ServerStep /\ Bad \subseteq Bad' /\ FamiliesKept
  BY ServerSteps DEF ServerStep, Grows
<1>2. /\ Rotated \cup Bad \subseteq Rotated' \cup Bad'
      /\ \A t : Token(t) => Died(t)' \subseteq Died(t) \cup Rotated' \cup Bad'
  BY DiesWell DEF ServingInv
<1>3. /\ \A p \in Tabs :
                /\ tab'[p] = tab[p] /\ Saves(p)' = Saves(p) /\ Saved(p)' = Saved(p)
                /\ \A i \in Saves(p) : Later(p, i)' = Later(p, i)
      /\ \A b \in Browsers : Presented(b)' = Presented(b)
      /\ \A k \in Calls : /\ FamilyOf(call[k].tok)' = FamilyOf(call[k].tok)
                          /\ Outstanding(k)' => Outstanding(k)
  BY <1>1, ServerViews
<1>4. PresentedInv'
  <2> SUFFICES ASSUME NEW b \in Browsers PROVE Died(Presented(b))' \subseteq Rotated' \cup Bad'
    BY DEF PresentedInv
  <2>1. PICK t : t = Presented(b) /\ t = Presented(b)' /\ Token(t)
    BY <1>3, HeldTokens
  <2>2. Died(t) \subseteq Rotated \cup Bad
    BY <2>1 DEF ServingInv, PresentedInv
  <2>3. Died(Presented(b))' = Died(t)'
    BY <2>1 DEF Died, FamilyOf
  <2> QED BY <1>2, <2>1, <2>2, <2>3
<1>5. ChainInv'
  <2> SUFFICES ASSUME NEW p \in Tabs, App(p) PROVE ChainAt(p)'
    BY DEF ChainInv, App
  <2>1. ChainAt(p)
    BY DEF ServingInv, ChainInv
  <2>2. Died(disk[BrowserOf[p]])' \subseteq Rotated' \cup Bad' \cup Saved(p)'
    <3>0. BrowserOf[p] \in Browsers
      OBVIOUS
    <3>1. PICK t : t = disk[BrowserOf[p]] /\ t = disk'[BrowserOf[p]] /\ Token(t)
      BY <1>1, <3>0, HeldTokens DEF ServerStep
    <3>2. Died(t) \subseteq Rotated \cup Bad \cup Saved(p)
      BY <2>1, <3>1 DEF ChainAt
    <3>3. Died(disk[BrowserOf[p]])' = Died(t)'
      BY <3>1 DEF Died, FamilyOf
    <3> QED BY <1>2, <1>3, <3>1, <3>2, <3>3
  <2>3. ASSUME NEW i \in Saves(p)' PROVE Died(tab[p].saves[i][2])' \subseteq Rotated' \cup Bad' \cup Later(p, i)'
    <3>1. i \in Saves(p) /\ tab'[p] = tab[p]
      BY <1>3, <2>3
    <3>2. PICK t : t = tab[p].saves[i][2] /\ t = tab'[p].saves[i][2] /\ Token(t)
      BY <3>1, HeldTokens
    <3>3. Died(t) \subseteq Rotated \cup Bad \cup Later(p, i)
      BY <2>1, <3>1, <3>2 DEF ChainAt
    <3>4. Died(tab[p].saves[i][2])' = Died(t)'
      BY <3>2 DEF Died, FamilyOf
    <3> QED BY <1>2, <1>3, <3>1, <3>2, <3>3, <3>4
  <2> QED BY <2>2, <2>3 DEF ChainAt
<1>6. ASSUME NEW j \in Calls, Working(j), call[j].op = "refresh", call'[j].pc # "reuse",
             ~token[call[j].tok].revoked => Died(call[j].tok)' \subseteq Bad'
      PROVE  ReadsAt(j)'
  <2>1. ReadsAt(j)
    BY <1>6 DEF ServingInv, ReadsInv, ReadsAt
  <2>2. call'[j].tok = call[j].tok
    BY <1>1 DEF ServerStep
  <2>3. CASE FamilyOf(call[j].tok) \subseteq Bad
    BY <1>1, <1>3, <2>3 DEF ReadsAt
  <2>4. CASE ~token[call[j].tok].revoked /\ \E p \in Tabs : tab[p].refresh = j
    <3>1. \E p \in Tabs : tab'[p].refresh = j
      BY <1>3, <2>4
    <3>2. PICK t : t = call[j].tok
      OBVIOUS
    <3>3. Died(t)' \subseteq Bad'
      <4>1. Died(call[j].tok)' = Died(t)'
        BY <2>2, <3>2 DEF Died, FamilyOf
      <4> QED BY <1>6, <2>4, <4>1
    <3>4. CASE t # None /\ token'[t].revoked
      <4>1. FamilyOf(t)' \subseteq Bad'
        BY <3>3, <3>4 DEF Died
      <4>2. FamilyOf(call[j].tok)' = FamilyOf(t)'
        BY <2>2, <3>2 DEF FamilyOf
      <4> QED BY <4>1, <4>2 DEF ReadsAt
    <3>5. CASE t = None
      BY <2>2, <3>2, <3>5 DEF ReadsAt, FamilyOf
    <3>6. CASE ~token'[t].revoked
      BY <1>6, <2>2, <3>1, <3>2, <3>6 DEF ReadsAt
    <3> QED BY <3>4, <3>5, <3>6
  <2> QED BY <2>1, <2>3, <2>4 DEF ReadsAt
<1>7. ASSUME \A k \in Calls : ~Retire(k) PROVE ReadsInv' /\ NextLive'
  <2>0. \/ \E k \in Calls : Find(k) \/ Mint(k) \/ RevokeFamily(k) \/ RevokeAll(k)
        \/ \E t \in Tokens : Expire(t)
        \/ UNCHANGED vars
    BY <1>7
  <2>1. \A t : Token(t) => Died(t)' \subseteq Died(t) \cup Bad'
    BY <2>0, DiesEnded
  <2>2. ASSUME NEW j \in Calls, Working(j)', call'[j].op = "refresh" PROVE ReadsAt(j)'
    <3>1. Working(j) /\ call[j].op = "refresh"
      <4>1. call[j] \in Request
        BY DEF Typed, TypeOK
      <4> QED BY <1>1, <2>2, <4>1 DEF ServerStep, Working, Request
    <3>2. call'[j].pc = "reuse" => FamilyOf(call[j].tok) \subseteq Bad
      <4> SUFFICES ASSUME call'[j].pc = "reuse" PROVE FamilyOf(call[j].tok) \subseteq Bad
        OBVIOUS
      <4>1. CASE call[j].pc = "reuse"
        BY <3>1, <4>1 DEF ServingInv, ReadsInv
      <4>2. CASE call[j].pc # "reuse"
        <5>1. token[call[j].tok].revoked
          <6>1. ASSUME NEW k \in Calls, Find(k) PROVE token[call[j].tok].revoked
            BY <4>2, <6>1, FindCase
          <6>2. ASSUME NEW k \in Calls, Mint(k) PROVE FALSE
            BY <4>2, <6>2, MintCase
          <6>3. ASSUME NEW k \in Calls, RevokeFamily(k) PROVE FALSE
            <7>1. PICK v \in {"rejected", "closed"} : \A i \in Calls : call'[i] = IF i = k THEN Answer(k, v) ELSE call[i]
              BY <6>3, RevokeFamilyCase
            <7> QED BY <4>2, <7>1, AnswerType
          <6>4. ASSUME NEW k \in Calls, RevokeAll(k) PROVE FALSE
            BY <4>2, <6>4, RevokeAllCase
          <6>5. CASE (\E t \in Tokens : Expire(t)) \/ UNCHANGED vars
            BY <4>2, <6>5 DEF Expire, vars
          <6> QED BY <2>0, <6>1, <6>2, <6>3, <6>4, <6>5
        <5> QED BY <3>1, <5>1 DEF ServingInv, ReadsInv
      <4> QED BY <4>1, <4>2
    <3>3. CASE call'[j].pc = "reuse"
      BY <1>1, <1>3, <3>2, <3>3 DEF ReadsAt
    <3>4. CASE call'[j].pc # "reuse"
      <4>1. PICK t : t = call[j].tok /\ t = call'[j].tok /\ Token(t)
        BY <1>1, HeldTokens DEF ServerStep
      <4>2. Died(call[j].tok)' = Died(t)'
        BY <4>1 DEF Died, FamilyOf
      <4>3. ~token[t].revoked => Died(t) = {}
        BY DEF Died
      <4>4. ~token[call[j].tok].revoked => Died(call[j].tok)' \subseteq Bad'
        BY <2>1, <4>1, <4>2, <4>3
      <4> QED BY <1>6, <3>1, <3>4, <4>4
    <3> QED BY <3>3, <3>4
  <2>3. ReadsInv'
    BY <2>2 DEF ReadsInv, ReadsAt
  <2>4. ASSUME NEW j \in Calls, Outstanding(j)' PROVE Died(call[j].new)' \subseteq Bad'
    <3>1. Outstanding(j)
      BY <1>3, <2>4
    <3>2. CASE call'[j].new = call[j].new
      <4>1. PICK t : t = call[j].new /\ t = call'[j].new /\ Token(t)
        BY <3>2, HeldTokens
      <4>2. Died(call[j].new)' = Died(t)'
        BY <4>1 DEF Died, FamilyOf
      <4>3. Died(t) \subseteq Bad
        BY <3>1, <4>1 DEF ServingInv, NextLive
      <4> QED BY <1>1, <2>1, <4>1, <4>2, <4>3
    <3>3. CASE call'[j].new # call[j].new
      <4>1. \A k \in Calls : ~Find(k) /\ ~RevokeAll(k)
        BY <3>3, FindCase, RevokeAllCase
      <4>2. \A k \in Calls : ~RevokeFamily(k)
        <5> SUFFICES ASSUME NEW k \in Calls, RevokeFamily(k) PROVE FALSE
          OBVIOUS
        <5>1. PICK v \in {"rejected", "closed"} : \A i \in Calls : call'[i] = IF i = k THEN Answer(k, v) ELSE call[i]
          BY RevokeFamilyCase
        <5> QED BY <3>3, <5>1, AnswerType
      <4>3. ~((\E t \in Tokens : Expire(t)) \/ UNCHANGED vars)
        BY <3>3 DEF Expire, vars
      <4>4. PICK k \in Calls : Mint(k)
        BY <2>0, <4>1, <4>2, <4>3
      <4>5. ~token'[call'[j].new].revoked
        BY <3>3, <4>4, MintCase
      <4> QED BY <4>5 DEF Died
    <3> QED BY <3>2, <3>3
  <2>5. NextLive'
    BY <2>4 DEF NextLive
  <2> QED BY <2>3, <2>5
<1>8. ASSUME NEW k \in Calls, Retire(k) PROVE ReadsInv' /\ NextLive'
  <2>1. /\ call[k].pc = "retire" /\ call[k].op = "refresh" /\ call[k].tok \in Issued
        /\ \A j \in Calls : j # k => call'[j] = call[j]
        /\ call'[k].pc = "answer" /\ call'[k].new = call[k].new
    BY <1>8, RetireCase, AnswerType
  <2>2. \A t : Token(t) /\ t # call[k].tok => Died(t)' = Died(t)
    BY <1>8, DiesRetired
  <2>3. Outstanding(k)
    BY <2>1 DEF Outstanding
  <2>4. \A t : FamilyOf(t) \subseteq Bad /\ Token(t) => Died(t)' \subseteq Bad'
    BY <1>1 DEF Died, FamiliesKept
  <2>5. ASSUME NEW j \in Calls, Working(j)', call'[j].op = "refresh" PROVE ReadsAt(j)'
    <3>1. j # k /\ call'[j] = call[j] /\ Working(j) /\ call[j].op = "refresh"
      BY <2>1, <2>5 DEF Working
    <3>2. PICK t : t = call[j].tok /\ Token(t)
      BY HeldTokens
    <3>3. CASE call[j].pc = "reuse"
      <4>1. FamilyOf(call[j].tok) \subseteq Bad
        BY <3>1, <3>3 DEF ServingInv, ReadsInv
      <4> QED BY <1>1, <1>3, <4>1 DEF ReadsAt
    <3>4. CASE call[j].pc # "reuse"
      <4>1. ~token[t].revoked => Died(t)' \subseteq Bad'
        <5>1. CASE t = call[k].tok
          <6>1. FamilyOf(call[j].tok) \cap FamilyOf(call[k].tok) \subseteq overlapped
            BY <2>3, <3>1 DEF AloneOut, Outstanding, Working
          <6>2. FamilyOf(t) \subseteq Bad
            BY <3>2, <5>1, <6>1 DEF Bad
          <6> QED BY <2>4, <3>2, <6>2
        <5>2. CASE t # call[k].tok
          BY <2>2, <3>2, <5>2 DEF Died
        <5> QED BY <5>1, <5>2
      <4>2. Died(call[j].tok)' = Died(t)'
        BY <3>1, <3>2 DEF Died, FamilyOf
      <4> QED BY <1>6, <3>1, <3>2, <3>4, <4>1, <4>2
    <3> QED BY <3>3, <3>4
  <2>6. ReadsInv'
    BY <2>5 DEF ReadsInv, ReadsAt
  <2>7. ASSUME NEW j \in Calls, Outstanding(j)' PROVE Died(call[j].new)' \subseteq Bad'
    <3>1. Outstanding(j) /\ call'[j].new = call[j].new
      BY <1>3, <2>1, <2>7
    <3>2. PICK t : t = call[j].new /\ t = call'[j].new /\ Token(t)
      BY <3>1, HeldTokens
    <3>3. Died(call[j].new)' = Died(t)'
      BY <3>2 DEF Died, FamilyOf
    <3>4. CASE t # call[k].tok
      <4>1. Died(t) \subseteq Bad
        BY <3>1, <3>2 DEF ServingInv, NextLive
      <4> QED BY <1>1, <2>2, <3>2, <3>3, <3>4, <4>1
    <3>5. CASE t = call[k].tok
      <4>1. t # None
        BY <2>1, <3>5, NoneApart DEF Issued
      <4>2. CASE call[j].op = "refresh"
        <5>1. FamilyOf(call[j].new) = FamilyOf(call[j].tok) /\ call[j].new # call[j].tok
          BY <3>2, <4>1, <4>2 DEF AnswerInv
        <5>2. j # k
          BY <3>2, <3>5, <5>1
        <5>3. FamilyOf(call[j].tok) \cap FamilyOf(call[k].tok) \subseteq overlapped
          BY <2>3, <3>1, <5>2 DEF AloneOut
        <5>4. FamilyOf(t) \subseteq Bad
          BY <3>2, <3>5, <5>1, <5>3 DEF Bad
        <5> QED BY <2>4, <3>2, <3>3, <5>4
      <4>3. CASE call[j].op # "refresh"
        <5>1. Fresh(j)
          BY <3>2, <4>1, <4>3 DEF AnswerInv, Fresh
        <5>2. FamilyOf(call[j].new) \cap FamilyOf(call[k].tok) = {}
          BY <5>1 DEF NewInv
        <5>3. FamilyOf(t) = {token[t].family}
          BY <4>1 DEF FamilyOf
        <5> QED BY <3>2, <3>5, <5>2, <5>3
      <4> QED BY <4>2, <4>3
    <3> QED BY <3>4, <3>5
  <2>8. NextLive'
    BY <2>7 DEF NextLive
  <2> QED BY <2>6, <2>8
<1> QED BY <1>4, <1>5, <1>7, <1>8 DEF ServingInv

-----------------------------------------------------------------------------
(* What the clients do.                                                    *)

\* A client that asks presents a live token, or overlaps its own rotation.
LEMMA ServingAsk ==
    ASSUME Typed, WaitInv, ServingInv, NEW p \in Tabs, NEW op, NEW k \in Calls, NEW tok \in Maybe(Tokens),
           AskStep(p, op, k, tok)
    PROVE  ServingInv'
<1>1. /\ Bad \subseteq Bad'
      /\ \A q \in Tabs : /\ Saves(q)' = Saves(q) /\ Saved(q)' = Saved(q) /\ tab'[q].saves = tab[q].saves
                         /\ \A i \in Saves(q) : Later(q, i)' = Later(q, i)
                         /\ Rotating(q)' = Rotating(q)
      /\ \A b \in Browsers : Presented(b)' = Presented(b)
      /\ \A j \in Calls : j # k /\ Outstanding(j)' => Outstanding(j)
      /\ \A t : Died(t)' = Died(t) /\ FamilyOf(t)' = FamilyOf(t)
  BY AskViews DEF Grows
<1>2. Rotated' = Rotated
  BY <1>1 DEF Rotated
<1>3. PresentedInv'
  <2> SUFFICES ASSUME NEW b \in Browsers PROVE Died(Presented(b))' \subseteq Rotated' \cup Bad'
    BY DEF PresentedInv
  <2>1. PICK t : t = Presented(b) /\ t = Presented(b)'
    BY <1>1
  <2>2. Died(Presented(b))' = Died(t)'
    BY <2>1 DEF Died, FamilyOf
  <2>3. Died(t) \subseteq Rotated \cup Bad
    BY <2>1 DEF ServingInv, PresentedInv
  <2> QED BY <1>1, <1>2, <2>2, <2>3
<1>4. ChainInv'
  <2> SUFFICES ASSUME NEW q \in Tabs, App(q) PROVE ChainAt(q)'
    BY DEF ChainInv, App
  <2>1. ChainAt(q)
    BY DEF ServingInv, ChainInv
  <2>2. Died(disk[BrowserOf[q]])' = Died(disk[BrowserOf[q]])
    BY DEF AskStep, Died, FamilyOf
  <2>3. ASSUME NEW i \in Saves(q)' PROVE Died(tab[q].saves[i][2])' \subseteq Rotated' \cup Bad' \cup Later(q, i)'
    <3>1. i \in Saves(q) /\ tab'[q].saves = tab[q].saves
      BY <1>1, <2>3
    <3>2. Died(tab[q].saves[i][2])' = Died(tab[q].saves[i][2])
      BY <3>1 DEF AskStep, Died, FamilyOf
    <3>3. Died(tab[q].saves[i][2]) \subseteq Rotated \cup Bad \cup Later(q, i)
      BY <2>1, <3>1 DEF ChainAt
    <3> QED BY <1>1, <1>2, <3>1, <3>2, <3>3
  <2> QED BY <1>1, <1>2, <2>1, <2>2, <2>3 DEF ChainAt
<1>5. ASSUME NEW j \in Calls, Working(j)', call'[j].op = "refresh" PROVE ReadsAt(j)'
  <2>1. CASE j # k
    <3>1. call'[j] = call[j] /\ UNCHANGED token
      BY <2>1 DEF AskStep
    <3>2. ReadsAt(j)
      BY <1>5, <3>1 DEF ServingInv, ReadsInv, ReadsAt, Working
    <3>3. FamilyOf(call[j].tok)' = FamilyOf(call[j].tok)
      BY <3>1 DEF FamilyOf
    <3>4. (\E q \in Tabs : tab[q].refresh = j) => \E q \in Tabs : tab'[q].refresh = j
      BY NoneApart DEF AskStep
    <3> QED BY <1>1, <3>1, <3>2, <3>3, <3>4 DEF ReadsAt
  <2>2. CASE j = k
    <3>1. /\ op = "refresh" /\ tok = Presented(BrowserOf[p]) /\ call'[k].tok = tok /\ call'[k].pc = "sent"
          /\ tab'[p].refresh = k /\ UNCHANGED token /\ overlapped' \subseteq Bad'
      BY <1>5, <2>2 DEF AskStep, Bad
    <3>2. FamilyOf(call[k].tok)' = FamilyOf(tok)
      BY <3>1 DEF FamilyOf
    <3>3. CASE tok = None
      BY <2>2, <3>2, <3>3 DEF ReadsAt, FamilyOf
    <3>4. CASE tok # None /\ token[tok].revoked
      <4>1. FamilyOf(tok) \subseteq Rotated \cup Bad
        <5>1. Died(tok) = FamilyOf(tok)
          BY <3>4 DEF Died
        <5> QED BY <3>1, <5>1 DEF ServingInv, PresentedInv
      <4>2. ASSUME NEW q \in Tabs PROVE FamilyOf(tok) \cap Rotating(q) \subseteq overlapped'
        <5>1. CASE /\ tab[q].refresh # None
                   /\ call[tab[q].refresh].pc = "answer" /\ call[tab[q].refresh].verdict = "ok"
          <6>1. PICK j0 \in Calls : j0 = tab[q].refresh
            BY <5>1, HeldTokens
          <6>2. Outstanding(j0)
            BY <5>1, <6>1 DEF Outstanding, Waits
          <6>3. FamilyOf(tok) \cap FamilyOf(call[j0].tok) \subseteq overlapped'
            BY <6>2 DEF AskStep
          <6> QED BY <5>1, <6>1, <6>3 DEF Rotating, Asked
        <5>2. CASE ~(/\ tab[q].refresh # None
                     /\ call[tab[q].refresh].pc = "answer" /\ call[tab[q].refresh].verdict = "ok")
          BY <5>2 DEF Rotating
        <5> QED BY <5>1, <5>2
      <4>3. FamilyOf(tok) \cap Rotated \subseteq overlapped'
        BY <4>2 DEF Rotated
      <4>4. FamilyOf(tok) \subseteq Bad'
        BY <1>1, <3>1, <4>1, <4>3
      <4> QED BY <2>2, <3>2, <4>4 DEF ReadsAt
    <3>5. CASE tok # None /\ ~token[tok].revoked
      BY <2>2, <3>1, <3>5 DEF ReadsAt
    <3> QED BY <3>3, <3>4, <3>5
  <2> QED BY <2>1, <2>2
<1>6. ReadsInv'
  BY <1>5 DEF ReadsInv, ReadsAt
<1>7. NextLive'
  <2> SUFFICES ASSUME NEW j \in Calls, Outstanding(j)' PROVE Died(call[j].new)' \subseteq Bad'
    BY DEF NextLive
  <2>1. CASE j = k
    BY <2>1 DEF AskStep, Died
  <2>2. CASE j # k
    <3>1. call'[j] = call[j] /\ Outstanding(j) /\ UNCHANGED token
      BY <1>1, <2>2 DEF AskStep
    <3>2. Died(call[j].new)' = Died(call[j].new)
      BY <3>1 DEF Died, FamilyOf
    <3> QED BY <1>1, <3>1, <3>2 DEF ServingInv, NextLive
  <2> QED BY <2>1, <2>2
<1> QED BY <1>3, <1>4, <1>6, <1>7 DEF ServingInv

\* A step of a client disturbs its own rotation only.
LEMMA RotatedClient ==
    ASSUME Typed, WaitInv, NEW p \in Tabs, ClientStep(p)
    PROVE  /\ Rotated \subseteq Rotated' \cup Rotating(p) /\ Rotating(p) \subseteq Asked(p)
           /\ tab'[p].refresh = tab[p].refresh => Rotated \subseteq Rotated'
<1>1. \A q \in Tabs \ {p} : Rotating(q)' = Rotating(q)
  BY ClientViews
<1>2. Rotated \subseteq Rotated' \cup Rotating(p)
  BY <1>1 DEF Rotated
<1>3. ASSUME tab'[p].refresh = tab[p].refresh PROVE Rotating(p) \subseteq Rotating(p)'
  <2>1. CASE tab'[p].refresh = None
    BY <1>3, <2>1 DEF Rotating
  <2>2. CASE tab'[p].refresh # None
    BY <2>2, ClientViews
  <2> QED BY <2>1, <2>2
<1>4. Rotating(p)' \subseteq Rotated'
  BY DEF Rotated
<1> QED BY <1>2, <1>3, <1>4 DEF Rotating

\* The other clients: a rotation is of a login of the client's own.
LEMMA ServingOthers ==
    ASSUME Typed, WaitInv, HomeInv, ServingInv, NEW p \in Tabs, ClientStep(p)
    PROVE  /\ \A c \in Browsers \ {BrowserOf[p]} : Died(Presented(c))' \subseteq Rotated' \cup Bad'
           /\ \A q \in Tabs \ {p} : App(q) => ChainAt(q)'
<1>0. PICK b \in Browsers : b = BrowserOf[p]
  OBVIOUS
<1>1. Rotated \subseteq Rotated' \cup Rotating(p) /\ Rotating(p) \subseteq Kept(b)
  BY <1>0, RotatedClient, KeptParts
<1>2. /\ Bad \subseteq Bad' /\ UNCHANGED token
      /\ \A t : Died(t)' = Died(t)
      /\ \A q \in Tabs \ {p} : /\ tab'[q] = tab[q] /\ Saves(q)' = Saves(q) /\ Saved(q)' = Saved(q)
                               /\ \A i \in Saves(q) : Later(q, i)' = Later(q, i)
      /\ \A c \in Browsers \ {b} : Presented(c)' = Presented(c)
  BY <1>0, ClientViews DEF Grows
<1>3. \A t : Died(t) \subseteq FamilyOf(t)
  BY DEF Died
<1>4. ASSUME NEW c \in Browsers \ {b} PROVE Died(Presented(c))' \subseteq Rotated' \cup Bad'
  <2>1. PICK t : t = Presented(c) /\ t = Presented(c)'
    BY <1>2
  <2>2. Died(Presented(c))' = Died(t)'
    BY <2>1 DEF Died, FamilyOf
  <2>3. Died(t) \subseteq Rotated \cup Bad
    BY <2>1 DEF ServingInv, PresentedInv
  <2>4. FamilyOf(t) \subseteq Kept(c)
    BY <2>1 DEF Presented, Kept
  <2>5. Kept(c) \cap Kept(b) = {}
    BY <1>4 DEF HomeInv
  <2> QED BY <1>1, <1>2, <1>3, <2>2, <2>3, <2>4, <2>5
<1>5. ASSUME NEW q \in Tabs \ {p}, App(q) PROVE ChainAt(q)'
  <2>0. PICK c \in Browsers : c = BrowserOf[q]
    OBVIOUS
  <2>1. c # b
    BY <1>0, <1>5, <2>0, AppAssumption DEF App
  <2>2. Kept(c) \cap Kept(b) = {}
    BY <2>1 DEF HomeInv
  <2>3. FamilyOf(disk[c]) \subseteq Kept(c) /\ Saved(q) \subseteq Kept(c)
    BY <2>0, KeptParts
  <2>4. ChainAt(q)
    BY <1>5 DEF ServingInv, ChainInv
  <2>5. Died(disk[c])' = Died(disk[c])
    BY <1>0, <2>1 DEF ClientStep, Died, FamilyOf
  <2>6. Died(disk[c])' \subseteq Rotated' \cup Bad' \cup Saved(q)'
    <3>1. Died(disk[c]) \subseteq Rotated \cup Bad \cup Saved(q)
      BY <2>0, <2>4 DEF ChainAt
    <3> QED BY <1>1, <1>2, <1>3, <2>2, <2>3, <2>5, <3>1
  <2>7. ASSUME NEW i \in Saves(q)' PROVE Died(tab[q].saves[i][2])' \subseteq Rotated' \cup Bad' \cup Later(q, i)'
    <3>1. i \in Saves(q) /\ tab'[q] = tab[q]
      BY <1>2, <2>7
    <3>2. PICK t : t = tab[q].saves[i][2] /\ t = tab'[q].saves[i][2]
      BY <3>1
    <3>3. Died(tab[q].saves[i][2])' = Died(t)'
      BY <3>2 DEF Died, FamilyOf
    <3>4. Died(t) \subseteq Rotated \cup Bad \cup Later(q, i)
      BY <2>4, <3>1, <3>2 DEF ChainAt
    <3>5. FamilyOf(t) \subseteq Saved(q)
      BY <3>1, <3>2 DEF Saved
    <3> QED BY <1>1, <1>2, <1>3, <2>2, <2>3, <3>1, <3>3, <3>4, <3>5
  <2> QED BY <2>0, <2>6, <2>7 DEF ChainAt
<1> QED BY <1>0, <1>4, <1>5

\* It remains what the client itself presents, stores, and still waits for.
LEMMA ServingClient ==
    ASSUME Typed, WaitInv, HomeInv, ServingInv, NEW p \in Tabs, ClientStep(p),
           \/ tab'[p].refresh = tab[p].refresh
           \/ call'[tab[p].refresh].pc = "over"
           \/ Asked(p) \subseteq Bad',
           Died(Presented(BrowserOf[p]))' \subseteq Rotated' \cup Bad',
           App(p) => ChainAt(p)'
    PROVE  ServingInv'
<1>1. PresentedInv' /\ ChainInv'
  BY ServingOthers DEF PresentedInv, ChainInv, App
<1>2. /\ Bad \subseteq Bad' /\ UNCHANGED token
      /\ \A t : Died(t)' = Died(t)
      /\ \A q \in Tabs \ {p} : tab'[q] = tab[q]
      /\ \A k \in Calls : /\ call'[k] = call[k] \/ call'[k] = [NoCall EXCEPT !.pc = "over"]
                          /\ Outstanding(k)' => Outstanding(k) /\ call'[k] = call[k]
  BY ClientViews DEF Grows
<1>3. ASSUME NEW j \in Calls, Working(j)', call'[j].op = "refresh" PROVE ReadsAt(j)'
  <2>1. call'[j] = call[j]
    BY <1>2, <1>3 DEF Working, NoCall
  <2>2. ReadsAt(j)
    BY <1>3, <2>1 DEF ServingInv, ReadsInv, ReadsAt, Working
  <2>3. FamilyOf(call[j].tok)' = FamilyOf(call[j].tok)
    BY <1>2, <2>1 DEF FamilyOf
  <2>4. CASE FamilyOf(call[j].tok) \subseteq Bad
    BY <1>2, <2>3, <2>4 DEF ReadsAt
  <2>5. CASE /\ call[j].pc # "reuse" /\ ~token[call[j].tok].revoked
             /\ \E q \in Tabs : tab[q].refresh = j
    <3>1. PICK q \in Tabs : tab[q].refresh = j
      BY <2>5
    <3>2. CASE tab'[q].refresh = j
      BY <1>2, <2>1, <2>5, <3>2 DEF ReadsAt
    <3>3. CASE tab'[q].refresh # j
      <4>1. q = p
        BY <1>2, <3>1, <3>3
      <4>2. call'[j].pc # "over"
        BY <1>3 DEF Working
      <4>3. Asked(p) \subseteq Bad'
        BY <3>1, <3>3, <4>1, <4>2
      <4>4. Asked(p) = FamilyOf(call[j].tok)
        BY <3>1, <4>1, NoneApart DEF Asked
      <4> QED BY <2>3, <4>3, <4>4 DEF ReadsAt
    <3> QED BY <3>2, <3>3
  <2> QED BY <2>2, <2>4, <2>5 DEF ReadsAt
<1>4. ReadsInv'
  BY <1>3 DEF ReadsInv, ReadsAt
<1>5. NextLive'
  <2> SUFFICES ASSUME NEW j \in Calls, Outstanding(j)' PROVE Died(call[j].new)' \subseteq Bad'
    BY DEF NextLive
  <2>1. call'[j] = call[j] /\ Outstanding(j)
    BY <1>2
  <2>2. Died(call[j].new)' = Died(call[j].new)
    BY <1>2, <2>1 DEF Died, FamilyOf
  <2> QED BY <1>2, <2>1, <2>2 DEF ServingInv, NextLive
<1> QED BY <1>1, <1>4, <1>5 DEF ServingInv

\* Set-Cookie is obeyed, or what a phone presents next is given up.
LEMMA CookieSet ==
    ASSUME Typed, NEW b \in Browsers, NEW k \in Calls, SetCookie(b, k)
    PROVE  \/ cookie'[b] = CookieFor(b, k)
           \/ /\ b \in Native /\ cookie'[b] = cookie[b]
              /\ cached'[b] = None => FamilyOf(cookie[b]) \subseteq Bad'
<1>1. cookie \in [Browsers -> Maybe(Tokens)]
  BY JarType
<1>2. CASE cookie' = [cookie EXCEPT ![b] = CookieFor(b, k)]
  BY <1>1, <1>2
<1>3. CASE b \in Native /\ UNCHANGED cookie
  <2>1. cookie'[b] = cookie[b]
    BY <1>3
  <2>2. CASE cookie'[b] = CookieFor(b, k)
    BY <2>2
  <2>3. CASE cached'[b] = None /\ cookie'[b] # CookieFor(b, k)
    <3>1. lost' = lost \cup FamilyOf(cookie[b])
      BY <2>3 DEF SetCookie
    <3>2. FamilyOf(cookie[b]) \subseteq lost'
      BY ONLY <3>1
    <3> QED BY <1>3, <2>1, <3>2 DEF Bad
  <2> QED BY <1>3, <2>1, <2>2, <2>3
<1> QED BY <1>2, <1>3 DEF SetCookie

LEMMA OverPc == [NoCall EXCEPT !.pc = "over"].pc = "over"
BY DEF NoCall

\* What a phone presents after an answer.
LEMMA PresentedNext ==
    ASSUME Typed, NEW b \in Browsers, NEW k \in Calls, UNCHANGED token, Bad \subseteq Bad', SetCookie(b, k),
           Died(CookieFor(b, k)) \subseteq Bad,
           Died(Presented(b)) \subseteq Rotated' \cup Bad,
           b \in Native /\ cached'[b] # None => cached'[b] = cached[b] \/ Died(cached'[b]) \subseteq Bad
    PROVE  Died(Presented(b))' \subseteq Rotated' \cup Bad'
<1>1. PICK t : t = Presented(b)'
  OBVIOUS
<1>2. Died(Presented(b))' = Died(t)
  BY <1>1 DEF Died, FamilyOf
<1>3. Died(t) \subseteq FamilyOf(t)
  BY DEF Died
<1>4. CASE b \in Native /\ cached'[b] # None
  <2>1. t = cached'[b]
    BY <1>1, <1>4 DEF Presented
  <2>2. CASE cached'[b] = cached[b]
    <3>1. Presented(b) = t
      BY <1>4, <2>1, <2>2 DEF Presented
    <3> QED BY <1>2, <3>1
  <2>3. CASE Died(cached'[b]) \subseteq Bad
    BY <1>2, <2>1, <2>3
  <2> QED BY <1>4, <2>2, <2>3
<1>5. CASE ~(b \in Native /\ cached'[b] # None)
  <2>1. t = cookie'[b]
    BY <1>1, <1>5 DEF Presented
  <2>2. CASE cookie'[b] = CookieFor(b, k)
    BY <1>2, <2>1, <2>2
  <2>3. CASE b \in Native /\ cookie'[b] = cookie[b] /\ (cached'[b] = None => FamilyOf(cookie[b]) \subseteq Bad')
    BY <1>2, <1>3, <1>5, <2>1, <2>3
  <2> QED BY <2>2, <2>3, CookieSet
<1> QED BY <1>4, <1>5

\* What a phone stores, when the writes it waits for are the same.
LEMMA ChainSame ==
    ASSUME Typed, WaitInv, NEW p \in Tabs, ChainAt(p), UNCHANGED token, FamiliesKept,
           Bad \subseteq Bad', tab'[p].saves = tab[p].saves,
           disk'[BrowserOf[p]] \in {disk[BrowserOf[p]], None},
           Rotated \cap (FamilyOf(disk[BrowserOf[p]]) \cup Saved(p)) \subseteq Rotated' \cup Bad'
    PROVE  ChainAt(p)'
<1>1. Saves(p)' = Saves(p) /\ Saved(p)' = Saved(p) /\ \A i \in Saves(p) : Later(p, i)' = Later(p, i)
  BY SavesKept
<1>2. \A t : Died(t) \subseteq FamilyOf(t)
  BY DEF Died
<1>3. Died(disk[BrowserOf[p]])' \subseteq Rotated' \cup Bad' \cup Saved(p)'
  <2>1. CASE disk'[BrowserOf[p]] = None
    BY <2>1 DEF Died
  <2>2. CASE disk'[BrowserOf[p]] = disk[BrowserOf[p]]
    <3>1. Died(disk[BrowserOf[p]])' = Died(disk[BrowserOf[p]])
      BY <2>2 DEF Died, FamilyOf
    <3>2. Died(disk[BrowserOf[p]]) \subseteq Rotated \cup Bad \cup Saved(p)
      BY DEF ChainAt
    <3> QED BY <1>1, <1>2, <3>1, <3>2
  <2> QED BY <2>1, <2>2
<1>4. ASSUME NEW i \in Saves(p)' PROVE Died(tab[p].saves[i][2])' \subseteq Rotated' \cup Bad' \cup Later(p, i)'
  <2>1. i \in Saves(p)
    BY <1>1, <1>4
  <2>2. Died(tab[p].saves[i][2])' = Died(tab[p].saves[i][2])
    BY DEF Died, FamilyOf
  <2>3. Died(tab[p].saves[i][2]) \subseteq Rotated \cup Bad \cup Later(p, i)
    BY <2>1 DEF ChainAt
  <2>4. FamilyOf(tab[p].saves[i][2]) \subseteq Saved(p)
    BY <2>1 DEF Saved
  <2> QED BY <1>1, <1>2, <2>1, <2>2, <2>3, <2>4
<1> QED BY <1>3, <1>4 DEF ChainAt

\* What a phone stores, when it has a live token to write too.
LEMMA ChainGrows ==
    ASSUME Typed, WaitInv, NEW p \in Tabs, ChainAt(p), UNCHANGED token, FamiliesKept,
           Bad \subseteq Bad', NEW kind \in {"refresh", "login"}, NEW t \in Issued,
           tab'[p].saves = Append(tab[p].saves, <<kind, t>>), Died(t) \subseteq Bad,
           disk'[BrowserOf[p]] = disk[BrowserOf[p]],
           Rotated \subseteq Rotated' \cup FamilyOf(t)
    PROVE  ChainAt(p)'
<1>1. /\ Saved(p)' = Saved(p) \cup FamilyOf(t)
      /\ \A i \in Saves(p)' : \/ /\ i \in Saves(p) /\ tab'[p].saves[i] = tab[p].saves[i]
                                 /\ Later(p, i)' = Later(p, i) \cup FamilyOf(t)
                              \/ tab'[p].saves[i][2] = t
  BY SavesAppended
<1>2. Died(disk[BrowserOf[p]])' \subseteq Rotated' \cup Bad' \cup Saved(p)'
  <2>1. Died(disk[BrowserOf[p]])' = Died(disk[BrowserOf[p]])
    BY DEF Died, FamilyOf
  <2>2. Died(disk[BrowserOf[p]]) \subseteq Rotated \cup Bad \cup Saved(p)
    BY DEF ChainAt
  <2> QED BY <1>1, <2>1, <2>2
<1>3. ASSUME NEW i \in Saves(p)' PROVE Died(tab[p].saves[i][2])' \subseteq Rotated' \cup Bad' \cup Later(p, i)'
  <2>1. CASE tab'[p].saves[i][2] = t
    <3>1. Died(tab[p].saves[i][2])' = Died(t)
      BY <2>1 DEF Died, FamilyOf
    <3> QED BY <3>1
  <2>2. CASE i \in Saves(p) /\ tab'[p].saves[i] = tab[p].saves[i] /\ Later(p, i)' = Later(p, i) \cup FamilyOf(t)
    <3>1. Died(tab[p].saves[i][2])' = Died(tab[p].saves[i][2])
      BY <2>2 DEF Died, FamilyOf
    <3>2. Died(tab[p].saves[i][2]) \subseteq Rotated \cup Bad \cup Later(p, i)
      BY <2>2 DEF ChainAt
    <3> QED BY <2>2, <3>1, <3>2
  <2> QED BY <1>1, <2>1, <2>2
<1> QED BY <1>2, <1>3 DEF ChainAt

LEMMA ServingRefresh ==
    ASSUME Typed, WaitInv, AnswerInv, HomeInv, PhoneInv, ServingInv, NEW p \in Tabs, NEW k \in Calls,
           TakeRefresh(p, k)
    PROVE  ServingInv'
<1>0. PICK b \in Browsers : b = BrowserOf[p]
  OBVIOUS
<1>1. ClientStep(p)
  BY ClientSteps
<1>2. /\ call[k].pc = "answer" /\ tab[p].refresh = k
      /\ \/ /\ call[k].verdict = "ok" /\ call[k].new \in Issued
            /\ b \in Native /\ call[k].body /\ cached'[b] = call[k].new
            /\ tab'[p].saves = Append(tab[p].saves, <<"refresh", call[k].new>>)
         \/ /\ call[k].verdict = "ok" /\ call[k].new \in Issued
            /\ ~(b \in Native /\ call[k].body) /\ UNCHANGED cached
            /\ tab'[p].saves = tab[p].saves
         \/ call[k].verdict # "ok" /\ UNCHANGED cached /\ tab'[p].saves = tab[p].saves
      /\ SetCookie(b, k) /\ UNCHANGED <<token, disk>>
  BY <1>0, RefreshCase
<1>over. call'[k].pc = "over"
  <2>1. call'[k] = [NoCall EXCEPT !.pc = "over"]
    BY <1>0, RefreshCase
  <2> QED BY <2>1, OverPc
<1>3. FamiliesKept /\ Bad \subseteq Bad'
  BY <1>1, ClientViews DEF Grows
<1>4. Rotated \subseteq Rotated' \cup Rotating(p) /\ Rotating(p) \subseteq Asked(p)
  BY <1>1, RotatedClient
<1>5. Died(call[k].new) \subseteq Bad
  <2>1. Outstanding(k)
    BY <1>2 DEF Outstanding, Waits
  <2> QED BY <2>1 DEF ServingInv, NextLive
<1>6. call[k].verdict = "ok" => FamilyOf(call[k].new) = Asked(p)
  BY NewAsked
<1>7. call[k].verdict # "ok" => Rotating(p) = {}
  BY <1>2 DEF Rotating
<1>8. App(p) => ChainAt(p)
  BY DEF ServingInv, ChainInv
<1>9. Died(Presented(b)) \subseteq Rotated \cup Bad /\ \A t : Died(t) \subseteq FamilyOf(t)
  BY DEF ServingInv, PresentedInv, Died
<1>bare. b \in Native /\ ~call[k].body =>
            Asked(p) \cap (FamilyOf(cached[b]) \cup FamilyOf(disk[b]) \cup Saved(p)) \subseteq Bad
  BY <1>0, <1>2, NoneApart DEF PhoneInv, App, BareAt, Bare
<1>10. CASE call[k].verdict = "ok"
  <2>1. CookieFor(b, k) = call[k].new
    BY <1>10 DEF CookieFor
  <2>2. Died(Presented(b))' \subseteq Rotated' \cup Bad'
    <3>1. PICK t : t = Presented(b)'
      OBVIOUS
    <3>2. Died(Presented(b))' = Died(t)
      BY <1>2, <3>1 DEF Died, FamilyOf
    <3>3. CASE b \in Native /\ cached'[b] = call[k].new /\ call[k].new \in Issued
      <4>1. t = call[k].new
        BY <3>1, <3>3, NoneApart DEF Presented, Issued
      <4> QED BY <1>3, <1>5, <3>2, <4>1
    <3>4. CASE ~(b \in Native /\ cached'[b] # None)
      <4>1. t = cookie'[b]
        BY <3>1, <3>4 DEF Presented
      <4>2. CASE cookie'[b] = CookieFor(b, k)
        BY <1>3, <1>5, <2>1, <3>2, <4>1, <4>2
      <4>3. CASE b \in Native /\ cookie'[b] = cookie[b] /\ (cached'[b] = None => FamilyOf(cookie[b]) \subseteq Bad')
        BY <1>9, <3>2, <3>4, <4>1, <4>3
      <4> QED BY <1>2, <4>2, <4>3, CookieSet
    <3>5. CASE b \in Native /\ ~call[k].body /\ cached'[b] # None /\ UNCHANGED cached
      <4>1. t = cached[b] /\ t = Presented(b)
        BY <3>1, <3>5 DEF Presented
      <4>2. Died(t) \subseteq Rotated' \cup Asked(p) \cup Bad /\ Died(t) \subseteq FamilyOf(cached[b])
        BY <1>4, <1>9, <4>1
      <4>3. Asked(p) \cap FamilyOf(cached[b]) \subseteq Bad
        BY <1>bare, <3>5
      <4> QED BY ONLY <1>3, <3>2, <4>2, <4>3
    <3> QED BY <1>2, <1>10, <3>3, <3>4, <3>5
  <2>3. ASSUME App(p) PROVE ChainAt(p)'
    <3>1. CASE call[k].new \in Issued /\ tab'[p].saves = Append(tab[p].saves, <<"refresh", call[k].new>>)
      <4>1. PICK t \in Issued : t = call[k].new
        BY <3>1
      <4>2. Rotated \subseteq Rotated' \cup FamilyOf(t) /\ Died(t) \subseteq Bad
        BY <1>4, <1>5, <1>6, <1>10, <4>1
      <4>3. tab'[p].saves = Append(tab[p].saves, <<"refresh", t>>)
        BY <3>1, <4>1
      <4> QED BY <1>2, <1>3, <1>8, <2>3, <4>2, <4>3, ChainGrows
    <3>2. CASE ~(b \in Native /\ call[k].body) /\ tab'[p].saves = tab[p].saves
      <4>1. b \in Native /\ ~call[k].body
        BY <1>0, <2>3, <3>2 DEF App
      <4>2. Asked(p) \cap (FamilyOf(disk[b]) \cup Saved(p)) \subseteq Bad
        BY <1>bare, <4>1
      <4>3. Rotated \cap (FamilyOf(disk[BrowserOf[p]]) \cup Saved(p)) \subseteq Rotated' \cup Bad'
        BY <1>0, <1>3, <1>4, <4>2
      <4> QED BY <1>2, <1>3, <1>8, <2>3, <3>2, <4>3, ChainSame
    <3> QED BY <1>2, <1>10, <3>1, <3>2
  <2> QED BY <1>0, <1>1, <1>2, <1>over, <2>2, <2>3, ServingClient
<1>11. CASE call[k].verdict # "ok"
  <2>1. Rotated \subseteq Rotated' /\ UNCHANGED cached /\ tab'[p].saves = tab[p].saves
    BY <1>2, <1>4, <1>7, <1>11
  <2>2. Died(Presented(b))' \subseteq Rotated' \cup Bad'
    <3>1. CookieFor(b, k) \in {None, cookie[b]}
      BY <1>11 DEF CookieFor
    <3>2. cookie'[b] \in {None, cookie[b]}
      BY <1>2, <3>1, CookieSet
    <3>3. PICK t : t = Presented(b)'
      OBVIOUS
    <3>4. Died(Presented(b))' = Died(t)
      BY <1>2, <3>3 DEF Died, FamilyOf
    <3>5. t = Presented(b) \/ t = None
      BY <2>1, <3>2, <3>3 DEF Presented
    <3>6. Died(None) = {}
      BY DEF Died
    <3> QED BY <1>3, <1>9, <2>1, <3>4, <3>5, <3>6
  <2>3. App(p) => ChainAt(p)'
    BY <1>2, <1>3, <1>8, <2>1, ChainSame
  <2> QED BY <1>0, <1>1, <1>2, <1>over, <2>2, <2>3, ServingClient
<1> QED BY <1>10, <1>11

LEMMA ServingAnswer ==
    ASSUME Typed, WaitInv, AnswerInv, HomeInv, ServingInv, NEW p \in Tabs, NEW k \in Calls, TakeAnswer(p, k)
    PROVE  ServingInv'
<1>0. PICK b \in Browsers : b = BrowserOf[p]
  OBVIOUS
<1>1. ClientStep(p)
  BY ClientSteps
<1>2. /\ call[k].op \in {"login", "logout", "password"} /\ call[k].pc = "answer" /\ tab[p].ask = k
      /\ tab'[p].refresh = tab[p].refresh
      /\ call[k].op # "logout" => call[k].verdict = "ok" /\ call[k].new \in Issued
      /\ IF call[k].op = "login" /\ b \in Native
         THEN tab'[p].saves = Append(tab[p].saves, <<"login", call[k].new>>)
         ELSE tab'[p].saves = tab[p].saves
      /\ cached'[b] = CachedAfter(b, k)
      /\ disk'[b] = IF call[k].op = "logout" THEN None ELSE disk[b]
      /\ SetCookie(b, k) /\ UNCHANGED token
  BY <1>0, AnswerCase
<1>3. FamiliesKept /\ Bad \subseteq Bad'
  BY <1>1, ClientViews DEF Grows
<1>4. Rotated \subseteq Rotated'
  BY <1>1, <1>2, RotatedClient
<1>5. Died(call[k].new) \subseteq Bad /\ Died(None) = {}
  <2>1. Outstanding(k)
    BY <1>2 DEF Outstanding, Waits
  <2> QED BY <2>1 DEF ServingInv, NextLive, Died
<1>6. Died(CookieFor(b, k)) \subseteq Bad
  <2>1. CASE call[k].op = "logout"
    <3>1. CookieFor(b, k) = None
      BY <1>2, <2>1 DEF CookieFor, AnswerInv
    <3> QED BY <1>5, <3>1
  <2>2. CASE call[k].op # "logout"
    <3>1. CookieFor(b, k) = call[k].new
      BY <1>2, <2>2 DEF CookieFor
    <3> QED BY <1>5, <3>1
  <2> QED BY <2>1, <2>2
<1>7. Died(Presented(b)) \subseteq Rotated' \cup Bad
  BY <1>4 DEF ServingInv, PresentedInv
<1>8. b \in Native /\ cached'[b] # None => cached'[b] = cached[b] \/ Died(cached'[b]) \subseteq Bad
  <2>1. cached'[b] \in {cached[b], None, call[k].new}
    BY <1>2 DEF CachedAfter
  <2> QED BY <1>5, <2>1
<1>9. Died(Presented(b))' \subseteq Rotated' \cup Bad'
  BY <1>2, <1>3, <1>6, <1>7, <1>8, PresentedNext
<1>10. ASSUME App(p) PROVE ChainAt(p)'
  <2>1. ChainAt(p) /\ b \in Native
    BY <1>0, <1>10 DEF ServingInv, ChainInv, App
  <2>2. CASE call[k].op = "login"
    <3>1. PICK t \in Issued : t = call[k].new
      BY <1>2, <2>2
    <3>2. tab'[p].saves = Append(tab[p].saves, <<"login", t>>) /\ disk'[BrowserOf[p]] = disk[BrowserOf[p]]
      BY <1>0, <1>2, <2>1, <2>2, <3>1
    <3> QED BY <1>2, <1>3, <1>4, <1>5, <2>1, <3>1, <3>2, ChainGrows
  <2>3. CASE call[k].op # "login"
    <3>1. tab'[p].saves = tab[p].saves /\ disk'[BrowserOf[p]] \in {disk[BrowserOf[p]], None}
      BY <1>0, <1>2, <2>3
    <3> QED BY <1>2, <1>3, <1>4, <2>1, <3>1, ChainSame
  <2> QED BY <2>2, <2>3
<1> QED BY <1>0, <1>1, <1>2, <1>9, <1>10, ServingClient

LEMMA ServingSave ==
    ASSUME Typed, WaitInv, HomeInv, ServingInv, NEW p \in Tabs, Save(p)
    PROVE  ServingInv'
<1>0. PICK b \in Browsers : b = BrowserOf[p]
  OBVIOUS
<1>1. ClientStep(p)
  BY ClientSteps
<1>2. /\ tab[p].saves # <<>> /\ tab'[p].saves = Tail(tab[p].saves) /\ tab'[p].refresh = tab[p].refresh
      /\ disk'[b] = Head(tab[p].saves)[2] /\ UNCHANGED <<token, cookie, cached>>
  BY <1>0, SaveCase
<1>3. FamiliesKept /\ Bad \subseteq Bad'
  BY <1>1, ClientViews DEF Grows
<1>4. Rotated \subseteq Rotated'
  BY <1>1, <1>2, RotatedClient
<1>5. Died(Presented(b))' \subseteq Rotated' \cup Bad'
  <2>1. Died(Presented(b))' = Died(Presented(b))
    BY <1>2 DEF Died, FamilyOf, Presented
  <2> QED BY <1>3, <1>4, <2>1 DEF ServingInv, PresentedInv
<1>6. ASSUME App(p) PROVE ChainAt(p)'
  <2>1. ChainAt(p)
    BY <1>6 DEF ServingInv, ChainInv
  <2>2. PICK h : h = Head(tab[p].saves)[2]
    OBVIOUS
  <2>3. /\ 1 \in Saves(p) /\ h = tab[p].saves[1][2] /\ Later(p, 1) = Saved(p)'
        /\ \A i \in Saves(p)' : /\ i + 1 \in Saves(p) /\ tab'[p].saves[i] = tab[p].saves[i + 1]
                                /\ Later(p, i)' = Later(p, i + 1)
    BY <1>2, <1>3, <2>2, SavesWritten
  <2>4. Died(disk[b])' \subseteq Rotated' \cup Bad' \cup Saved(p)'
    <3>1. Died(disk[b])' = Died(h)
      BY <1>2, <2>2 DEF Died, FamilyOf
    <3>2. Died(h) \subseteq Rotated \cup Bad \cup Later(p, 1)
      BY <2>1, <2>3 DEF ChainAt
    <3> QED BY <1>3, <1>4, <2>3, <3>1, <3>2
  <2>5. ASSUME NEW i \in Saves(p)' PROVE Died(tab[p].saves[i][2])' \subseteq Rotated' \cup Bad' \cup Later(p, i)'
    <3>1. PICK n \in Saves(p) : n = i + 1 /\ tab'[p].saves[i] = tab[p].saves[n] /\ Later(p, i)' = Later(p, n)
      BY <2>3, <2>5
    <3>2. Died(tab[p].saves[i][2])' = Died(tab[p].saves[n][2])
      BY <1>2, <3>1 DEF Died, FamilyOf
    <3>3. Died(tab[p].saves[n][2]) \subseteq Rotated \cup Bad \cup Later(p, n)
      BY <2>1 DEF ChainAt
    <3> QED BY <1>3, <1>4, <3>1, <3>2, <3>3
  <2> QED BY <1>0, <2>4, <2>5 DEF ChainAt
<1> QED BY <1>0, <1>1, <1>2, <1>5, <1>6, ServingClient

LEMMA ServingLose ==
    ASSUME Typed, WaitInv, HomeInv, ServingInv, NEW p \in Tabs, NEW k \in Calls, Lose(p, k)
    PROVE  ServingInv'
<1>0. PICK b \in Browsers : b = BrowserOf[p]
  OBVIOUS
<1>1. ClientStep(p)
  BY ClientSteps
<1>2. /\ call'[k].pc = "over"
      /\ IF tab[p].refresh = k THEN tab'[p].refresh = None ELSE tab'[p].refresh = tab[p].refresh
      /\ tab'[p].saves = tab[p].saves
      /\ lost' = IF call[k].pc = "answer" THEN lost \cup FamilyOf(call[k].tok) ELSE lost
      /\ UNCHANGED <<token, cookie, cached, disk>>
  BY LoseCase, OverPc
<1>3. FamiliesKept /\ Bad \subseteq Bad'
  BY <1>1, ClientViews DEF Grows
<1>4. Rotated \subseteq Rotated' \cup Bad'
  <2>1. CASE tab[p].refresh # k
    BY <1>1, <1>2, <2>1, RotatedClient
  <2>2. CASE tab[p].refresh = k /\ call[k].pc # "answer"
    <3>1. Rotating(p) = {}
      BY <2>2 DEF Rotating
    <3> QED BY <1>1, <3>1, RotatedClient
  <2>3. CASE tab[p].refresh = k /\ call[k].pc = "answer"
    <3>1. Asked(p) \subseteq FamilyOf(call[k].tok)
      BY <2>3 DEF Asked
    <3>2. lost' = lost \cup FamilyOf(call[k].tok)
      BY <1>2, <2>3
    <3>3. lost' \subseteq Bad'
      BY DEF Bad
    <3> QED BY <1>1, <3>1, <3>2, <3>3, RotatedClient
  <2> QED BY <2>1, <2>2, <2>3
<1>5. Died(Presented(b))' \subseteq Rotated' \cup Bad'
  <2>1. Died(Presented(b))' = Died(Presented(b))
    BY <1>2 DEF Died, FamilyOf, Presented
  <2> QED BY <1>3, <1>4, <2>1 DEF ServingInv, PresentedInv
<1>6. ASSUME App(p) PROVE ChainAt(p)'
  <2>1. ChainAt(p)
    BY <1>6 DEF ServingInv, ChainInv
  <2> QED BY <1>2, <1>3, <1>4, <2>1, ChainSame
<1> QED BY <1>0, <1>1, <1>2, <1>5, <1>6, ServingClient

LEMMA ServingReload ==
    ASSUME Typed, WaitInv, HomeInv, ServingInv, NEW p \in Tabs, Reload(p)
    PROVE  ServingInv'
<1>0. PICK b \in Browsers : b = BrowserOf[p]
  OBVIOUS
<1>1. ClientStep(p)
  BY ClientSteps
<1>2. /\ tab'[p].saves = <<>>
      /\ cached'[b] = IF b \in Native THEN disk[b] ELSE cached[b]
      /\ Saved(p) \subseteq lost' /\ Asked(p) \subseteq lost'
      /\ b \in Native /\ disk[b] = None => FamilyOf(cookie[b]) \subseteq lost'
      /\ UNCHANGED <<token, cookie, disk>>
  BY <1>0, ReloadCase
<1>3. /\ Bad \subseteq Bad' /\ lost' \subseteq Bad' /\ \A t : Died(t) \subseteq FamilyOf(t)
  BY <1>1, ClientViews DEF Grows, Bad, Died
<1>4. Rotated \subseteq Rotated' \cup Bad'
  BY <1>1, <1>2, <1>3, RotatedClient
<1>5. ASSUME App(p) PROVE Died(disk[b]) \subseteq Rotated' \cup Bad'
  <2>1. Died(disk[b]) \subseteq Rotated \cup Bad \cup Saved(p)
    BY <1>0, <1>5 DEF ServingInv, ChainInv, ChainAt
  <2> QED BY <1>2, <1>3, <1>4, <2>1
<1>6. Died(Presented(b))' \subseteq Rotated' \cup Bad'
  <2>1. PICK t : t = Presented(b)'
    OBVIOUS
  <2>2. Died(Presented(b))' = Died(t)
    BY <1>2, <2>1 DEF Died, FamilyOf
  <2>3. CASE b \notin Native
    <3>1. t = Presented(b)
      BY <1>2, <2>1, <2>3 DEF Presented
    <3> QED BY <1>3, <1>4, <2>2, <3>1 DEF ServingInv, PresentedInv
  <2>4. CASE b \in Native /\ disk[b] # None
    <3>1. t = disk[b]
      BY <1>2, <2>1, <2>4 DEF Presented
    <3> QED BY <1>0, <1>5, <2>2, <2>4, <3>1 DEF App
  <2>5. CASE b \in Native /\ disk[b] = None
    <3>1. t = cookie[b]
      BY <1>2, <2>1, <2>5 DEF Presented
    <3> QED BY <1>2, <1>3, <2>2, <2>5, <3>1
  <2> QED BY <2>3, <2>4, <2>5
<1>7. ASSUME App(p) PROVE ChainAt(p)'
  <2>1. Saves(p)' = {}
    BY <1>2 DEF Saves
  <2>2. Died(disk[b])' = Died(disk[b])
    BY <1>2 DEF Died, FamilyOf
  <2> QED BY <1>0, <1>5, <1>7, <2>1, <2>2 DEF ChainAt
<1> QED BY <1>0, <1>1, <1>2, <1>3, <1>6, <1>7, ServingClient

LEMMA ServingStep ==
    Typed /\ WaitInv /\ AnswerInv /\ AloneOut /\ HomeInv /\ NewInv /\ PhoneInv /\ ServingInv /\ [Next]_vars
        => ServingInv'
<1> SUFFICES ASSUME Typed, WaitInv, AnswerInv, AloneOut, HomeInv, NewInv, PhoneInv, ServingInv, [Next]_vars
             PROVE  ServingInv'
  OBVIOUS
<1>1. CASE \/ \E k \in Calls : Find(k) \/ Mint(k) \/ Retire(k) \/ RevokeFamily(k) \/ RevokeAll(k)
           \/ \E t \in Tokens : Expire(t)
           \/ UNCHANGED vars
  BY <1>1, ServingServer
<1>2. ASSUME NEW p \in Tabs, Refresh(p) \/ Login(p) \/ Logout(p) \/ ChangePassword(p) PROVE ServingInv'
  BY <1>2, AskSteps, ServingAsk
<1>3. ASSUME NEW p \in Tabs, \/ \E k \in Calls : TakeRefresh(p, k) \/ TakeAnswer(p, k) \/ Lose(p, k)
                             \/ Save(p) \/ Reload(p)
      PROVE  ServingInv'
  BY <1>3, ServingRefresh, ServingAnswer, ServingLose, ServingSave, ServingReload
<1> QED BY <1>1, <1>2, <1>3 DEF Next

LEMMA HonestStep == Typed /\ HonestInv /\ [Next]_vars => HonestInv'
<1> SUFFICES ASSUME Typed, HonestInv, [Next]_vars PROVE HonestInv'
  OBVIOUS
<1>1. WaitInv /\ AnswerInv /\ AloneOut /\ HomeInv /\ NewInv /\ PhoneInv /\ ServingInv
  BY DEF HonestInv, ServingInv
<1>2. WaitInv' /\ AnswerInv' /\ AloneOut'
  BY <1>1, WaitStep, AnswerStep, OutStep
<1>3. HomeInv' /\ NewInv' /\ PhoneInv'
  BY <1>1, HomeStep, PhoneStep
<1>4. ServingInv'
  BY <1>1, ServingStep
<1> QED BY <1>2, <1>3, <1>4 DEF HonestInv, ServingInv

\* Reuse detection never accuses an honest client: whoever presents a revoked
\* token, its login was ended on purpose, had two requests at once, or lost an
\* answer or a storage write.
THEOREM NoneAccused == Spec => []NoFalseAlarm
<1>1. Typed /\ HonestInv => NoFalseAlarm
  <2> SUFFICES ASSUME Typed, HonestInv, NEW k \in Calls, call[k].pc = "reuse"
               PROVE  FamilyOf(call[k].tok) \subseteq overlapped \cup ended \cup lost
    BY DEF NoFalseAlarm
  <2>1. Working(k) /\ call[k].op = "refresh"
    BY DEF Typed, CallInv, Working
  <2> QED BY <2>1 DEF HonestInv, ReadsInv, Bad
<1>2. Typed /\ HonestInv /\ [Next]_vars => (Typed /\ HonestInv)'
  BY TypedStep, HonestStep
<1>3. Init => Typed /\ HonestInv
  BY TypedInit, HonestInit
<1> QED BY <1>1, <1>2, <1>3, PTL DEF Spec
=============================================================================
