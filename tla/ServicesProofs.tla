--------------------------- MODULE ServicesProofs ---------------------------
(***************************************************************************)
(* TLAPS proofs about services behind the chats: tokens and OAuth          *)
(* sessions, accounts, the dictionary of models and the plugins, for any   *)
(* number of requests, processes, sessions, accounts, models and texts.    *)
(* Each service has variables of its own, and so a specification, an       *)
(* inductive invariant and a theorem of its own.                           *)
(***************************************************************************)
EXTENDS SignIn, Accounts, ModelCache, Plugins, FiniteSetTheorems, TLAPS

-----------------------------------------------------------------------------
(* Tokens and OAuth sessions                                               *)

TokenRow == [who : Person, iat : Nat]
SessRow == [owner : Person, gen : Nat, expires : Nat, created : Nat]
ErrandRow == [do : {"none", "login", "add", "refresh", "store", "delete"}, s : OAuthSession \cup {None},
              gen : Nat, seen : SUBSET [s : OAuthSession, at : Nat], who : Person \cup {None}]

TokenTypes ==
    /\ second \in Nat
    /\ token \in [Token -> TokenRow \cup {None}]
    /\ tokenMark \in [Token -> Nat] /\ userMark \in [Person -> [at : Nat, until : Nat]]
    /\ ended \subseteq Token

SessTypes ==
    /\ sess \in [OAuthSession -> SessRow \cup {None}] /\ grant \in [OAuthSession -> Nat]
    /\ errand \in [Refresher -> ErrandRow]
    /\ closed \subseteq OAuthSession /\ dropped \subseteq OAuthSession
    /\ \A r \in Refresher :
          /\ errand[r].do \in {"login", "add"} => errand[r].who \in Person /\ IsFiniteSet(errand[r].seen)
          /\ errand[r].do \in {"refresh", "store", "delete"} => errand[r].s \in OAuthSession

(* What ended has a mark that lasts until it would have expired by itself.   *)
EndedInv ==
    /\ \A t \in Token : token[t] # None => token[t].iat <= second
    /\ \A t \in ended :
          /\ token[t] # None
          /\ \/ tokenMark[t] >= token[t].iat + Lifetime
             \/ /\ userMark[token[t].who].until >= token[t].iat + Lifetime
                /\ token[t].iat <= userMark[token[t].who].at

(* A provider that does not rotate is always asked with a token it accepts.  *)
ClosedInv ==
    /\ closed \cap Sessions = {}
    /\ ~Rotates => /\ dropped = {} /\ \A s \in Sessions : sess[s].gen # 0
                   /\ \A r \in Refresher : errand[r].do \in {"refresh", "store"} => errand[r].gen # 0

(* Why overlapping sign-ins exceed the limit by no more than their number:   *)
(* but for fewer sessions than the limit, each session of a user stands for  *)
(* a request of its own, the one that added it, and no request adds while a  *)
(* session stands for it: it lists that session and trims first.             *)
Known == Sessions \cup closed
Listed(r) == {x.s : x \in errand[r].seen}
Fits(p, Old, f) ==
    /\ Old \subseteq Known /\ IsFiniteSet(Old) /\ Cardinality(Old) <= MaxSessions - 1
    /\ \A s \in Of(p) \ Old : f[s] \in Refresher
    /\ \A s, q \in Of(p) \ Old : f[s] = f[q] => s = q
    /\ \A s \in Of(p) \ Old :
          LET r == f[s] IN
          errand[r].who = p => /\ errand[r].do # "add"
                               /\ errand[r].do = "login" => (Old \cap Of(p)) \cup {s} \subseteq Listed(r)

ListingInv ==
    /\ \A r \in Refresher : errand[r].do \in {"login", "add"} => Listed(r) \subseteq Known
    /\ \A p \in Person, r, q \in Refresher :
          /\ errand[r].do = "login" /\ errand[r].who = p
          /\ errand[q].do = "login" /\ errand[q].who = p
          => Listed(r) \cap Of(p) \subseteq Listed(q) \/ Listed(q) \cap Of(p) \subseteq Listed(r)
CountInv ==
    \A p \in Person : \E Old \in SUBSET OAuthSession, f \in [OAuthSession -> Refresher \cup {None}] : Fits(p, Old, f)

SignIInv == TokenTypes /\ SessTypes /\ EndedInv /\ ClosedInv /\ ListingInv /\ CountInv

\* The rows of sign-ins that are written literally have their types.
LEMMA SignRows ==
    /\ NoErrand \in ErrandRow /\ None \notin TokenRow /\ None \notin SessRow
    /\ \A e \in ErrandRow : e.do # "none" => e # NoErrand
BY SignInAssumption DEF NoErrand, ErrandRow, TokenRow, SessRow

\* Sign-ins start without tokens, sessions and marks.
LEMMA SignInitIInv == SignInit => SignIInv
<1> SUFFICES ASSUME SignInit PROVE SignIInv
    OBVIOUS
<1> USE SignInAssumption DEF SignInit
<1>0. Sessions = {} /\ \A p \in Person : Of(p) = {}
    BY DEF Sessions, Of
<1>1. TokenTypes
    BY DEF TokenTypes
<1>2. SessTypes
    BY SignRows DEF SessTypes, NoErrand
<1>3. EndedInv
    BY DEF EndedInv
<1>4. ClosedInv
    BY <1>0 DEF ClosedInv, NoErrand
<1>5. ListingInv
    BY DEF ListingInv, NoErrand
<1>6. CountInv
  <2> DEFINE f == [s \in OAuthSession |-> None]
  <2>1. \A p \in Person : Fits(p, {}, f)
      BY <1>0, FS_EmptySet DEF Fits
  <2>2. f \in [OAuthSession -> Refresher \cup {None}]
      OBVIOUS
  <2> HIDE DEF f
  <2> QED BY <2>1, <2>2 DEF CountInv
<1> QED BY <1>1, <1>2, <1>3, <1>4, <1>5, <1>6 DEF SignIInv

(* Nothing a step deletes, and no request that is past its listing, disturbs *)
(* the bound: it is kept by every step that only lets sessions go.           *)
LEMMA CountKept ==
    ASSUME ListingInv, CountInv, Known \subseteq Known', \A p \in Person : Of(p)' \subseteq Of(p),
           \A r \in Refresher : errand'[r].do \in {"login", "add"} => errand'[r] = errand[r],
           \A r \in Refresher : errand[r].do \in {"login", "add"} => errand[r].who \in Person
    PROVE  ListingInv' /\ CountInv'
<1>1. \A r \in Refresher : errand'[r].do \in {"login", "add"} => Listed(r)' = Listed(r)
    BY DEF Listed
<1>2. ListingInv'
  <2>1. \A r \in Refresher : errand'[r].do \in {"login", "add"} => Listed(r)' \subseteq Known'
      BY <1>1 DEF ListingInv
  <2>2. ASSUME NEW p \in Person, NEW r \in Refresher, NEW q \in Refresher,
               errand'[r].do = "login", errand'[r].who = p, errand'[q].do = "login", errand'[q].who = p
        PROVE  Listed(r)' \cap Of(p)' \subseteq Listed(q)' \/ Listed(q)' \cap Of(p)' \subseteq Listed(r)'
    <3>1. errand'[r] = errand[r] /\ errand'[q] = errand[q]
        BY <2>2
    <3>2. Listed(r) \cap Of(p) \subseteq Listed(q) \/ Listed(q) \cap Of(p) \subseteq Listed(r)
        BY <2>2, <3>1 DEF ListingInv
    <3>3. Of(p)' \subseteq Of(p) /\ Listed(r)' = Listed(r) /\ Listed(q)' = Listed(q)
        BY <1>1, <2>2
    <3> QED BY <3>2, <3>3
  <2> QED BY <2>1, <2>2 DEF ListingInv
<1>3. CountInv'
  <2> SUFFICES ASSUME NEW p \in Person
               PROVE  \E Old \in SUBSET OAuthSession, f \in [OAuthSession -> Refresher \cup {None}] : Fits(p, Old, f)'
      BY DEF CountInv
  <2>1. PICK Old \in SUBSET OAuthSession, f \in [OAuthSession -> Refresher \cup {None}] : Fits(p, Old, f)
      BY DEF CountInv
  <2>2. Of(p)' \subseteq Of(p)
      OBVIOUS
  <2>3. \A s \in Of(p)' \ Old : errand'[f[s]].who = p =>
            /\ errand'[f[s]].do # "add"
            /\ errand'[f[s]].do = "login" => (Old \cap Of(p)') \cup {s} \subseteq Listed(f[s])'
    <3> TAKE s \in Of(p)' \ Old
    <3>1. s \in Of(p) \ Old /\ f[s] \in Refresher
        BY <2>1, <2>2 DEF Fits
    <3> DEFINE r == f[s]
    <3>2. errand[r].who = p => /\ errand[r].do # "add"
                               /\ errand[r].do = "login" => (Old \cap Of(p)) \cup {s} \subseteq Listed(r)
        BY <2>1, <3>1 DEF Fits
    <3> QED BY <1>1, <2>2, <3>1, <3>2
  <2> QED BY <2>1, <2>2, <2>3 DEF Fits
<1> QED BY <1>2, <1>3

(* The marks put on a user's tokens outlive every token issued so far.       *)
LEMMA CutOffKeeps ==
    ASSUME TokenTypes, EndedInv, NEW p \in Person, CutOff(p), UNCHANGED <<token, tokenMark, second>>
    PROVE  TokenTypes' /\ EndedInv'
<1> USE SignInAssumption
<1> DEFINE now == [at |-> second, until |-> second + Lifetime]
<1>1. now \in [at : Nat, until : Nat] /\ now.at = second /\ now.until = second + Lifetime
    BY DEF TokenTypes
<1>2. userMark' = [userMark EXCEPT ![p] = now]
    BY DEF CutOff
<1> HIDE DEF now
<1>3. /\ userMark' \in [Person -> [at : Nat, until : Nat]] /\ userMark'[p] = now
      /\ \A q \in Person : q # p => userMark'[q] = userMark[q]
    BY <1>1, <1>2 DEF TokenTypes
<1>4. TokenTypes'
    BY <1>3 DEF TokenTypes, CutOff
<1>5. ASSUME NEW t \in ended'
      PROVE  /\ token[t] # None
             /\ \/ tokenMark[t] >= token[t].iat + Lifetime
                \/ /\ userMark'[token[t].who].until >= token[t].iat + Lifetime
                   /\ token[t].iat <= userMark'[token[t].who].at
  <2>1. t \in Token /\ token[t] # None
      BY <1>5 DEF CutOff, EndedInv, TokenTypes
  <2>2. token[t].who \in Person /\ token[t].iat \in Nat /\ token[t].iat <= second /\ second \in Nat
      BY <2>1 DEF TokenTypes, TokenRow, EndedInv
  <2>3. CASE token[t].who = p
      BY <2>1, <2>2, <2>3, <1>1, <1>3
  <2>4. CASE token[t].who # p
    <3>1. t \in ended
        BY <1>5, <2>4 DEF CutOff
    <3> QED BY <3>1, <2>1, <2>2, <2>4, <1>3 DEF EndedInv
  <2> QED BY <2>3, <2>4
<1>6. EndedInv'
    BY <1>5 DEF EndedInv
<1> QED BY <1>4, <1>6

(* Deleted sessions are gone, and the rest is as it was.                     *)
LEMMA DeleteKeeps ==
    ASSUME SessTypes, ClosedInv, NEW S, Delete(S)
    PROVE  /\ sess' \in [OAuthSession -> SessRow \cup {None}]
           /\ closed' \subseteq OAuthSession /\ closed' \cap Sessions' = {}
           /\ Known \subseteq Known' /\ \A p \in Person : Of(p)' = Of(p) \ S
           /\ \A s \in Sessions' : s \in Sessions \ S /\ sess'[s] = sess[s]
<1>1. sess' = [s \in OAuthSession |-> IF s \in S THEN None ELSE sess[s]] /\ closed' = closed \cup (S \cap Sessions)
    BY DEF Delete
<1>2. sess' \in [OAuthSession -> SessRow \cup {None}]
    BY <1>1 DEF SessTypes
<1>3. closed' \subseteq OAuthSession
    BY <1>1 DEF SessTypes, Sessions
<1>4. Sessions' = Sessions \ S /\ \A s \in Sessions' : sess'[s] = sess[s]
    BY <1>1 DEF Sessions
<1>5. closed' \cap Sessions' = {} /\ Known \subseteq Known'
    BY <1>1, <1>4 DEF ClosedInv, Known
<1>6. \A p \in Person : Of(p)' = Of(p) \ S
    BY <1>4 DEF Of
<1> QED BY <1>2, <1>3, <1>4, <1>5, <1>6

\* A request that changes only its own errand keeps what is said of sessions.
LEMMA ErrandKeeps ==
    ASSUME SessTypes, NEW r \in Refresher, NEW n \in ErrandRow, errand' = [errand EXCEPT ![r] = n],
           n.do \in {"login", "add"} => n.who \in Person /\ IsFiniteSet(n.seen),
           n.do \in {"refresh", "store", "delete"} => n.s \in OAuthSession
    PROVE  /\ errand' \in [Refresher -> ErrandRow] /\ errand'[r] = n
           /\ \A q \in Refresher : q # r => errand'[q] = errand[q]
           /\ \A q \in Refresher :
                 /\ errand'[q].do \in {"login", "add"} => errand'[q].who \in Person /\ IsFiniteSet(errand'[q].seen)
                 /\ errand'[q].do \in {"refresh", "store", "delete"} => errand'[q].s \in OAuthSession
<1>1. /\ errand' \in [Refresher -> ErrandRow] /\ errand'[r] = n
      /\ \A q \in Refresher : q # r => errand'[q] = errand[q]
    BY DEF SessTypes
<1> QED BY <1>1 DEF SessTypes

(* The sessions of a user are finitely many, since both the old ones and the *)
(* requests that others stand for are.                                       *)
LEMMA SessionsBounded ==
    ASSUME CountInv, NEW p \in Person
    PROVE  IsFiniteSet(Of(p)) /\ Cardinality(Of(p)) <= MaxSessions + Cardinality(Refresher) - 1
<1>1. PICK Old \in SUBSET OAuthSession, f \in [OAuthSession -> Refresher \cup {None}] : Fits(p, Old, f)
    BY DEF CountInv
<1> DEFINE Added == Of(p) \ Old
           g == [s \in Added |-> f[s]]
<1>2. Added \subseteq OAuthSession
    BY DEF Of, Sessions
<1>3. g \in Injection(Added, Refresher)
  <2>1. g \in [Added -> Refresher]
      BY <1>1 DEF Fits
  <2>2. \A s, q \in Added : g[s] = g[q] => s = q
      BY <1>1 DEF Fits
  <2> QED BY <2>1, <2>2 DEF Injection, IsInjective
<1>4. IsFiniteSet(Added) /\ Cardinality(Added) <= Cardinality(Refresher)
    BY <1>3, FS_Injection, SignInAssumption
<1> DEFINE Remaining == Old \cap Of(p)
<1>5. IsFiniteSet(Remaining) /\ Cardinality(Remaining) <= Cardinality(Old)
    BY <1>1, FS_Intersection DEF Fits
<1>6. Of(p) = Remaining \cup Added /\ Remaining \cap Added = {}
    OBVIOUS
<1> HIDE DEF Added, Remaining
<1>7. /\ IsFiniteSet(Remaining \cup Added)
      /\ Cardinality(Remaining \cup Added) = Cardinality(Remaining) + Cardinality(Added) - Cardinality(Remaining \cap Added)
    BY <1>4, <1>5, FS_Union
<1>8. Cardinality(Remaining \cap Added) = 0
    BY <1>6, FS_EmptySet
<1>9. /\ Cardinality(Old) \in Nat /\ Cardinality(Added) \in Nat /\ Cardinality(Refresher) \in Nat
      /\ Cardinality(Remaining) \in Nat
    BY <1>1, <1>4, <1>5, FS_CardinalityType, SignInAssumption DEF Fits
<1>10. Cardinality(Old) <= MaxSessions - 1
    BY <1>1 DEF Fits
<1>11. IsFiniteSet(Of(p)) /\ Cardinality(Of(p)) = Cardinality(Remaining \cup Added)
    BY <1>6, <1>7
<1> QED BY <1>4, <1>5, <1>7, <1>8, <1>9, <1>10, <1>11, SignInAssumption

(* A sign-in lists every session of its user.                                *)
LEMMA ListKeeps ==
    ASSUME SignIInv, NEW r \in Refresher, NEW p \in Person, handle_callback_list(r, p)
    PROVE  SignIInv'
<1> USE SignInAssumption
<1> DEFINE seen == {[s |-> s, at |-> sess[s].created] : s \in Of(p)}
           n == [NoErrand EXCEPT !.do = "login", !.who = p, !.seen = seen]
<1>1. /\ errand' = [errand EXCEPT ![r] = n] /\ errand[r] = NoErrand
      /\ UNCHANGED <<sess, grant, down, closed, dropped, token, tokenMark, userMark, ended, second>>
  <2>1. r = AnIdle /\ errand' = [errand EXCEPT ![r] = [NoErrand EXCEPT !.do = "login", !.who = p, !.seen = seen]]
        /\ UNCHANGED <<sess, grant, down, closed, dropped, token, tokenMark, userMark, ended, second>>
      BY DEF handle_callback_list, SessionsOnly
  <2>2. errand[r] = NoErrand
      BY <2>1 DEF AnIdle
  <2> QED BY <2>1, <2>2
<1>2. \A s \in Of(p) : s \in OAuthSession /\ sess[s].created \in Nat
    BY DEF SignIInv, SessTypes, SessRow, Of, Sessions
<1>3. seen \in SUBSET [s : OAuthSession, at : Nat]
    BY <1>2
<1>4. IsFiniteSet(seen)
  <2> DEFINE h == [s \in Of(p) |-> [s |-> s, at |-> sess[s].created]]
  <2>1. h \in Surjection(Of(p), seen)
      BY DEF Surjection
  <2> QED BY <2>1, SessionsBounded, FS_Surjection DEF SignIInv
<1>5. n \in ErrandRow /\ n.do = "login" /\ n.who = p /\ n.seen = seen
  <2> HIDE DEF seen
  <2> QED BY <1>3 DEF ErrandRow, NoErrand
<1>6. {x.s : x \in seen} = Of(p)
  <2>1. \A s \in Of(p) : [s |-> s, at |-> sess[s].created] \in seen
      OBVIOUS
  <2>2. \A x \in seen : x.s \in Of(p)
      OBVIOUS
  <2>3. \A s \in Of(p) : [s |-> s, at |-> sess[s].created].s = s
      OBVIOUS
  <2> HIDE DEF seen
  <2>4. \A s \in Of(p) : \E x \in seen : x.s = s
      BY <2>1, <2>3
  <2> QED BY <2>2, <2>4
<1> HIDE DEF seen, n
<1>7. SessTypes' /\ errand'[r] = n /\ \A q \in Refresher : q # r => errand'[q] = errand[q]
    BY <1>1, <1>4, <1>5, ErrandKeeps DEF SignIInv, SessTypes
<1>8. TokenTypes' /\ EndedInv'
    BY <1>1 DEF SignIInv, TokenTypes, EndedInv
<1>9. ClosedInv'
    BY <1>1, <1>5, <1>7 DEF SignIInv, ClosedInv, Sessions
<1>10. /\ Listed(r)' = Of(p) /\ \A q \in Refresher : q # r => Listed(q)' = Listed(q)
       /\ Known' = Known /\ \A P : Of(P)' = Of(P)
    BY <1>1, <1>5, <1>6, <1>7 DEF Listed, Known, Of, Sessions
<1>11. Of(p) \subseteq Known
    BY DEF Of, Known
<1>12. ListingInv'
  <2>1. \A q \in Refresher : errand'[q].do \in {"login", "add"} => Listed(q)' \subseteq Known'
      BY <1>7, <1>10, <1>11 DEF SignIInv, ListingInv
  <2>2. ASSUME NEW P \in Person, NEW a \in Refresher, NEW b \in Refresher,
               errand'[a].do = "login", errand'[a].who = P, errand'[b].do = "login", errand'[b].who = P
        PROVE  Listed(a)' \cap Of(P)' \subseteq Listed(b)' \/ Listed(b)' \cap Of(P)' \subseteq Listed(a)'
    <3>1. CASE a = r
        BY <3>1, <2>2, <1>5, <1>7, <1>10
    <3>2. CASE b = r
        BY <3>2, <2>2, <1>5, <1>7, <1>10
    <3>3. CASE a # r /\ b # r
      <4>1. errand'[a] = errand[a] /\ errand'[b] = errand[b]
          BY <3>3, <1>7
      <4>2. Listed(a) \cap Of(P) \subseteq Listed(b) \/ Listed(b) \cap Of(P) \subseteq Listed(a)
          BY <4>1, <2>2 DEF SignIInv, ListingInv
      <4> QED BY <4>2, <3>3, <1>10
    <3> QED BY <3>1, <3>2, <3>3
  <2> QED BY <2>1, <2>2 DEF ListingInv
<1>13. CountInv'
  <2> SUFFICES ASSUME NEW P \in Person
               PROVE  \E Old \in SUBSET OAuthSession, f \in [OAuthSession -> Refresher \cup {None}] : Fits(P, Old, f)'
      BY DEF CountInv
  <2>1. PICK Old \in SUBSET OAuthSession, f \in [OAuthSession -> Refresher \cup {None}] : Fits(P, Old, f)
      BY DEF SignIInv, CountInv
  <2>2. ASSUME NEW s \in Of(P) \ Old, errand'[f[s]].who = P
        PROVE  /\ errand'[f[s]].do # "add"
               /\ errand'[f[s]].do = "login" => (Old \cap Of(P)) \cup {s} \subseteq Listed(f[s])'
    <3>1. f[s] \in Refresher
        BY <2>1 DEF Fits
    <3>2. CASE f[s] = r
        BY <3>2, <2>2, <1>5, <1>7, <1>10
    <3>3. CASE f[s] # r
        BY <3>1, <3>3, <2>1, <2>2, <1>7, <1>10 DEF Fits
    <3> QED BY <3>2, <3>3
  <2> QED BY <2>1, <2>2, <1>10 DEF Fits
<1> QED BY <1>7, <1>8, <1>9, <1>12, <1>13 DEF SignIInv

(* What is left of the listed sessions is below the limit, and those that    *)
(* were added since stand for other requests.                                *)
LEMMA TrimKeeps ==
    ASSUME SignIInv, NEW r \in Refresher, handle_callback_trim(r)
    PROVE  SignIInv'
<1> USE SignInAssumption
<1> DEFINE seen == errand[r].seen
           n == [errand[r] EXCEPT !.do = "add"]
           P == errand[r].who
<1>1. PICK rest \in SUBSET seen : Excess(seen, rest) /\ Delete({x.s : x \in rest})
    BY DEF handle_callback_trim
<1>2. /\ errand' = [errand EXCEPT ![r] = n] /\ errand[r].do = "login"
      /\ UNCHANGED <<grant, down, dropped, token, tokenMark, userMark, ended, second>>
    BY DEF handle_callback_trim, SessionsOnly, SignIInv, SessTypes
<1>3. errand[r] \in ErrandRow /\ P \in Person /\ IsFiniteSet(seen)
    BY <1>2 DEF SignIInv, SessTypes
<1>4. n \in ErrandRow /\ n.do = "add" /\ n.who = P /\ n.seen = seen
    BY <1>3 DEF ErrandRow
<1> DEFINE gone == {x.s : x \in rest}
<1>5. /\ sess' \in [OAuthSession -> SessRow \cup {None}]
      /\ closed' \subseteq OAuthSession /\ closed' \cap Sessions' = {}
      /\ Known \subseteq Known' /\ \A p \in Person : Of(p)' = Of(p) \ gone
      /\ \A s \in Sessions' : s \in Sessions \ gone /\ sess'[s] = sess[s]
    BY <1>1, DeleteKeeps DEF SignIInv
<1>0. PICK left \in SUBSET OAuthSession : left = {x.s : x \in seen \ rest}
  <2>1. \A x \in seen \ rest : x.s \in OAuthSession
      BY <1>3 DEF ErrandRow
  <2> QED BY <2>1
<1>6. IsFiniteSet(left) /\ Cardinality(left) <= MaxSessions - 1
  <2> DEFINE h == [x \in seen \ rest |-> x.s]
  <2>1. h \in Surjection(seen \ rest, left)
      BY <1>0 DEF Surjection
  <2>2. IsFiniteSet(rest) /\ Cardinality(seen \cap rest) = Cardinality(rest)
    <3>1. seen \cap rest = rest
        OBVIOUS
    <3> QED BY <3>1, <1>3, FS_Subset
  <2>3. IsFiniteSet(seen \ rest) /\ Cardinality(seen \ rest) = Cardinality(seen) - Cardinality(rest)
      BY <1>3, <2>2, FS_Difference
  <2>4. IsFiniteSet(left) /\ Cardinality(left) <= Cardinality(seen \ rest)
      BY <2>1, <2>3, FS_Surjection
  <2>5. Cardinality(seen) \in Nat /\ Cardinality(rest) \in Nat /\ Cardinality(left) \in Nat
      BY <1>3, <2>2, <2>4, FS_CardinalityType
  <2>6. Cardinality(rest) = IF Cardinality(seen) >= MaxSessions THEN Cardinality(seen) + 1 - MaxSessions ELSE 0
      BY <1>1 DEF Excess
  <2> HIDE DEF seen
  <2> QED BY <2>3, <2>4, <2>5, <2>6
<1>7. Listed(r) \subseteq gone \cup left
    BY <1>0 DEF Listed
<1>8. left \subseteq Known /\ left \subseteq Listed(r)
    BY <1>0, <1>2 DEF Listed, SignIInv, ListingInv
<1> HIDE DEF gone, n, seen
<1>9. SessTypes' /\ errand'[r] = n /\ \A q \in Refresher : q # r => errand'[q] = errand[q]
    BY <1>2, <1>3, <1>4, <1>5, ErrandKeeps DEF SignIInv, SessTypes
<1>10. TokenTypes' /\ EndedInv'
    BY <1>2 DEF SignIInv, TokenTypes, EndedInv
<1>11. ClosedInv'
    BY <1>2, <1>4, <1>5, <1>9 DEF SignIInv, ClosedInv
<1>12. Listed(r)' = Listed(r) /\ \A q \in Refresher : q # r => Listed(q)' = Listed(q)
    BY <1>4, <1>9 DEF Listed, seen
<1>13. ListingInv'
  <2>1. \A q \in Refresher : errand'[q].do \in {"login", "add"} => Listed(q)' \subseteq Known'
      BY <1>2, <1>5, <1>9, <1>12 DEF SignIInv, ListingInv
  <2>2. ASSUME NEW p \in Person, NEW a \in Refresher, NEW b \in Refresher,
               errand'[a].do = "login", errand'[a].who = p, errand'[b].do = "login", errand'[b].who = p
        PROVE  Listed(a)' \cap Of(p)' \subseteq Listed(b)' \/ Listed(b)' \cap Of(p)' \subseteq Listed(a)'
    <3>1. a # r /\ b # r
        BY <2>2, <1>4, <1>9
    <3>2. Listed(a) \cap Of(p) \subseteq Listed(b) \/ Listed(b) \cap Of(p) \subseteq Listed(a)
        BY <2>2, <3>1, <1>9 DEF SignIInv, ListingInv
    <3>3. Of(p)' \subseteq Of(p) /\ Listed(a)' = Listed(a) /\ Listed(b)' = Listed(b)
        BY <3>1, <1>5, <1>12
    <3> QED BY <3>2, <3>3
  <2> QED BY <2>1, <2>2 DEF ListingInv
<1>14. CountInv'
  <2> SUFFICES ASSUME NEW p \in Person
               PROVE  \E Old \in SUBSET OAuthSession, f \in [OAuthSession -> Refresher \cup {None}] : Fits(p, Old, f)'
      BY DEF CountInv
  <2>1. PICK Old \in SUBSET OAuthSession, f \in [OAuthSession -> Refresher \cup {None}] : Fits(p, Old, f)
      BY DEF SignIInv, CountInv
  <2>2. CASE p # P \/ \A s \in Of(p)' \ Old : f[s] # r
    <3>1. ASSUME NEW s \in Of(p)' \ Old, errand'[f[s]].who = p
          PROVE  /\ errand'[f[s]].do # "add"
                 /\ errand'[f[s]].do = "login" => (Old \cap Of(p)') \cup {s} \subseteq Listed(f[s])'
      <4>1. s \in Of(p) \ Old /\ f[s] \in Refresher /\ Of(p)' \subseteq Of(p)
          BY <2>1, <1>5 DEF Fits
      <4>2. f[s] # r
          BY <2>2, <3>1, <1>4, <1>9
      <4> QED BY <4>1, <4>2, <2>1, <3>1, <1>9, <1>12 DEF Fits
    <3>2. /\ Old \subseteq Known' /\ IsFiniteSet(Old) /\ Cardinality(Old) <= MaxSessions - 1
          /\ \A s \in Of(p)' \ Old : f[s] \in Refresher
          /\ \A s, q \in Of(p)' \ Old : f[s] = f[q] => s = q
        BY <2>1, <1>5 DEF Fits
    <3> QED BY <3>1, <3>2 DEF Fits
  <2>3. ASSUME p = P, NEW z \in Of(p)' \ Old, f[z] = r
        PROVE  Fits(p, left, f)'
    <3>1. (Old \cap Of(p)) \cup {z} \subseteq Listed(r) /\ Of(p)' \subseteq Of(p)
        BY <2>1, <2>3, <1>2, <1>5 DEF Fits
    <3>2. \A s \in Of(p)' \ left : s \in Of(p) \ Old /\ s # z /\ s \notin Listed(r)
        BY <3>1, <1>5, <1>7
    <3>3. \A s \in Of(p)' \ left : f[s] \in Refresher /\ f[s] # r
        BY <3>2, <2>1, <2>3, <1>5 DEF Fits
    <3>4. ASSUME NEW s \in Of(p)' \ left, errand'[f[s]].who = p
          PROVE  /\ errand'[f[s]].do # "add"
                 /\ errand'[f[s]].do = "login" => (left \cap Of(p)') \cup {s} \subseteq Listed(f[s])'
      <4>1. f[s] \in Refresher /\ f[s] # r /\ errand'[f[s]] = errand[f[s]] /\ Listed(f[s])' = Listed(f[s])
          BY <3>3, <1>9, <1>12
      <4>2. errand[f[s]].do # "add"
          BY <4>1, <3>2, <3>4, <2>1 DEF Fits
      <4>3. ASSUME errand[f[s]].do = "login"
            PROVE  (left \cap Of(p)') \cup {s} \subseteq Listed(f[s])
        <5>1. s \in Listed(f[s]) /\ s \in Of(p)
            BY <4>1, <4>3, <3>2, <3>4, <2>1 DEF Fits
        <5>2. Listed(r) \cap Of(p) \subseteq Listed(f[s]) \/ Listed(f[s]) \cap Of(p) \subseteq Listed(r)
            BY <4>1, <4>3, <3>4, <2>3, <1>2 DEF SignIInv, ListingInv
        <5> QED BY <5>1, <5>2, <3>1, <3>2, <1>8
      <4> QED BY <4>1, <4>2, <4>3
    <3>5. \A s, q \in Of(p)' \ left : f[s] = f[q] => s = q
        BY <3>2, <2>1 DEF Fits
    <3>6. left \subseteq Known'
        BY <1>5, <1>8
    <3> QED BY <3>3, <3>4, <3>5, <3>6, <1>6 DEF Fits
  <2> QED BY <2>1, <2>2, <2>3
<1> QED BY <1>9, <1>10, <1>11, <1>13, <1>14 DEF SignIInv

(* The request that adds had no session standing for it: the new one does.   *)
LEMMA AddKeeps ==
    ASSUME SignIInv, NEW r \in Refresher, create_session(r)
    PROVE  SignIInv'
<1> USE SignInAssumption
<1> DEFINE P == errand[r].who
           entry == [owner |-> P, gen |-> 1, expires |-> Expires, created |-> second]
<1>1. PICK s \in OAuthSession : s \notin Known /\ sess' = [sess EXCEPT ![s] = entry]
  <2> DEFINE z == CHOOSE x \in OAuthSession : x \notin Sessions \cup closed
  <2>1. \E x \in OAuthSession : x \notin Sessions \cup closed
      BY DEF create_session, SignIInv, SessTypes, Sessions
  <2>2. z \in OAuthSession /\ z \notin Known
      BY <2>1 DEF Known
  <2>3. sess' = [sess EXCEPT ![z] = entry]
      BY DEF create_session
  <2> QED BY <2>2, <2>3
<1>2. /\ errand' = [errand EXCEPT ![r] = NoErrand] /\ errand[r].do = "add"
      /\ UNCHANGED <<grant, down, closed, dropped, token, tokenMark, userMark, ended, second>>
    BY DEF create_session, SessionsOnly
<1>3. entry \in SessRow /\ entry # None /\ entry.owner = P /\ entry.gen # 0
    BY <1>2 DEF SignIInv, TokenTypes, SessTypes, SessRow, Expires
<1> HIDE DEF entry
<1>4. /\ sess' \in [OAuthSession -> SessRow \cup {None}] /\ sess'[s] = entry
      /\ \A q \in OAuthSession : q # s => sess'[q] = sess[q]
    BY <1>1, <1>3 DEF SignIInv, SessTypes
<1>5. NoErrand.do = "none"
    BY DEF NoErrand
<1>6. SessTypes' /\ errand'[r] = NoErrand /\ \A q \in Refresher : q # r => errand'[q] = errand[q]
    BY <1>2, <1>4, <1>5, SignRows, ErrandKeeps DEF SignIInv, SessTypes
<1>7. TokenTypes' /\ EndedInv'
    BY <1>2 DEF SignIInv, TokenTypes, EndedInv
<1>8. Sessions' = Sessions \cup {s} /\ Known' = Known \cup {s}
    BY <1>1, <1>2, <1>3, <1>4 DEF Sessions, Known
<1>9. ClosedInv'
  <2>1. closed' \cap Sessions' = {}
      BY <1>1, <1>2, <1>8 DEF SignIInv, ClosedInv, Known
  <2>2. \A q \in Sessions' : q = s \/ (q \in Sessions /\ sess'[q] = sess[q])
      BY <1>4, <1>8 DEF Sessions
  <2> QED BY <2>1, <2>2, <1>2, <1>3, <1>4, <1>5, <1>6 DEF SignIInv, ClosedInv
<1>10. \A p \in Person : Of(p)' = IF p = P THEN Of(p) \cup {s} ELSE Of(p)
    BY <1>1, <1>3, <1>4, <1>8 DEF Of, Sessions, Known
<1>11. Listed(r)' = {} /\ \A q \in Refresher : q # r => Listed(q)' = Listed(q)
    BY <1>6 DEF Listed, NoErrand
<1>12. ListingInv'
  <2>1. \A q \in Refresher : errand'[q].do \in {"login", "add"} => Listed(q)' \subseteq Known'
      BY <1>5, <1>6, <1>8, <1>11 DEF SignIInv, ListingInv
  <2>2. ASSUME NEW p \in Person, NEW a \in Refresher, NEW b \in Refresher,
               errand'[a].do = "login", errand'[a].who = p, errand'[b].do = "login", errand'[b].who = p
        PROVE  Listed(a)' \cap Of(p)' \subseteq Listed(b)' \/ Listed(b)' \cap Of(p)' \subseteq Listed(a)'
    <3>1. a # r /\ b # r
        BY <2>2, <1>5, <1>6
    <3>2. Listed(a) \cap Of(p) \subseteq Listed(b) \/ Listed(b) \cap Of(p) \subseteq Listed(a)
        BY <2>2, <3>1, <1>6 DEF SignIInv, ListingInv
    <3>3. s \notin Listed(a) /\ s \notin Listed(b)
        BY <2>2, <3>1, <1>1, <1>6 DEF SignIInv, ListingInv
    <3>4. Of(p)' \subseteq Of(p) \cup {s} /\ Listed(a)' = Listed(a) /\ Listed(b)' = Listed(b)
        BY <3>1, <1>10, <1>11
    <3> QED BY <3>2, <3>3, <3>4
  <2> QED BY <2>1, <2>2 DEF ListingInv
<1>13. CountInv'
  <2> SUFFICES ASSUME NEW p \in Person
               PROVE  \E Old \in SUBSET OAuthSession, f \in [OAuthSession -> Refresher \cup {None}] : Fits(p, Old, f)'
      BY DEF CountInv
  <2>1. PICK Old \in SUBSET OAuthSession, f \in [OAuthSession -> Refresher \cup {None}] : Fits(p, Old, f)
      BY DEF SignIInv, CountInv
  <2>2. CASE p # P
    <3>1. Of(p)' = Of(p)
        BY <2>2, <1>10
    <3>2. ASSUME NEW x \in Of(p) \ Old, errand'[f[x]].who = p
          PROVE  /\ errand'[f[x]].do # "add"
                 /\ errand'[f[x]].do = "login" => (Old \cap Of(p)) \cup {x} \subseteq Listed(f[x])'
      <4>1. f[x] \in Refresher
          BY <2>1 DEF Fits
      <4>2. CASE f[x] = r
          BY <4>2, <1>5, <1>6
      <4>3. CASE f[x] # r
          BY <4>1, <4>3, <2>1, <3>2, <1>6, <1>11 DEF Fits
      <4> QED BY <4>2, <4>3
    <3>3. Fits(p, Old, f)'
        BY <3>1, <3>2, <2>1, <1>8 DEF Fits
    <3> QED BY <3>3
  <2>3. CASE p = P
    <3>1. PICK g \in [OAuthSession -> Refresher \cup {None}] :
              g[s] = r /\ \A x \in OAuthSession : x # s => g[x] = f[x]
      <4> DEFINE k == [f EXCEPT ![s] = r]
      <4>1. k \in [OAuthSession -> Refresher \cup {None}] /\ k[s] = r /\ \A x \in OAuthSession : x # s => k[x] = f[x]
          OBVIOUS
      <4> HIDE DEF k
      <4> QED BY <4>1
    <3>2. Of(p)' = Of(p) \cup {s} /\ s \notin Of(p) /\ s \notin Old /\ Of(p) \subseteq OAuthSession
        BY <2>1, <2>3, <1>1, <1>10 DEF Of, Known, Sessions, Fits
    <3>3. \A x \in Of(p) \ Old : f[x] \in Refresher /\ f[x] # r /\ g[x] = f[x]
        BY <3>1, <3>2, <2>1, <2>3, <1>2 DEF Fits
    <3>4. \A x \in Of(p)' \ Old : g[x] \in Refresher
        BY <3>1, <3>2, <3>3
    <3>5. \A x, y \in Of(p)' \ Old : g[x] = g[y] => x = y
        BY <3>1, <3>2, <3>3, <2>1 DEF Fits
    <3>6. ASSUME NEW x \in Of(p)' \ Old, errand'[g[x]].who = p
          PROVE  /\ errand'[g[x]].do # "add"
                 /\ errand'[g[x]].do = "login" => (Old \cap Of(p)') \cup {x} \subseteq Listed(g[x])'
      <4>1. CASE x = s
          BY <4>1, <3>1, <1>5, <1>6
      <4>2. CASE x # s
        <5>1. x \in Of(p) \ Old /\ Old \cap Of(p)' = Old \cap Of(p)
            BY <4>2, <3>2
        <5>2. g[x] = f[x] /\ errand'[f[x]] = errand[f[x]] /\ Listed(f[x])' = Listed(f[x])
            BY <5>1, <3>3, <1>6, <1>11
        <5> QED BY <5>1, <5>2, <3>6, <2>1 DEF Fits
      <4> QED BY <4>1, <4>2
    <3>7. Fits(p, Old, g)'
        BY <3>4, <3>5, <3>6, <2>1, <1>8 DEF Fits
    <3> QED BY <3>7
  <2> QED BY <2>2, <2>3
<1> QED BY <1>6, <1>7, <1>9, <1>12, <1>13 DEF SignIInv

(* The steps that leave a user's listing of sessions as it is.               *)
LEMMA TokensOnlyKeeps ==
    ASSUME SignIInv, TokensOnly, TokenTypes', EndedInv'
    PROVE  SignIInv'
<1>1. SessTypes' /\ ClosedInv'
    BY DEF TokensOnly, SignIInv, SessTypes, ClosedInv, Sessions
<1>2. Known' = Known /\ (\A p \in Person : Of(p)' = Of(p)) /\ errand' = errand
    BY DEF TokensOnly, Known, Of, Sessions
<1>3. ListingInv' /\ CountInv'
    BY <1>2, CountKept DEF SignIInv, SessTypes
<1> QED BY <1>1, <1>3 DEF SignIInv

\* A step on sessions leaves tokens as they are.
LEMMA SessionsOnlyKeeps ==
    ASSUME SignIInv, SessionsOnly, SessTypes', ClosedInv',
           Known \subseteq Known', \A p \in Person : Of(p)' \subseteq Of(p),
           \A r \in Refresher : errand'[r].do \in {"login", "add"} => errand'[r] = errand[r]
    PROVE  SignIInv'
<1>1. TokenTypes' /\ EndedInv'
    BY DEF SessionsOnly, SignIInv, TokenTypes, EndedInv
<1>2. ListingInv' /\ CountInv'
    BY CountKept DEF SignIInv, SessTypes
<1> QED BY <1>1, <1>2 DEF SignIInv

\* _perform_token_refresh: asking the provider changes no session yet.
LEMMA RefreshKeeps ==
    ASSUME SignIInv, NEW r \in Refresher, perform_token_refresh(r)
    PROVE  SignIInv'
<1> USE SignInAssumption
<1> DEFINE s == errand[r].s
           gen == errand[r].gen
<1>1. /\ errand[r].do = "refresh" /\ SessionsOnly /\ UNCHANGED <<sess, closed>>
      /\ errand[r] \in ErrandRow /\ s \in OAuthSession /\ gen \in Nat
    BY DEF perform_token_refresh, SignIInv, SessTypes, ErrandRow
<1>2. \A d \in {"store", "delete"}, g \in Nat :
          LET n == [errand[r] EXCEPT !.do = d, !.gen = g]
          IN n \in ErrandRow /\ n.do = d /\ n.gen = g /\ n.s = s
    BY <1>1 DEF ErrandRow
<1>3. PICK d \in {"store", "delete"}, g \in Nat :
          /\ errand' = [errand EXCEPT ![r] = [errand[r] EXCEPT !.do = d, !.gen = g]]
          /\ ~Rotates => dropped' = dropped /\ (d = "store" => g # 0)
          /\ dropped' \subseteq OAuthSession
  <2>1. CASE /\ gen # 0
             /\ \E answer \in IF Rotates THEN {gen + 1} ELSE {0, 1} :
                   errand' = [errand EXCEPT ![r].do = "store", ![r].gen = KeptToken(gen, answer)]
             /\ UNCHANGED dropped
    <3>1. PICK answer \in Nat : errand' = [errand EXCEPT ![r].do = "store", ![r].gen = KeptToken(gen, answer)]
      <4>1. (IF Rotates THEN {gen + 1} ELSE {0, 1}) \subseteq Nat
          BY <1>1
      <4> QED BY <2>1, <4>1
    <3>2. KeptToken(gen, answer) \in Nat /\ KeptToken(gen, answer) # 0
        BY <3>1, <2>1, <1>1 DEF KeptToken
    <3>3. errand' = [errand EXCEPT ![r] = [errand[r] EXCEPT !.do = "store", !.gen = KeptToken(gen, answer)]]
        BY <3>1
    <3>4. dropped' \subseteq OAuthSession
        BY <2>1 DEF SignIInv, SessTypes
    <3> QED BY <2>1, <3>2, <3>3, <3>4
  <2>2. CASE /\ errand' = [errand EXCEPT ![r].do = "delete"]
             /\ dropped' = dropped \/ (dropped' = dropped \cup {s} /\ (gen = 0 \/ Rotates))
    <3>1. errand[r] = [errand[r] EXCEPT !.gen = gen]
        BY <1>1 DEF ErrandRow
    <3>2. errand' = [errand EXCEPT ![r] = [errand[r] EXCEPT !.do = "delete", !.gen = gen]]
        BY <2>2, <3>1, <1>1 DEF ErrandRow
    <3>3. ~Rotates => gen # 0
        BY <1>1 DEF SignIInv, ClosedInv
    <3>4. dropped' \subseteq OAuthSession
        BY <1>1, <2>2 DEF SignIInv, SessTypes
    <3> QED BY <1>1, <2>2, <3>2, <3>3, <3>4
  <2> QED BY <2>1, <2>2 DEF perform_token_refresh
<1> DEFINE n == [errand[r] EXCEPT !.do = d, !.gen = g]
<1>4. n \in ErrandRow /\ n.do = d /\ n.gen = g /\ n.s = s /\ errand' = [errand EXCEPT ![r] = n]
    BY <1>2, <1>3
<1> HIDE DEF n
<1>5. /\ errand' \in [Refresher -> ErrandRow] /\ errand'[r] = n
      /\ \A q \in Refresher : q # r => errand'[q] = errand[q]
      /\ \A q \in Refresher :
            /\ errand'[q].do \in {"login", "add"} => errand'[q].who \in Person /\ IsFiniteSet(errand'[q].seen)
            /\ errand'[q].do \in {"refresh", "store", "delete"} => errand'[q].s \in OAuthSession
    BY <1>1, <1>3, <1>4, ErrandKeeps DEF SignIInv
<1>6. grant' \in [OAuthSession -> Nat]
    BY <1>1 DEF perform_token_refresh, SignIInv, SessTypes
<1>7. SessTypes'
    BY <1>1, <1>3, <1>5, <1>6 DEF SignIInv, SessTypes
<1>8. ClosedInv'
    BY <1>1, <1>3, <1>4, <1>5 DEF SignIInv, ClosedInv, Sessions
<1>9. Known' = Known /\ \A p \in Person : Of(p)' = Of(p)
    BY <1>1 DEF Known, Of, Sessions
<1> QED BY <1>1, <1>3, <1>4, <1>5, <1>7, <1>8, <1>9, SessionsOnlyKeeps

(* What comes after a refresh: the answer is stored, or the session deleted. *)
LEMMA RefreshEnds ==
    ASSUME SignIInv, NEW r \in Refresher, refresh_token(r) \/ delete_session_by_id(r)
    PROVE  SignIInv'
<1> USE SignInAssumption
<1>1. /\ errand' = [errand EXCEPT ![r] = NoErrand] /\ SessionsOnly /\ UNCHANGED <<grant, dropped>>
      /\ NoErrand.do = "none" /\ NoErrand \in ErrandRow
    BY SignRows DEF refresh_token, delete_session_by_id, NoErrand
<1>2. /\ errand' \in [Refresher -> ErrandRow] /\ errand'[r] = NoErrand
      /\ \A q \in Refresher : q # r => errand'[q] = errand[q]
      /\ \A q \in Refresher :
            /\ errand'[q].do \in {"login", "add"} => errand'[q].who \in Person /\ IsFiniteSet(errand'[q].seen)
            /\ errand'[q].do \in {"refresh", "store", "delete"} => errand'[q].s \in OAuthSession
    BY <1>1, ErrandKeeps DEF SignIInv
<1>3. /\ sess' \in [OAuthSession -> SessRow \cup {None}] /\ closed' \subseteq OAuthSession
      /\ closed' \cap Sessions' = {} /\ Known \subseteq Known' /\ \A p \in Person : Of(p)' \subseteq Of(p)
      /\ ~Rotates => \A s \in Sessions' : sess'[s].gen # 0
  <2>1. CASE delete_session_by_id(r)
    <3>1. Delete({errand[r].s})
        BY <2>1 DEF delete_session_by_id
    <3>2. /\ sess' \in [OAuthSession -> SessRow \cup {None}]
          /\ closed' \subseteq OAuthSession /\ closed' \cap Sessions' = {}
          /\ Known \subseteq Known' /\ \A p \in Person : Of(p)' = Of(p) \ {errand[r].s}
          /\ \A s \in Sessions' : s \in Sessions \ {errand[r].s} /\ sess'[s] = sess[s]
        BY <3>1, DeleteKeeps DEF SignIInv
    <3> QED BY <3>2 DEF SignIInv, ClosedInv
  <2>2. CASE refresh_token(r)
    <3> DEFINE s == errand[r].s
               n == [sess[s] EXCEPT !.gen = errand[r].gen, !.expires = Expires]
    <3>1. s \in OAuthSession /\ errand[r].gen \in Nat /\ Expires \in Nat /\ closed' = closed
          /\ (~Rotates => errand[r].gen # 0)
        BY <2>2 DEF refresh_token, SignIInv, SessTypes, ErrandRow, TokenTypes, Expires, ClosedInv
    <3>2. CASE sess[s] = None
      <4>1. sess' = sess
          BY <2>2, <3>2 DEF refresh_token, update_session_by_id
      <4>2. Sessions' = Sessions /\ Known' = Known /\ \A p \in Person : Of(p)' = Of(p)
          BY <4>1, <3>1 DEF Sessions, Known, Of
      <4> QED BY <3>1, <4>1, <4>2 DEF SignIInv, SessTypes, ClosedInv
    <3>3. CASE sess[s] # None
      <4>1. sess[s] \in SessRow
          BY <3>1, <3>3 DEF SignIInv, SessTypes
      <4>2. n \in SessRow /\ n.owner = sess[s].owner /\ n.gen = errand[r].gen
          BY <4>1, <3>1 DEF SessRow
      <4>3. sess' = [sess EXCEPT ![s] = n]
          BY <2>2, <3>1, <3>3, <4>1 DEF refresh_token, update_session_by_id, SessRow
      <4> HIDE DEF n
      <4>4. /\ sess' \in [OAuthSession -> SessRow \cup {None}] /\ sess'[s] = n
            /\ \A q \in OAuthSession : q # s => sess'[q] = sess[q]
          BY <4>2, <4>3, <3>1 DEF SignIInv, SessTypes
      <4>5. n # None
          BY <4>2, SignRows
      <4>6. Sessions' = Sessions
          BY <3>1, <3>3, <4>4, <4>5 DEF Sessions
      <4>7. Known' = Known /\ \A p \in Person : Of(p)' = Of(p)
        <5>1. \A q \in Sessions : sess'[q].owner = sess[q].owner
            BY <4>2, <4>4 DEF Sessions
        <5>2. Known' = Known
            BY <3>1, <4>6 DEF Known
        <5> QED BY <5>1, <5>2, <4>6 DEF Of
      <4>8. ~Rotates => \A q \in Sessions' : sess'[q].gen # 0
          BY <3>1, <4>2, <4>4, <4>6 DEF SignIInv, ClosedInv, Sessions
      <4> QED BY <3>1, <4>4, <4>6, <4>7, <4>8 DEF SignIInv, SessTypes, ClosedInv
    <3> QED BY <3>2, <3>3
  <2> QED BY <2>1, <2>2
<1>4. SessTypes'
    BY <1>1, <1>2, <1>3 DEF SignIInv, SessTypes
<1>5. ClosedInv'
    BY <1>1, <1>2, <1>3 DEF SignIInv, ClosedInv
<1> QED BY <1>1, <1>2, <1>3, <1>4, <1>5, SessionsOnlyKeeps

\* Every step of sign-ins, revocations and refreshes keeps the invariant.
LEMMA SignNextIInv == SignIInv /\ [SignNext]_signVars => SignIInv'
<1> SUFFICES ASSUME SignIInv, [SignNext]_signVars PROVE SignIInv'
    OBVIOUS
<1> USE SignInAssumption
<1>1. ASSUME NEW t \in Token, invalidate_token(t) PROVE SignIInv'
  <2>1. token[t] \in TokenRow /\ token[t] # None
      BY <1>1 DEF invalidate_token, Alive, SignIInv, TokenTypes
  <2>2. TokenTypes'
      BY <1>1, <2>1 DEF invalidate_token, TokensOnly, SignIInv, TokenTypes, TokenRow
  <2>3. \A q \in ended : q # t => tokenMark'[q] = tokenMark[q]
      BY <1>1 DEF invalidate_token, SignIInv, TokenTypes
  <2>4. tokenMark'[t] = token[t].iat + Lifetime /\ tokenMark'[t] \in Nat
      BY <1>1, <2>1 DEF invalidate_token, SignIInv, TokenTypes, TokenRow
  <2>5. EndedInv'
      BY <1>1, <2>1, <2>3, <2>4 DEF invalidate_token, TokensOnly, SignIInv, EndedInv
  <2> QED BY <1>1, <2>2, <2>5, TokensOnlyKeeps DEF invalidate_token
<1>2. ASSUME NEW t \in Token, NEW p \in Person, create_session_response(t, p) PROVE SignIInv'
  <2> DEFINE n == [who |-> p, iat |-> second]
  <2>1. n \in TokenRow /\ n.iat = second /\ token' = [token EXCEPT ![t] = n] /\ token[t] = None
      BY <1>2 DEF create_session_response, SignIInv, TokenTypes, TokenRow
  <2> HIDE DEF n
  <2>2. TokenTypes'
      BY <1>2, <2>1 DEF create_session_response, TokensOnly, SignIInv, TokenTypes
  <2>3. token'[t] = n /\ \A q \in Token : q # t => token'[q] = token[q]
      BY <2>1 DEF SignIInv, TokenTypes
  <2>4. second \in Nat /\ t \notin ended
      BY <2>1 DEF SignIInv, TokenTypes, EndedInv
  <2>5. EndedInv'
      BY <1>2, <2>1, <2>3, <2>4 DEF create_session_response, TokensOnly, SignIInv, EndedInv, TokenTypes
  <2> QED BY <1>2, <2>2, <2>5, TokensOnlyKeeps DEF create_session_response
<1>3. ASSUME NEW p \in Person, revoke_user_tokens(p) PROVE SignIInv'
  <2>1. TokenTypes' /\ EndedInv'
      BY <1>3, CutOffKeeps DEF revoke_user_tokens, TokensOnly, SignIInv
  <2> QED BY <1>3, <2>1, TokensOnlyKeeps DEF revoke_user_tokens
<1>4. ASSUME NEW p \in Person, Delete(Of(p)), UNCHANGED <<grant, errand, down, dropped>>
      PROVE  /\ SessTypes' /\ ClosedInv' /\ Known \subseteq Known'
             /\ \A q \in Person : Of(q)' \subseteq Of(q)
  <2>1. PICK S : S = Of(p)
      OBVIOUS
  <2>2. Delete(S)
      BY <1>4, <2>1
  <2>3. /\ sess' \in [OAuthSession -> SessRow \cup {None}]
        /\ closed' \subseteq OAuthSession /\ closed' \cap Sessions' = {}
        /\ Known \subseteq Known' /\ \A q \in Person : Of(q)' = Of(q) \ S
        /\ \A s \in Sessions' : s \in Sessions \ S /\ sess'[s] = sess[s]
      BY <2>2, DeleteKeeps DEF SignIInv
  <2>4. SessTypes'
      BY <1>4, <2>3 DEF SignIInv, SessTypes
  <2>5. ClosedInv'
      BY <1>4, <2>3 DEF SignIInv, ClosedInv
  <2> QED BY <2>3, <2>4, <2>5
<1>5. ASSUME NEW p \in Person, delete_oauth_session_by_provider(p) PROVE SignIInv'
  <2>1. Delete(Of(p)) /\ UNCHANGED <<grant, errand, down, dropped>> /\ SessionsOnly
      BY <1>5 DEF delete_oauth_session_by_provider
  <2> QED BY <2>1, <1>4, SessionsOnlyKeeps
<1>6. ASSUME NEW p \in Person, handle_backchannel_logout(p) PROVE SignIInv'
  <2>1. Delete(Of(p)) /\ CutOff(p) /\ UNCHANGED <<token, tokenMark, second, grant, errand, down, dropped>>
      BY <1>6 DEF handle_backchannel_logout
  <2>2. TokenTypes' /\ EndedInv'
      BY <2>1, CutOffKeeps DEF SignIInv
  <2>3. SessTypes' /\ ClosedInv' /\ Known \subseteq Known' /\ \A q \in Person : Of(q)' \subseteq Of(q)
      BY <2>1, <1>4
  <2>4. ListingInv' /\ CountInv'
      BY <2>1, <2>3, CountKept DEF SignIInv, SessTypes
  <2> QED BY <2>2, <2>3, <2>4 DEF SignIInv
<1>7. ASSUME NEW r \in Refresher, NEW s \in OAuthSession, get_oauth_token(r, s) PROVE SignIInv'
  <2> DEFINE n == [NoErrand EXCEPT !.do = "refresh", !.s = s, !.gen = sess[s].gen]
  <2>1. /\ s \in Sessions /\ errand' = [errand EXCEPT ![r] = n] /\ SessionsOnly
        /\ UNCHANGED <<sess, grant, down, closed, dropped>>
      BY <1>7 DEF get_oauth_token
  <2>2. sess[s].gen \in Nat
      BY <2>1 DEF SignIInv, SessTypes, SessRow, Sessions
  <2>3. n \in ErrandRow /\ n.do = "refresh" /\ n.s = s /\ n.gen = sess[s].gen
      BY <2>2 DEF ErrandRow, NoErrand
  <2> HIDE DEF n
  <2>4. /\ errand' \in [Refresher -> ErrandRow] /\ errand'[r] = n
        /\ \A q \in Refresher : q # r => errand'[q] = errand[q]
        /\ \A q \in Refresher :
              /\ errand'[q].do \in {"login", "add"} => errand'[q].who \in Person /\ IsFiniteSet(errand'[q].seen)
              /\ errand'[q].do \in {"refresh", "store", "delete"} => errand'[q].s \in OAuthSession
      BY <2>1, <2>3, ErrandKeeps DEF SignIInv
  <2>5. SessTypes'
      BY <2>1, <2>4 DEF SignIInv, SessTypes
  <2>6. ClosedInv'
      BY <2>1, <2>3, <2>4 DEF SignIInv, ClosedInv, Sessions
  <2>7. Known' = Known /\ \A p \in Person : Of(p)' = Of(p)
      BY <2>1 DEF Known, Of, Sessions
  <2> QED BY <2>1, <2>3, <2>4, <2>5, <2>6, <2>7, SessionsOnlyKeeps
<1>8. ASSUME SecondPasses PROVE SignIInv'
  <2>1. TokenTypes'
      BY <1>8 DEF SecondPasses, SignIInv, TokenTypes
  <2>2. EndedInv'
      BY <1>8 DEF SecondPasses, SignIInv, EndedInv, TokenTypes, TokenRow
  <2>3. SessTypes' /\ ClosedInv'
      BY <1>8 DEF SecondPasses, SignIInv, SessTypes, ClosedInv, Sessions
  <2>4. Known' = Known /\ (\A p \in Person : Of(p)' = Of(p)) /\ errand' = errand
      BY <1>8 DEF SecondPasses, Known, Of, Sessions
  <2>5. ListingInv' /\ CountInv'
      BY <2>4, CountKept DEF SignIInv, SessTypes
  <2> QED BY <2>1, <2>2, <2>3, <2>5 DEF SignIInv
<1>9. ASSUME UNCHANGED signVars PROVE SignIInv'
  <2>1. TokenTypes' /\ EndedInv'
      BY <1>9 DEF signVars, SignIInv, TokenTypes, EndedInv
  <2> QED BY <1>9, <2>1, TokensOnlyKeeps DEF signVars, TokensOnly
<1> QED BY <1>1, <1>2, <1>3, <1>5, <1>6, <1>7, <1>8, <1>9, ListKeeps, TrimKeeps, AddKeeps, RefreshKeeps, RefreshEnds
        DEF SignNext

(* What the run checks of sign-ins follows.                                  *)
LEMMA SignInSound == SignIInv => SignTypeOK /\ RevokedTokenRefused /\ OAuthSessionsSound
<1> SUFFICES ASSUME SignIInv PROVE SignTypeOK /\ RevokedTokenRefused /\ OAuthSessionsSound
    OBVIOUS
<1> USE SignInAssumption DEF SignIInv
<1>1. SignTypeOK
    BY DEF SignTypeOK, TokenTypes, SessTypes, SessRow, Sessions
<1>2. RevokedTokenRefused
  <2> SUFFICES ASSUME NEW t \in ended, get_current_user(t) PROVE FALSE
      BY DEF RevokedTokenRefused
  <2>1. t \in Token /\ token[t] \in TokenRow
      BY DEF TokenTypes, get_current_user, Alive
  <2>2. token[t].iat \in Nat /\ token[t].who \in Person
      BY <2>1 DEF TokenRow
  <2>3. second \in Nat /\ tokenMark[t] \in Nat /\ userMark[token[t].who].until \in Nat
      BY <2>1, <2>2 DEF TokenTypes
  <2> QED BY <2>1, <2>2, <2>3 DEF EndedInv, get_current_user, Alive, is_valid_token
<1>3. OAuthSessionsSound
    BY SessionsBounded DEF OAuthSessionsSound, ClosedInv
<1> QED BY <1>1, <1>2, <1>3

-----------------------------------------------------------------------------
(* Accounts                                                                *)

Roles == {"pending", "user", "admin"}
AddressOrNone == Email \cup {None}
UserRow == [in : BOOLEAN, role : Roles, email : AddressOrNone, sub : BOOLEAN, scim : BOOLEAN, age : Nat]
AuthRow == [in : BOOLEAN, email : AddressOrNone]
DbRow == [user : [User -> UserRow], auth : [User -> AuthRow], groups : SUBSET Group,
          member : SUBSET (Group \X User), signup : BOOLEAN]

(* The commits of a program, and what each of them carries. *)
Inserts == {"insert_auth", "insert_user"}
Emails == {"auth_email", "user_email"}
Deletes == {"delete_user", "delete_auth"}
OfGroups == {"group", "ungroup", "members"}
CommitNames == {"promote", "close", "role", "oauth", "scim", "join", "leave", "leave_all", "sync", "count"}
               \cup Inserts \cup Emails \cup Deletes \cup OfGroups
NewRow == [email : Email, role : Roles, sub : BOOLEAN, scim : BOOLEAN]
Membership == [group : Group, users : SUBSET User]
GroupSets == SUBSET Group
TheDefault == {CHOOSE g \in Group : TRUE}
Close == {"close"}
Carried == Roles \cup AddressOrNone \cup Close \cup Group \cup GroupSets \cup Membership \cup NewRow \cup TheDefault
Carries(s) ==
    /\ s.do \notin OfGroups => s.u \in User
    /\ s.do \in Inserts => s.v \in NewRow
    /\ s.do = "role" => s.v \in Roles
    /\ s.do \in Emails => s.v \in AddressOrNone
    /\ s.do = "group" => s.v \in Group
    /\ s.do = "members" => s.v \in Membership
CommitRow == {s \in [do : CommitNames, u : User \cup {None}, v : Carried] : Carries(s)}

(* A commit that neither touches credentials nor makes an administrator of   *)
(* the first account.                                                        *)
Touching == Inserts \cup Emails \cup Deletes
Gentle(p) == \A i \in 1..Len(p) : p[i].do \notin Touching

(* A program is about one account: it inserts it first or not at all, writes *)
(* the email of both rows one after the other and the same, and deletes last.*)
OneAccount(p) == \A i, j \in 1..Len(p) : p[i].u = p[j].u
InsertsFirst(p) == \A i \in 1..Len(p) : p[i].do \in Inserts => i = 1 /\ \A j \in 1..Len(p) : p[j].do \notin Emails \cup Deletes
BothEmails(p) == \A i \in 1..Len(p) : p[i].do = "auth_email" => i < Len(p) /\ p[i + 1].do = "user_email"
OneEmail(p) == \A i, j \in 1..Len(p) : p[i].do \in Emails /\ p[j].do \in Emails => p[i].v = p[j].v
DeletesLast(p) ==
    /\ \A i \in 1..Len(p) : p[i].do = "delete_user" => i = Len(p) \/ (i + 1 = Len(p) /\ p[i + 1].do = "delete_auth")
    /\ \A i \in 1..Len(p) : p[i].do = "delete_auth" => i = Len(p)
CountsNew(p) == \A i, j \in 1..Len(p) : p[i].do = "count" => p[j].do \notin Emails \cup Deletes
WellMade(p) == OneAccount(p) /\ InsertsFirst(p) /\ BothEmails(p) /\ OneEmail(p) /\ DeletesLast(p) /\ CountsNew(p)

AccTypes ==
    /\ db \in DbRow
    /\ job \in [AccountClient -> Seq(CommitRow)] /\ \A c \in AccountClient : WellMade(job[c])
    /\ promoted \subseteq Users(db) /\ tidy \in BOOLEAN

EmailsDiffer(d) == \A u, v \in Users(d) : u # v => d.user[u].email # d.user[v].email

(* Who is made administrator by the rule for the first account, or will be.  *)
(* Nobody else looks at an account before it is inserted.                    *)
Promoting(c, u) == \E i \in 1..Len(job[c]) : job[c][i].do = "promote" /\ job[c][i].u = u
Marked(u) == u \in promoted \/ \E c \in AccountClient : Promoting(c, u)
Inserting(c) == job[c] # <<>> /\ Head(job[c]).do \in Inserts
OneMarked ==
    /\ \A u, v \in Users(db) : Marked(u) /\ Marked(v) => u = v
    /\ \A c, o \in AccountClient : \A i \in 1..Len(job[o]) :
          Inserting(c) /\ job[o][i].u = Head(job[c]).u
             => job[o][i].do # "promote" /\ (o # c => job[o][i].do # "count")

(* While requests on an account follow one another, its credentials agree    *)
(* except between the two commits of one change of them.                     *)
Settled(d, u) == d.auth[u].in => d.user[u].in /\ d.auth[u].email = d.user[u].email
Agree(d, u, v) == d.auth[u].in => d.user[u].in /\ d.auth[u].email = v
NextOn(c, u) == job[c] # <<>> /\ Head(job[c]).u = u
Midway(c, u) == NextOn(c, u) /\ Head(job[c]).do \in {"user_email", "delete_auth"}
Owes(d, u, p) ==
    /\ Head(p).do \in Inserts => ~d.auth[u].in
    /\ p[Len(p)].do = "delete_user" => ~d.auth[u].in
    /\ \A i \in 1..Len(p) : p[i].do = "user_email" /\ (\A j \in 1..(i - 1) : p[j].do # "auth_email") => Agree(d, u, p[i].v)
CredInv ==
    tidy =>
      /\ \A u \in User : Settled(db, u) \/ \E c \in AccountClient : Midway(c, u)
      /\ \A u \in User, c \in AccountClient : NextOn(c, u) =>
            /\ Owes(db, u, job[c])
            /\ \A o \in AccountClient : o # c /\ NextOn(o, u) => Gentle(job[c]) \/ Gentle(job[o])

AccIInv == AccTypes /\ EmailsDiffer(db) /\ OneMarked /\ CredInv

(* The rows of the tables. *)
LEMMA AccountRows == NoUser \in UserRow /\ NoAuth \in AuthRow
BY DEF NoUser, NoAuth, UserRow, AuthRow, Roles, AddressOrNone

\* What a commit leaves alone.
Untouched(d, r) ==
    r.auth = d.auth /\ \A u \in User : r.user[u].in = d.user[u].in /\ r.user[u].email = d.user[u].email
RestKept(d, r, u) == \A x \in User \ {u} : r.user[x] = d.user[x] /\ r.auth[x] = d.auth[x]

LEMMA UserChanged ==
    ASSUME NEW d \in DbRow, NEW u \in User, NEW row \in UserRow
    PROVE  /\ [d EXCEPT !.user[u] = row] \in DbRow
           /\ [d EXCEPT !.user[u] = row].user[u] = row
           /\ [d EXCEPT !.user[u] = row].auth = d.auth
           /\ RestKept(d, [d EXCEPT !.user[u] = row], u)
BY DEF DbRow, RestKept

LEMMA AuthChanged ==
    ASSUME NEW d \in DbRow, NEW u \in User, NEW row \in AuthRow
    PROVE  /\ [d EXCEPT !.auth[u] = row] \in DbRow
           /\ [d EXCEPT !.auth[u] = row].auth[u] = row
           /\ [d EXCEPT !.auth[u] = row].user = d.user
           /\ RestKept(d, [d EXCEPT !.auth[u] = row], u)
BY DEF DbRow, RestKept

LEMMA CountTyped == ASSUME NEW d PROVE Cardinality(Users(d)) \in Nat /\ IsFiniteSet(Users(d))
<1>1. IsFiniteSet(Users(d))
    BY AccountAssumption, FS_Subset DEF Users
<1> QED BY <1>1, FS_CardinalityType

LEMMA UserInserted ==
    ASSUME NEW d \in DbRow, NEW u \in User, NEW v \in NewRow
    PROVE  LET r == insert_new_user(d, u, v) IN
           /\ r \in DbRow /\ r.user[u].in /\ r.user[u].email = v.email /\ r.auth = d.auth /\ RestKept(d, r, u)
<1> DEFINE row == [in |-> TRUE, role |-> v.role, email |-> v.email, sub |-> v.sub, scim |-> v.scim,
                   age |-> Cardinality(Users(d))]
<1>1. row \in UserRow /\ row.in /\ row.email = v.email
    BY CountTyped DEF UserRow, NewRow, AddressOrNone
<1>2. insert_new_user(d, u, v) = [d EXCEPT !.user[u] = row]
    BY DEF insert_new_user
<1> HIDE DEF row
<1> QED BY <1>1, <1>2, UserChanged

LEMMA InsertedWithAuth ==
    ASSUME NEW d \in DbRow, NEW u \in User, NEW v \in NewRow
    PROVE  LET r == insert_new_auth(d, u, v) IN
           /\ r \in DbRow /\ r.user[u].in /\ r.user[u].email = v.email
           /\ r.auth[u].email = v.email /\ RestKept(d, r, u)
<1> DEFINE t == insert_new_user(d, u, v)
           row == [in |-> TRUE, email |-> v.email]
<1>1. row \in AuthRow /\ row.email = v.email
    BY DEF AuthRow, NewRow, AddressOrNone
<1>2. insert_new_auth(d, u, v) = [t EXCEPT !.auth[u] = row]
    BY DEF insert_new_auth
<1>3. t \in DbRow /\ t.user[u].in /\ t.user[u].email = v.email /\ t.auth = d.auth /\ RestKept(d, t, u)
    BY UserInserted
<1> HIDE DEF t, row
<1> QED BY <1>1, <1>2, <1>3, AuthChanged DEF RestKept

\* A change of one column of a user's row.
LEMMA RoleChanged ==
    ASSUME NEW d \in DbRow, NEW u \in User, NEW role \in Roles
    PROVE  LET r == update_user_role_by_id(d, u, role) IN r \in DbRow /\ Untouched(d, r)
BY DEF update_user_role_by_id, Untouched, DbRow, UserRow
LEMMA OauthChanged ==
    ASSUME NEW d \in DbRow, NEW u \in User
    PROVE  LET r == update_user_oauth_by_id(d, u) IN r \in DbRow /\ Untouched(d, r)
BY DEF update_user_oauth_by_id, Untouched, DbRow, UserRow
LEMMA ScimChanged ==
    ASSUME NEW d \in DbRow, NEW u \in User
    PROVE  LET r == update_user_scim_by_id(d, u) IN r \in DbRow /\ Untouched(d, r)
BY DEF update_user_scim_by_id, Untouched, DbRow, UserRow
LEMMA AuthEmailChanged ==
    ASSUME NEW d \in DbRow, NEW u \in User, NEW e \in AddressOrNone
    PROVE  LET r == AuthEmail(d, u, e) IN
           /\ r \in DbRow /\ r.user = d.user /\ r.auth[u].in = d.auth[u].in /\ RestKept(d, r, u)
           /\ r.auth[u].in => r.auth[u].email = e
BY DEF AuthEmail, DbRow, AuthRow, RestKept
LEMMA UserEmailChanged ==
    ASSUME NEW d \in DbRow, NEW u \in User, NEW e \in AddressOrNone
    PROVE  LET r == UserEmail(d, u, e) IN
           /\ r \in DbRow /\ r.auth = d.auth /\ r.user[u].in = d.user[u].in /\ RestKept(d, r, u)
           /\ r.user[u].in => r.user[u].email = e
BY DEF UserEmail, DbRow, UserRow, RestKept
LEMMA UserDeleted ==
    ASSUME NEW d \in DbRow, NEW u \in User
    PROVE  LET r == DeleteUser(d, u) IN r \in DbRow /\ r.auth = d.auth /\ ~r.user[u].in /\ RestKept(d, r, u)
<1>1. ~NoUser.in
    BY DEF NoUser
<1> QED BY <1>1, AccountRows, UserChanged DEF DeleteUser
LEMMA AuthDeleted ==
    ASSUME NEW d \in DbRow, NEW u \in User
    PROVE  LET r == DeleteAuth(d, u) IN r \in DbRow /\ r.user = d.user /\ ~r.auth[u].in /\ RestKept(d, r, u)
<1>1. ~NoAuth.in
    BY DEF NoAuth
<1> QED BY <1>1, AccountRows, AuthChanged DEF DeleteAuth

\* The tables of groups and their members.
GroupCommits == {"group", "ungroup", "join", "leave", "members", "leave_all", "sync", "close"}
LEMMA GroupsChanged ==
    ASSUME NEW d \in DbRow, NEW gs \in SUBSET Group
    PROVE  [d EXCEPT !.groups = gs] \in DbRow /\ Untouched(d, [d EXCEPT !.groups = gs])
BY DEF DbRow, Untouched
LEMMA MembersChanged ==
    ASSUME NEW d \in DbRow, NEW ms \in SUBSET (Group \X User)
    PROVE  [d EXCEPT !.member = ms] \in DbRow /\ Untouched(d, [d EXCEPT !.member = ms])
BY DEF DbRow, Untouched
LEMMA SignupClosed == ASSUME NEW d \in DbRow PROVE [d EXCEPT !.signup = FALSE] \in DbRow /\ Untouched(d, [d EXCEPT !.signup = FALSE])
BY DEF DbRow, Untouched

LEMMA GroupsUntouched ==
    ASSUME NEW d \in DbRow, NEW s \in CommitRow, s.do \in GroupCommits
    PROVE  Commit(d, s) \in DbRow /\ Untouched(d, Commit(d, s))
<1>1. d.groups \subseteq Group /\ d.member \subseteq Group \X User
    BY DEF DbRow
<1>2. Untouched(d, d)
    BY DEF Untouched
<1>3. s.do \notin OfGroups => s.u \in User
    BY DEF CommitRow, Carries
<1>4. CASE s.do = "group"
  <2>1. s.v \in Group
      BY <1>4 DEF CommitRow, Carries
  <2>2. Commit(d, s) = [d EXCEPT !.groups = d.groups \cup {s.v}]
      BY <1>4 DEF Commit, insert_new_group
  <2>3. d.groups \cup {s.v} \in SUBSET Group
      BY <2>1, <1>1
  <2> QED BY <2>2, <2>3, GroupsChanged
<1>5. CASE s.do = "ungroup"
  <2>1. Commit(d, s) = [d EXCEPT !.groups = d.groups \ {s.v}]
      BY <1>5 DEF Commit, delete_group_by_id
  <2>2. d.groups \ {s.v} \in SUBSET Group
      BY <1>1
  <2> QED BY <2>1, <2>2, GroupsChanged
<1>6. CASE s.do = "join"
  <2>1. Commit(d, s) = IF s.v \in d.groups THEN [d EXCEPT !.member = d.member \cup {<<s.v, s.u>>}] ELSE d
      BY <1>6 DEF Commit, add_users_to_group
  <2>2. s.v \in d.groups => d.member \cup {<<s.v, s.u>>} \in SUBSET (Group \X User)
      BY <1>1, <1>3, <1>6 DEF OfGroups
  <2> QED BY <2>1, <2>2, <1>2, MembersChanged
<1>7. CASE s.do = "leave"
  <2>1. Commit(d, s) = IF s.v \in d.groups THEN [d EXCEPT !.member = d.member \ {<<s.v, s.u>>}] ELSE d
      BY <1>7 DEF Commit, remove_users_from_group
  <2>2. d.member \ {<<s.v, s.u>>} \in SUBSET (Group \X User)
      BY <1>1
  <2> QED BY <2>1, <2>2, <1>2, MembersChanged
<1>8. CASE s.do = "members"
  <2> DEFINE ms == {m \in d.member : m[1] # s.v.group} \cup ({s.v.group} \X s.v.users)
  <2>1. s.v.group \in Group /\ s.v.users \subseteq User
      BY <1>8 DEF CommitRow, Carries, Membership
  <2>2. Commit(d, s) = [d EXCEPT !.member = ms]
      BY <1>8 DEF Commit, set_group_user_ids_by_id
  <2>3. ms \in SUBSET (Group \X User)
      BY <2>1, <1>1
  <2> QED BY <2>2, <2>3, MembersChanged
<1>9. CASE s.do = "leave_all"
  <2> DEFINE ms == {m \in d.member : m[2] # s.u \/ m[1] \notin d.groups}
  <2>1. Commit(d, s) = [d EXCEPT !.member = ms]
      BY <1>9 DEF Commit, remove_user_from_all_groups
  <2>2. ms \in SUBSET (Group \X User)
      BY <1>1
  <2> QED BY <2>1, <2>2, MembersChanged
<1>10. CASE s.do = "sync"
  <2> DEFINE ms == {m \in d.member : m[2] # s.u \/ m[1] \in s.v \/ m[1] \notin d.groups} \cup ((s.v \cap d.groups) \X {s.u})
  <2>1. Commit(d, s) = [d EXCEPT !.member = ms]
      BY <1>10 DEF Commit, sync_groups_by_group_names
  <2>2. ms \in SUBSET (Group \X User)
      BY <1>1, <1>3, <1>10 DEF OfGroups
  <2> QED BY <2>1, <2>2, MembersChanged
<1>11. CASE s.do = "close"
  <2>1. Commit(d, s) = [d EXCEPT !.signup = FALSE]
      BY <1>11 DEF Commit
  <2> QED BY <2>1, SignupClosed
<1> QED BY <1>4, <1>5, <1>6, <1>7, <1>8, <1>9, <1>10, <1>11 DEF GroupCommits

\* What each commit does to the credentials of its account, and only to them.
LEMMA CommitGentle ==
    ASSUME NEW d \in DbRow, NEW s \in CommitRow, s.do \notin Touching
    PROVE  Commit(d, s) \in DbRow /\ Untouched(d, Commit(d, s))
<1>1. s.do \in GroupCommits \cup {"promote", "role", "oauth", "scim", "count"}
    BY DEF CommitRow, CommitNames, Touching, GroupCommits, Inserts, Emails, Deletes, OfGroups
<1>2. s.do \notin OfGroups => s.u \in User
    BY DEF CommitRow, Carries
<1>3. CASE s.do = "promote"
  <2>1. Commit(d, s) = update_user_role_by_id(d, s.u, "admin") /\ "admin" \in Roles
      BY <1>3 DEF Commit, Roles
  <2> QED BY <2>1, <1>2, <1>3, RoleChanged DEF OfGroups
<1>4. CASE s.do = "role"
  <2>1. Commit(d, s) = update_user_role_by_id(d, s.u, s.v) /\ s.v \in Roles
      BY <1>4 DEF Commit, CommitRow, Carries
  <2> QED BY <2>1, <1>2, <1>4, RoleChanged DEF OfGroups
<1>5. CASE s.do = "oauth"
  <2>1. Commit(d, s) = update_user_oauth_by_id(d, s.u)
      BY <1>5 DEF Commit
  <2> QED BY <2>1, <1>2, <1>5, OauthChanged DEF OfGroups
<1>6. CASE s.do = "scim"
  <2>1. Commit(d, s) = update_user_scim_by_id(d, s.u)
      BY <1>6 DEF Commit
  <2> QED BY <2>1, <1>2, <1>6, ScimChanged DEF OfGroups
<1>7. CASE s.do = "count"
    BY <1>7 DEF Commit, Untouched
<1>8. CASE s.do \in GroupCommits
    BY <1>8, GroupsUntouched
<1> QED BY <1>1, <1>3, <1>4, <1>5, <1>6, <1>7, <1>8

(* Programs. *)
LEMMA TailFacts ==
    ASSUME NEW p \in Seq(CommitRow), p # <<>>
    PROVE  /\ Tail(p) \in Seq(CommitRow) /\ Len(Tail(p)) = Len(p) - 1 /\ Len(p) \in Nat \ {0}
           /\ \A i \in 1..(Len(p) - 1) : Tail(p)[i] = p[i + 1]
           /\ Head(p) = p[1] /\ p[1] \in CommitRow
           /\ Tail(p) # <<>> => Len(p) > 1 /\ Head(Tail(p)) = p[2]
<1> HIDE DEF CommitRow
<1> QED OBVIOUS

LEMMA TailMade ==
    ASSUME NEW p \in Seq(CommitRow), p # <<>>, WellMade(p)
    PROVE  WellMade(Tail(p)) /\ (Gentle(p) => Gentle(Tail(p)))
<1> HIDE DEF CommitRow
<1> DEFINE q == Tail(p)
<1>1. Len(q) = Len(p) - 1 /\ Len(p) \in Nat \ {0} /\ \A i \in 1..Len(q) : q[i] = p[i + 1] /\ i + 1 \in 1..Len(p)
    BY TailFacts
<1> HIDE DEF q
<1>2. \A i, j \in 1..Len(q) : q[i].u = q[j].u
    BY <1>1 DEF WellMade, OneAccount
<1>3. \A i \in 1..Len(q) : q[i].do \notin Inserts
    BY <1>1 DEF WellMade, InsertsFirst
<1>4. \A i \in 1..Len(q) : q[i].do = "auth_email" => i < Len(q) /\ q[i + 1].do = "user_email"
  <2> TAKE i \in 1..Len(q)
  <2> HAVE q[i].do = "auth_email"
  <2>1. i + 1 < Len(p) /\ p[i + 2].do = "user_email"
      BY <1>1 DEF WellMade, BothEmails
  <2> QED BY <2>1, <1>1
<1>5. \A i, j \in 1..Len(q) : q[i].do \in Emails /\ q[j].do \in Emails => q[i].v = q[j].v
    BY <1>1 DEF WellMade, OneEmail
<1>6. \A i \in 1..Len(q) : q[i].do = "delete_user" => i = Len(q) \/ (i + 1 = Len(q) /\ q[i + 1].do = "delete_auth")
  <2> TAKE i \in 1..Len(q)
  <2> HAVE q[i].do = "delete_user"
  <2>0. i + 1 \in 1..Len(p) /\ p[i + 1].do = "delete_user" /\ (i + 1) + 1 = i + 2
      BY <1>1
  <2>1. i + 1 = Len(p) \/ (i + 2 = Len(p) /\ p[i + 2].do = "delete_auth")
      BY <2>0 DEF WellMade, DeletesLast
  <2> QED BY <2>1, <1>1
<1>7. \A i \in 1..Len(q) : q[i].do = "delete_auth" => i = Len(q)
  <2> TAKE i \in 1..Len(q)
  <2> HAVE q[i].do = "delete_auth"
  <2>0. i + 1 \in 1..Len(p) /\ p[i + 1].do = "delete_auth"
      BY <1>1
  <2>1. i + 1 = Len(p)
      BY <2>0 DEF WellMade, DeletesLast
  <2> QED BY <2>1, <1>1
<1>8. Gentle(p) => Gentle(q)
    BY <1>1 DEF Gentle
<1>10. \A i, j \in 1..Len(q) : q[i].do = "count" => q[j].do \notin Emails \cup Deletes
    BY <1>1 DEF WellMade, CountsNew
<1>9. WellMade(q)
    BY <1>2, <1>3, <1>4, <1>5, <1>6, <1>7, <1>10 DEF WellMade, OneAccount, InsertsFirst, BothEmails, OneEmail, DeletesLast, CountsNew
<1> QED BY <1>8, <1>9 DEF q

\* Gentle commits on an account may come before its others, or after them.
GentleOn(g, u) == \A i \in 1..Len(g) : g[i].do \notin Touching /\ g[i].u = u
LEMMA Joined ==
    ASSUME NEW p \in Seq(CommitRow), NEW q \in Seq(CommitRow)
    PROVE  /\ p \o q \in Seq(CommitRow) /\ Len(p \o q) = Len(p) + Len(q) /\ Len(p) \in Nat /\ Len(q) \in Nat
           /\ \A i \in 1..Len(p) : (p \o q)[i] = p[i]
           /\ \A i \in 1..(Len(p) + Len(q)) : i > Len(p) => i - Len(p) \in 1..Len(q) /\ (p \o q)[i] = q[i - Len(p)]
<1> HIDE DEF CommitRow
<1> QED OBVIOUS

LEMMA Prefixed ==
    ASSUME NEW g \in Seq(CommitRow), NEW p \in Seq(CommitRow), NEW u, GentleOn(g, u), WellMade(p),
           \A i \in 1..Len(p) : p[i].u = u /\ p[i].do \notin Inserts,
           \A i \in 1..Len(g) : g[i].do # "count"
    PROVE  WellMade(g \o p)
<1> HIDE DEF CommitRow
<1> DEFINE q == g \o p
           n == Len(g)
<1>1. /\ Len(q) = n + Len(p) /\ n \in Nat /\ Len(p) \in Nat
      /\ \A i \in 1..n : q[i] = g[i]
      /\ \A i \in 1..Len(q) : i > n => i - n \in 1..Len(p) /\ q[i] = p[i - n]
    BY Joined
<1>2. \A i \in 1..Len(q) : q[i].u = u /\ q[i].do \notin Inserts
    BY <1>1 DEF GentleOn, Touching
<1>3. \A i \in 1..Len(q) : q[i].do \in Touching => i > n /\ i - n \in 1..Len(p) /\ q[i] = p[i - n]
    BY <1>1 DEF GentleOn
<1> HIDE DEF q, n
<1>4. \A i \in 1..Len(q) : q[i].do = "auth_email" => i < Len(q) /\ q[i + 1].do = "user_email"
  <2> TAKE i \in 1..Len(q)
  <2> HAVE q[i].do = "auth_email"
  <2>1. i > n /\ i - n \in 1..Len(p) /\ p[i - n].do = "auth_email"
      BY <1>3 DEF Touching, Emails
  <2>2. i - n < Len(p) /\ p[(i - n) + 1].do = "user_email"
      BY <2>1 DEF WellMade, BothEmails
  <2>3. i + 1 \in 1..Len(q) /\ i + 1 > n /\ (i + 1) - n = (i - n) + 1
      BY <2>1, <2>2, <1>1
  <2> QED BY <2>2, <2>3, <1>1
<1>5. \A i, j \in 1..Len(q) : q[i].do \in Emails /\ q[j].do \in Emails => q[i].v = q[j].v
    BY <1>3 DEF WellMade, OneEmail, Touching
<1>6. \A i \in 1..Len(q) : q[i].do = "delete_user" => i = Len(q) \/ (i + 1 = Len(q) /\ q[i + 1].do = "delete_auth")
  <2> TAKE i \in 1..Len(q)
  <2> HAVE q[i].do = "delete_user"
  <2>1. i > n /\ i - n \in 1..Len(p) /\ p[i - n].do = "delete_user"
      BY <1>3 DEF Touching, Deletes
  <2>2. i - n = Len(p) \/ (i - n + 1 = Len(p) /\ p[(i - n) + 1].do = "delete_auth")
      BY <2>1 DEF WellMade, DeletesLast
  <2>3. i = Len(q) \/ (i + 1 = Len(q) /\ q[i + 1] = p[(i - n) + 1])
      BY <2>1, <2>2, <1>1
  <2> QED BY <2>2, <2>3, <2>1, <1>1
<1>7. \A i \in 1..Len(q) : q[i].do = "delete_auth" => i = Len(q)
  <2> TAKE i \in 1..Len(q)
  <2> HAVE q[i].do = "delete_auth"
  <2>1. i > n /\ i - n \in 1..Len(p) /\ p[i - n].do = "delete_auth"
      BY <1>3 DEF Touching, Deletes
  <2>2. i - n = Len(p)
      BY <2>1 DEF WellMade, DeletesLast
  <2> QED BY <2>2, <2>1, <1>1
<1>9. \A i, j \in 1..Len(q) : q[i].do = "count" => q[j].do \notin Emails \cup Deletes
  <2> SUFFICES ASSUME NEW i \in 1..Len(q), NEW j \in 1..Len(q), q[i].do = "count", q[j].do \in Emails \cup Deletes PROVE FALSE
      OBVIOUS
  <2>1. j - n \in 1..Len(p) /\ q[j] = p[j - n]
      BY <1>3 DEF Touching
  <2>2. i > n /\ i - n \in 1..Len(p) /\ q[i] = p[i - n]
    <3>1. i \notin 1..n
        BY <1>1 DEF n
    <3> QED BY <3>1, <1>1
  <2> QED BY <2>1, <2>2 DEF WellMade, CountsNew
<1>8. WellMade(q)
    BY <1>2, <1>4, <1>5, <1>6, <1>7, <1>9 DEF WellMade, OneAccount, InsertsFirst, BothEmails, OneEmail, DeletesLast, CountsNew
<1> QED BY <1>8 DEF q

LEMMA Appended ==
    ASSUME NEW p \in Seq(CommitRow), NEW g \in Seq(CommitRow), NEW u, GentleOn(g, u), WellMade(p),
           \A i \in 1..Len(p) : p[i].u = u /\ p[i].do \notin Deletes,
           \A i \in 1..Len(g), j \in 1..Len(p) : g[i].do = "count" => p[j].do \notin Emails
    PROVE  WellMade(p \o g)
<1> HIDE DEF CommitRow
<1> DEFINE q == p \o g
           n == Len(p)
<1>1. /\ Len(q) = n + Len(g) /\ n \in Nat /\ Len(g) \in Nat
      /\ \A i \in 1..n : q[i] = p[i]
      /\ \A i \in 1..Len(q) : i > n => i - n \in 1..Len(g) /\ q[i] = g[i - n]
    BY Joined
<1>2. \A i \in 1..Len(q) : q[i].u = u
    BY <1>1 DEF GentleOn
<1>3. \A i \in 1..Len(q) : q[i].do \in Touching => i \in 1..n /\ q[i] = p[i]
    BY <1>1 DEF GentleOn
<1>4. \A i \in 1..Len(q) : q[i].do \notin Deletes
    BY <1>3 DEF Touching
<1> HIDE DEF q, n
<1>5. \A i \in 1..Len(q) : q[i].do \in Inserts => i = 1 /\ \A j \in 1..Len(q) : q[j].do \notin Emails \cup Deletes
  <2> TAKE i \in 1..Len(q)
  <2> HAVE q[i].do \in Inserts
  <2>1. i \in 1..n /\ p[i].do \in Inserts
      BY <1>3 DEF Touching
  <2>2. i = 1 /\ \A j \in 1..n : p[j].do \notin Emails
      BY <2>1 DEF WellMade, InsertsFirst, n
  <2> QED BY <2>2, <1>3, <1>4 DEF Touching
<1>6. \A i \in 1..Len(q) : q[i].do = "auth_email" => i < Len(q) /\ q[i + 1].do = "user_email"
  <2> TAKE i \in 1..Len(q)
  <2> HAVE q[i].do = "auth_email"
  <2>1. i \in 1..n /\ p[i].do = "auth_email"
      BY <1>3 DEF Touching, Emails
  <2>2. i < n /\ p[i + 1].do = "user_email"
      BY <2>1 DEF WellMade, BothEmails, n
  <2>3. i + 1 \in 1..n /\ i < Len(q)
      BY <2>1, <2>2, <1>1
  <2> QED BY <2>2, <2>3, <1>1
<1>7. \A i, j \in 1..Len(q) : q[i].do \in Emails /\ q[j].do \in Emails => q[i].v = q[j].v
    BY <1>3 DEF WellMade, OneEmail, Touching, n
<1>9. \A i, j \in 1..Len(q) : q[i].do = "count" => q[j].do \notin Emails \cup Deletes
  <2> SUFFICES ASSUME NEW i \in 1..Len(q), NEW j \in 1..Len(q), q[i].do = "count", q[j].do \in Emails PROVE FALSE
      BY <1>4
  <2>1. j \in 1..n /\ q[j] = p[j]
      BY <1>3 DEF Touching
  <2>2. CASE i > n
    <3>1. i - n \in 1..Len(g) /\ g[i - n].do = "count"
        BY <2>2, <1>1
    <3> QED BY <3>1, <2>1 DEF n
  <2>3. CASE i \in 1..n
      BY <2>1, <2>3, <1>1 DEF WellMade, CountsNew, n
  <2> QED BY <2>2, <2>3, <1>1
<1>8. WellMade(q)
    BY <1>2, <1>4, <1>5, <1>6, <1>7, <1>9 DEF WellMade, OneAccount, InsertsFirst, BothEmails, OneEmail, DeletesLast, CountsNew, Deletes
<1> QED BY <1>8 DEF q

(* A step of a program. *)
\* What is left of a program after its next commit.
Rest(c) == (IF Head(job[c]).do = "count" THEN Counted(db, Head(job[c])) ELSE <<>>) \o Tail(job[c])
Fresh(s, t) == t.do \in {"promote", "close"} /\ t.u = s.u /\ s.do = "count" /\ Cardinality(Users(db)) = 1

LEMMA CountedFacts ==
    ASSUME NEW s \in CommitRow, s.do = "count"
    PROVE  /\ Counted(db, s) \in Seq(CommitRow) /\ GentleOn(Counted(db, s), s.u)
           /\ \A i \in 1..Len(Counted(db, s)) : Fresh(s, Counted(db, s)[i])
<1> DEFINE a == Do("promote", s.u, None)
           b == Do("close", s.u, None)
<1>1. s.u \in User
    BY DEF CommitRow, Carries, OfGroups
<1>2. a \in CommitRow /\ b \in CommitRow
    BY <1>1 DEF Do, CommitRow, Carries, CommitNames, OfGroups, Inserts, Emails, Deletes, Carried, AddressOrNone
<1>3. a.do = "promote" /\ b.do = "close" /\ a.u = s.u /\ b.u = s.u
    BY DEF Do
<1>4. a.do \notin Touching /\ b.do \notin Touching
    BY <1>3 DEF Touching, Inserts, Emails, Deletes
<1> DEFINE q == IF s.v = "close" THEN <<b>> ELSE <<>>
<1>5. Counted(db, s) = IF Cardinality(Users(db)) = 1 THEN <<a>> \o q ELSE <<>>
    BY DEF Counted
<1> HIDE DEF a, b, CommitRow
<1>6. <<a>> \in Seq(CommitRow) /\ Len(<<a>>) = 1 /\ <<a>>[1] = a
    BY <1>2
<1>7. q \in Seq(CommitRow) /\ \A i \in 1..Len(q) : q[i] = b
    BY <1>2
<1> HIDE DEF q
<1>8. CASE Cardinality(Users(db)) = 1
  <2> DEFINE r == <<a>> \o q
  <2>1. /\ r \in Seq(CommitRow) /\ Len(r) = 1 + Len(q) /\ Len(q) \in Nat
        /\ \A i \in 1..Len(<<a>>) : r[i] = <<a>>[i]
        /\ \A i \in 1..(Len(<<a>>) + Len(q)) : i > Len(<<a>>) => i - Len(<<a>>) \in 1..Len(q) /\ r[i] = q[i - Len(<<a>>)]
      BY <1>6, <1>7, Joined
  <2> HIDE DEF r
  <2>2. \A i \in 1..Len(r) : r[i] \in {a, b}
    <3> TAKE i \in 1..Len(r)
    <3>1. CASE i = 1
        BY <3>1, <2>1, <1>6
    <3>2. CASE i > 1
      <4>1. i - 1 \in 1..Len(q) /\ r[i] = q[i - 1]
          BY <3>2, <2>1, <1>6
      <4> QED BY <4>1, <1>7
    <3> QED BY <3>1, <3>2
  <2>3. Counted(db, s) = r
      BY <1>5, <1>8 DEF r
  <2> QED BY <2>1, <2>2, <2>3, <1>3, <1>4, <1>8 DEF GentleOn, Fresh
<1>9. CASE Cardinality(Users(db)) # 1
  <2>1. Counted(db, s) = <<>>
      BY <1>9, <1>5
  <2> QED BY <2>1 DEF GentleOn
<1> QED BY <1>8, <1>9

LEMMA RestFacts ==
    ASSUME AccTypes, NEW c \in AccountClient, job[c] # <<>>
    PROVE  /\ Rest(c) \in Seq(CommitRow) /\ WellMade(Rest(c)) /\ (Gentle(job[c]) => Gentle(Rest(c)))
           /\ \A i \in 1..Len(Rest(c)) : /\ Rest(c)[i].u = Head(job[c]).u /\ Rest(c)[i].do \notin Inserts
                                         /\ Fresh(Head(job[c]), Rest(c)[i]) \/ \E j \in 1..Len(job[c]) : Rest(c)[i] = job[c][j]
           /\ Head(job[c]).do # "count" => Rest(c) = Tail(job[c])
           /\ Rest(c) # <<>> => Head(Rest(c)) = Rest(c)[1] /\ Len(Rest(c)) >= 1
<1> DEFINE p == job[c]
           q == Tail(p)
           s == Head(p)
<1>1. p \in Seq(CommitRow) /\ WellMade(p)
    BY DEF AccTypes
<1> HIDE DEF p
<1>2. p # <<>>
    BY DEF p
<1>3. /\ q \in Seq(CommitRow) /\ Len(q) = Len(p) - 1 /\ Len(p) \in Nat \ {0}
      /\ \A i \in 1..Len(q) : q[i] = p[i + 1] /\ i + 1 \in 1..Len(p)
      /\ s = p[1] /\ s \in CommitRow
    BY <1>1, <1>2, TailFacts
<1>4. WellMade(q) /\ (Gentle(p) => Gentle(q))
    BY <1>1, <1>2, TailMade
<1>5. \A i \in 1..Len(q) : q[i].u = s.u /\ q[i].do \notin Inserts /\ \E j \in 1..Len(p) : q[i] = p[j]
  <2> TAKE i \in 1..Len(q)
  <2>1. q[i] = p[i + 1] /\ i + 1 \in 1..Len(p) /\ 1 \in 1..Len(p) /\ i + 1 # 1
      BY <1>3
  <2>2. p[i + 1].u = p[1].u /\ p[i + 1].do \notin Inserts
      BY <2>1, <1>1 DEF WellMade, OneAccount, InsertsFirst
  <2> QED BY <2>1, <2>2, <1>3
<1> DEFINE g == IF s.do = "count" THEN Counted(db, s) ELSE <<>>
<1>6. g \in Seq(CommitRow) /\ GentleOn(g, s.u) /\ \A i \in 1..Len(g) : Fresh(s, g[i])
  <2>1. CASE s.do = "count"
      BY <2>1, <1>3, CountedFacts
  <2>2. CASE s.do # "count"
      BY <2>2 DEF GentleOn
  <2> QED BY <2>1, <2>2
<1>7. Rest(c) = g \o q
    BY DEF Rest, p
<1> HIDE DEF q, s, g, CommitRow
<1>8. /\ g \o q \in Seq(CommitRow) /\ Len(g \o q) = Len(g) + Len(q) /\ Len(g) \in Nat /\ Len(q) \in Nat
      /\ \A i \in 1..Len(g) : (g \o q)[i] = g[i]
      /\ \A i \in 1..(Len(g) + Len(q)) : i > Len(g) => i - Len(g) \in 1..Len(q) /\ (g \o q)[i] = q[i - Len(g)]
    BY <1>3, <1>6, Joined
<1>9. WellMade(g \o q)
  <2>1. \A i \in 1..Len(g) : g[i].do # "count"
      BY <1>6 DEF Fresh
  <2> QED BY <2>1, <1>3, <1>4, <1>5, <1>6, Prefixed
<1> DEFINE r == g \o q
<1>10. \A i \in 1..Len(r) : r[i].u = s.u /\ r[i].do \notin Inserts /\ (Fresh(s, r[i]) \/ \E j \in 1..Len(p) : r[i] = p[j])
  <2> TAKE i \in 1..Len(r)
  <2>1. CASE i \in 1..Len(g)
      BY <2>1, <1>6, <1>8 DEF GentleOn, Touching
  <2>2. CASE i > Len(g)
    <3>1. i - Len(g) \in 1..Len(q) /\ r[i] = q[i - Len(g)]
        BY <2>2, <1>8
    <3> QED BY <3>1, <1>5
  <2> QED BY <2>1, <2>2, <1>8
<1>11. Gentle(p) => Gentle(r)
  <2> SUFFICES ASSUME Gentle(p), NEW i \in 1..Len(r) PROVE r[i].do \notin Touching
      BY DEF Gentle
  <2>1. CASE i \in 1..Len(g)
      BY <2>1, <1>6, <1>8 DEF GentleOn
  <2>2. CASE i > Len(g)
    <3>1. i - Len(g) \in 1..Len(q) /\ r[i] = q[i - Len(g)]
        BY <2>2, <1>8
    <3> QED BY <3>1, <1>4 DEF Gentle
  <2> QED BY <2>1, <2>2, <1>8
<1>12. s.do # "count" => r = q
    BY <1>3 DEF g, q
<1>13. r # <<>> => Head(r) = r[1] /\ Len(r) >= 1
    BY <1>8
<1> HIDE DEF r
<1>14. Rest(c) = r
    BY <1>7 DEF r
<1>15. /\ r \in Seq(CommitRow) /\ WellMade(r) /\ (Gentle(p) => Gentle(r))
       /\ \A i \in 1..Len(r) : /\ r[i].u = s.u /\ r[i].do \notin Inserts
                               /\ Fresh(s, r[i]) \/ \E j \in 1..Len(p) : r[i] = p[j]
       /\ s.do # "count" => r = q
       /\ r # <<>> => Head(r) = r[1] /\ Len(r) >= 1
  <2>1. r \in Seq(CommitRow) /\ WellMade(r)
      BY <1>8, <1>9 DEF r
  <2> QED BY <2>1, <1>10, <1>11, <1>12, <1>13
<1> QED BY <1>14, <1>15 DEF p, q, s

Effect(d, r, s) ==
    /\ s.do \notin Touching => Untouched(d, r)
    /\ s.do \in Touching => s.u \in User /\ RestKept(d, r, s.u)
    /\ s.do \in Inserts => r.user[s.u].in /\ r.user[s.u].email = s.v.email
    /\ s.do = "insert_auth" => r.auth[s.u].email = s.v.email
    /\ s.do \in {"insert_user", "user_email", "delete_user"} => r.auth = d.auth
    /\ s.do \in {"auth_email", "delete_auth"} => r.user = d.user
    /\ s.do = "auth_email" => r.auth[s.u].in = d.auth[s.u].in /\ (r.auth[s.u].in => r.auth[s.u].email = s.v)
    /\ s.do = "user_email" => r.user[s.u].in = d.user[s.u].in /\ (r.user[s.u].in => r.user[s.u].email = s.v)
    /\ s.do = "delete_user" => ~r.user[s.u].in
    /\ s.do = "delete_auth" => ~r.auth[s.u].in

LEMMA CommitEffect ==
    ASSUME NEW d \in DbRow, NEW s \in CommitRow
    PROVE  Commit(d, s) \in DbRow /\ Effect(d, Commit(d, s), s)
<1>1. CASE s.do \notin Touching
  <2>1. Commit(d, s) \in DbRow /\ Untouched(d, Commit(d, s))
      BY <1>1, CommitGentle
  <2> QED BY <2>1, <1>1 DEF Effect, Touching, Inserts, Emails, Deletes
<1>2. ASSUME s.do \in Touching PROVE s.u \in User
    BY <1>2 DEF CommitRow, Carries, Touching, Inserts, Emails, Deletes, OfGroups
<1>3. CASE s.do = "insert_auth"
  <2>1. s.v \in NewRow /\ s.do \in Touching
      BY <1>3 DEF CommitRow, Carries, Inserts, Touching
  <2>2. Commit(d, s) = insert_new_auth(d, s.u, s.v)
      BY <1>3 DEF Commit
  <2> DEFINE r == Commit(d, s)
  <2>3. r \in DbRow /\ r.user[s.u].in /\ r.user[s.u].email = s.v.email /\ r.auth[s.u].email = s.v.email /\ RestKept(d, r, s.u)
      BY <2>1, <2>2, <1>2, InsertedWithAuth
  <2> HIDE DEF r
  <2>4. Effect(d, r, s)
      BY <2>1, <2>3, <1>2, <1>3 DEF Effect
  <2> QED BY <2>3, <2>4 DEF r
<1>4. CASE s.do = "insert_user"
  <2>1. s.v \in NewRow /\ s.do \in Touching
      BY <1>4 DEF CommitRow, Carries, Inserts, Touching
  <2>2. Commit(d, s) = insert_new_user(d, s.u, s.v)
      BY <1>4 DEF Commit
  <2> DEFINE r == Commit(d, s)
  <2>3. r \in DbRow /\ r.user[s.u].in /\ r.user[s.u].email = s.v.email /\ r.auth = d.auth /\ RestKept(d, r, s.u)
      BY <2>1, <2>2, <1>2, UserInserted
  <2> HIDE DEF r
  <2>4. Effect(d, r, s)
      BY <2>1, <2>3, <1>2, <1>4 DEF Effect
  <2> QED BY <2>3, <2>4 DEF r
<1>5. CASE s.do = "auth_email"
  <2>1. s.v \in AddressOrNone /\ s.do \in Touching
      BY <1>5 DEF CommitRow, Carries, Emails, Touching
  <2>2. Commit(d, s) = AuthEmail(d, s.u, s.v)
      BY <1>5 DEF Commit
  <2> DEFINE r == Commit(d, s)
  <2>3. /\ r \in DbRow /\ r.user = d.user /\ r.auth[s.u].in = d.auth[s.u].in /\ RestKept(d, r, s.u)
        /\ r.auth[s.u].in => r.auth[s.u].email = s.v
      BY <2>1, <2>2, <1>2, AuthEmailChanged
  <2> HIDE DEF r
  <2>4. Effect(d, r, s)
      BY <2>1, <2>3, <1>2, <1>5 DEF Effect, Inserts
  <2> QED BY <2>3, <2>4 DEF r
<1>6. CASE s.do = "user_email"
  <2>1. s.v \in AddressOrNone /\ s.do \in Touching
      BY <1>6 DEF CommitRow, Carries, Emails, Touching
  <2>2. Commit(d, s) = UserEmail(d, s.u, s.v)
      BY <1>6 DEF Commit
  <2> DEFINE r == Commit(d, s)
  <2>3. /\ r \in DbRow /\ r.auth = d.auth /\ r.user[s.u].in = d.user[s.u].in /\ RestKept(d, r, s.u)
        /\ r.user[s.u].in => r.user[s.u].email = s.v
      BY <2>1, <2>2, <1>2, UserEmailChanged
  <2> HIDE DEF r
  <2>4. Effect(d, r, s)
      BY <2>1, <2>3, <1>2, <1>6 DEF Effect, Inserts
  <2> QED BY <2>3, <2>4 DEF r
<1>7. CASE s.do = "delete_user"
  <2>1. Commit(d, s) = DeleteUser(d, s.u) /\ s.do \in Touching
      BY <1>7 DEF Commit, Touching, Deletes
  <2> DEFINE r == Commit(d, s)
  <2>2. r \in DbRow /\ r.auth = d.auth /\ ~r.user[s.u].in /\ RestKept(d, r, s.u)
      BY <2>1, <1>2, UserDeleted
  <2> HIDE DEF r
  <2>3. Effect(d, r, s)
      BY <2>1, <2>2, <1>2, <1>7 DEF Effect, Inserts
  <2> QED BY <2>2, <2>3 DEF r
<1>8. CASE s.do = "delete_auth"
  <2>1. Commit(d, s) = DeleteAuth(d, s.u) /\ s.do \in Touching
      BY <1>8 DEF Commit, Touching, Deletes
  <2> DEFINE r == Commit(d, s)
  <2>2. r \in DbRow /\ r.user = d.user /\ ~r.auth[s.u].in /\ RestKept(d, r, s.u)
      BY <2>1, <1>2, AuthDeleted
  <2> HIDE DEF r
  <2>3. Effect(d, r, s)
      BY <2>1, <2>2, <1>2, <1>8 DEF Effect, Inserts
  <2> QED BY <2>2, <2>3 DEF r
<1> QED BY <1>1, <1>3, <1>4, <1>5, <1>6, <1>7, <1>8 DEF Touching, Inserts, Emails, Deletes

\* No commit that is not refused gives two accounts one email.
LEMMA EmailsStayDifferent ==
    ASSUME NEW d \in DbRow, NEW s \in CommitRow, NEW r \in DbRow, Effect(d, r, s), ~Refused(d, s), EmailsDiffer(d)
    PROVE  EmailsDiffer(r)
<1>1. \A x \in User : x \in Users(d) <=> d.user[x].in
    BY DEF Users
<1>2. \A x \in User : x \in Users(r) <=> r.user[x].in
    BY DEF Users
<1>3. SUFFICES ASSUME NEW x \in User, NEW y \in User, r.user[x].in, r.user[y].in, x # y PROVE r.user[x].email # r.user[y].email
    BY <1>2 DEF EmailsDiffer, Users
<1>4. \A u, v \in User : d.user[u].in /\ d.user[v].in /\ u # v => d.user[u].email # d.user[v].email
    BY <1>1 DEF EmailsDiffer
<1>5. CASE s.do \notin Touching
    BY <1>5, <1>3, <1>4 DEF Effect, Untouched
<1>6. CASE s.do \in Inserts
  <2>1. \A u \in User : d.user[u].in => d.user[u].email # s.v.email
      BY <1>6, <1>1 DEF Refused, Free, Inserts
  <2>2. s.u \in User /\ r.user[s.u].email = s.v.email /\ RestKept(d, r, s.u)
      BY <1>6 DEF Effect, Touching
  <2> QED BY <2>1, <2>2, <1>3, <1>4 DEF RestKept
<1>7. CASE s.do = "user_email"
  <2>1. \A u \in User : d.user[u].in /\ u # s.u => d.user[u].email # s.v
      BY <1>7, <1>1 DEF Refused, ByEmail
  <2>2. s.u \in User /\ RestKept(d, r, s.u) /\ (r.user[s.u].in => r.user[s.u].email = s.v)
      BY <1>7 DEF Effect, Touching, Emails
  <2> QED BY <2>1, <2>2, <1>3, <1>4 DEF RestKept
<1>8. CASE s.do \in {"auth_email", "delete_auth"}
    BY <1>8, <1>3, <1>4 DEF Effect
<1>9. CASE s.do = "delete_user"
  <2>1. s.u \in User /\ RestKept(d, r, s.u) /\ ~r.user[s.u].in
      BY <1>9 DEF Effect, Touching, Deletes
  <2> QED BY <2>1, <1>3, <1>4 DEF RestKept
<1> QED BY <1>5, <1>6, <1>7, <1>8, <1>9 DEF Touching, Emails, Deletes

\* The two outcomes of a step: the database refuses the commit and the request ends, or it goes on.
GivesUp(c) ==
    /\ Refused(db, Head(job[c])) /\ job' = [job EXCEPT ![c] = <<>>] /\ db' = db /\ promoted' = promoted
    /\ tidy' = (tidy /\ Head(job[c]).do # "user_email")
Commits(c) ==
    LET s == Head(job[c]) IN
    /\ ~Refused(db, s) /\ job' = [job EXCEPT ![c] = Rest(c)] /\ db' = Commit(db, s) /\ tidy' = tidy
    /\ promoted' = IF s.do = "promote" /\ db.user[s.u].in THEN promoted \cup {s.u}
                   ELSE IF s.do = "delete_user" THEN promoted \ {s.u} ELSE promoted

LEMMA StepOutcome ==
    ASSUME AccTypes, NEW c \in AccountClient, AccountStep(c)
    PROVE  job[c] # <<>> /\ (GivesUp(c) \/ Commits(c))
<1>1. job[c] # <<>>
    BY DEF AccountStep
<1>2. CASE Refused(db, Head(job[c]))
    BY <1>1, <1>2 DEF AccountStep, GivesUp
<1>3. CASE ~Refused(db, Head(job[c]))
  <2>1. job' = [job EXCEPT ![c] = (IF Head(job[c]).do = "count" THEN Counted(db, Head(job[c])) ELSE <<>>) \o Tail(job[c])]
      BY <1>3 DEF AccountStep
  <2>2. job' = [job EXCEPT ![c] = Rest(c)]
      BY <2>1 DEF Rest
  <2> QED BY <2>2, <1>3 DEF AccountStep, Commits
<1> QED BY <1>1, <1>2, <1>3

LEMMA EmptyMade == WellMade(<<>>) /\ Gentle(<<>>) /\ <<>> \in Seq(CommitRow)
BY DEF WellMade, OneAccount, InsertsFirst, BothEmails, OneEmail, DeletesLast, CountsNew, Gentle

LEMMA UsersOf == ASSUME NEW d, NEW u \in User PROVE u \in Users(d) <=> d.user[u].in
BY DEF Users

LEMMA HeadRow ==
    ASSUME AccTypes, NEW c \in AccountClient, job[c] # <<>>
    PROVE  /\ job[c] \in Seq(CommitRow) /\ WellMade(job[c]) /\ Head(job[c]) \in CommitRow
           /\ Head(job[c]) = job[c][1] /\ 1 \in 1..Len(job[c]) /\ Len(job[c]) \in Nat
           /\ \A i \in 1..Len(job[c]) : job[c][i].u = Head(job[c]).u
<1>1. job[c] \in Seq(CommitRow) /\ WellMade(job[c])
    BY DEF AccTypes
<1> HIDE DEF CommitRow
<1>2. Head(job[c]) \in CommitRow /\ Head(job[c]) = job[c][1] /\ 1 \in 1..Len(job[c]) /\ Len(job[c]) \in Nat
    BY <1>1
<1> QED BY <1>1, <1>2 DEF WellMade, OneAccount

LEMMA NextPrograms ==
    ASSUME AccTypes, NEW c \in AccountClient, NEW q, job' = [job EXCEPT ![c] = q]
    PROVE  job'[c] = q /\ \A o \in AccountClient : o # c => job'[o] = job[o]
BY DEF AccTypes

LEMMA StepTypes ==
    ASSUME AccTypes, EmailsDiffer(db), NEW c \in AccountClient, AccountStep(c)
    PROVE  AccTypes' /\ EmailsDiffer(db')
<1> DEFINE s == Head(job[c])
<1>1. job[c] # <<>> /\ (GivesUp(c) \/ Commits(c))
    BY StepOutcome
<1>2. db \in DbRow /\ promoted \subseteq Users(db) /\ tidy \in BOOLEAN /\ job \in [AccountClient -> Seq(CommitRow)]
      /\ \A o \in AccountClient : WellMade(job[o])
    BY DEF AccTypes
<1>3. CASE GivesUp(c)
  <2>1. db' = db /\ promoted' = promoted /\ tidy' \in BOOLEAN /\ job' = [job EXCEPT ![c] = <<>>]
      BY <1>2, <1>3 DEF GivesUp
  <2>2. job' \in [AccountClient -> Seq(CommitRow)] /\ \A o \in AccountClient : WellMade(job'[o])
    <3> HIDE DEF CommitRow
    <3> QED BY <2>1, <1>2, EmptyMade
  <2> QED BY <2>1, <2>2, <1>2 DEF AccTypes
<1>4. CASE Commits(c)
  <2>1. db' = Commit(db, s) /\ tidy' \in BOOLEAN /\ job' = [job EXCEPT ![c] = Rest(c)] /\ ~Refused(db, s) /\ s \in CommitRow
      BY <1>1, <1>2, <1>4, HeadRow DEF Commits
  <2>2. Rest(c) \in Seq(CommitRow) /\ WellMade(Rest(c))
      BY <1>1, RestFacts
  <2>3. job' \in [AccountClient -> Seq(CommitRow)] /\ \A o \in AccountClient : WellMade(job'[o])
    <3> HIDE DEF CommitRow
    <3> QED BY <2>1, <2>2, <1>2
  <2>4. db' \in DbRow /\ Effect(db, db', s)
      BY <2>1, <1>2, CommitEffect
  <2>5. EmailsDiffer(db')
      BY <2>1, <2>4, <1>2, EmailsStayDifferent
  <2>6. \A u \in User : db.user[u].in /\ ~(s.do = "delete_user" /\ u = s.u) => db'.user[u].in
    <3> TAKE u \in User
    <3>1. CASE s.do \notin Touching
        BY <3>1, <2>4 DEF Effect, Untouched
    <3>2. CASE s.do \in Touching
      <4>1. RestKept(db, db', s.u)
          BY <3>2, <2>4 DEF Effect
      <4> QED BY <4>1, <3>2, <2>4 DEF Effect, RestKept, Touching, Inserts, Emails, Deletes
    <3> QED BY <3>1, <3>2
  <2>7. promoted' \subseteq Users(db')
    <3>1. promoted' \subseteq Users(db) /\ ~(s.do = "delete_user" /\ s.u \in promoted')
      <4>1. promoted' = IF s.do = "promote" /\ db.user[s.u].in THEN promoted \cup {s.u}
                        ELSE IF s.do = "delete_user" THEN promoted \ {s.u} ELSE promoted
          BY <1>4 DEF Commits
      <4>2. s.do = "promote" => s.u \in User
          BY <2>1 DEF CommitRow, Carries, OfGroups
      <4> QED BY <4>1, <4>2, <1>2, UsersOf
    <3>2. SUFFICES ASSUME NEW u \in promoted' PROVE u \in Users(db')
        OBVIOUS
    <3>3. u \in User /\ db.user[u].in
        BY <3>1 DEF Users
    <3> QED BY <3>1, <3>3, <2>6, UsersOf
  <2> QED BY <2>1, <2>3, <2>4, <2>5, <2>7 DEF AccTypes
<1> QED BY <1>1, <1>3, <1>4

LEMMA StepMarks ==
    ASSUME AccTypes, OneMarked, AccTypes', NEW c \in AccountClient, AccountStep(c)
    PROVE  OneMarked'
<1> DEFINE s == Head(job[c])
<1>1. job[c] # <<>> /\ (GivesUp(c) \/ Commits(c))
    BY StepOutcome
<1>2. promoted \subseteq Users(db)
    BY DEF AccTypes
<1>3. CASE GivesUp(c)
  <2>1. db' = db /\ promoted' = promoted /\ job' = [job EXCEPT ![c] = <<>>]
      BY <1>3 DEF GivesUp
  <2>2. job'[c] = <<>> /\ \A o \in AccountClient : o # c => job'[o] = job[o]
      BY <2>1, NextPrograms
  <2>3. \A u \in User : Marked(u)' => Marked(u)
      BY <2>1, <2>2 DEF Marked, Promoting
  <2>4. \A x, o \in AccountClient : \A i \in 1..Len(job'[o]) :
           Inserting(x)' => x # c /\ o # c /\ Inserting(x) /\ job'[x] = job[x] /\ job'[o] = job[o]
      BY <2>2 DEF Inserting
  <2> QED BY <2>1, <2>3, <2>4 DEF OneMarked, Users
<1>4. CASE Commits(c)
  <2>1. /\ db' = Commit(db, s) /\ job' = [job EXCEPT ![c] = Rest(c)]
        /\ promoted' = IF s.do = "promote" /\ db.user[s.u].in THEN promoted \cup {s.u}
                       ELSE IF s.do = "delete_user" THEN promoted \ {s.u} ELSE promoted
      BY <1>4 DEF Commits
  <2>2. job'[c] = Rest(c) /\ \A o \in AccountClient : o # c => job'[o] = job[o]
      BY <2>1, NextPrograms
  <2>3. /\ s \in CommitRow /\ s = job[c][1] /\ 1 \in 1..Len(job[c])
        /\ \A i \in 1..Len(job[c]) : job[c][i].u = s.u
      BY <1>1, HeadRow
  <2>4. Effect(db, db', s)
      BY <2>1, <2>3, CommitEffect DEF AccTypes
  <2>5. \A i \in 1..Len(Rest(c)) : /\ Rest(c)[i].u = s.u /\ Rest(c)[i].do \notin Inserts
                                   /\ Fresh(s, Rest(c)[i]) \/ \E j \in 1..Len(job[c]) : Rest(c)[i] = job[c][j]
      BY <1>1, RestFacts
  <2>6. Rest(c) # <<>> => Head(Rest(c)) = Rest(c)[1] /\ 1 \in 1..Len(Rest(c))
      BY <1>1, RestFacts
  <2>7. ~Inserting(c)'
      BY <2>2, <2>5, <2>6 DEF Inserting
  <2> HIDE DEF s
  <2>8. \A x, o \in AccountClient : \A i \in 1..Len(job'[o]) :
           Inserting(x)' /\ job'[o][i].u = Head(job'[x]).u
             => job'[o][i].do # "promote" /\ (o # x => job'[o][i].do # "count")
    <3> SUFFICES ASSUME NEW x \in AccountClient, NEW o \in AccountClient, NEW i \in 1..Len(job'[o]),
                        Inserting(x)', job'[o][i].u = Head(job'[x]).u
                 PROVE  job'[o][i].do # "promote" /\ (o # x => job'[o][i].do # "count")
        OBVIOUS
    <3>1. x # c /\ job'[x] = job[x] /\ Inserting(x)
        BY <2>2, <2>7 DEF Inserting
    <3>2. CASE o # c
        BY <3>1, <3>2, <2>2 DEF OneMarked
    <3>3. CASE o = c
      <4>1. job'[o][i] = Rest(c)[i] /\ i \in 1..Len(Rest(c))
          BY <3>3, <2>2
      <4>2. \A j \in 1..Len(job[c]) : job[c][j].u = Head(job[x]).u => job[c][j].do # "promote" /\ job[c][j].do # "count"
          BY <3>1 DEF OneMarked
      <4>3. s.u = Head(job[x]).u
          BY <4>1, <3>1, <2>5
      <4>4. ~Fresh(s, Rest(c)[i])
          BY <4>2, <4>3, <2>3 DEF Fresh
      <4>5. PICK j \in 1..Len(job[c]) : Rest(c)[i] = job[c][j]
          BY <4>1, <4>4, <2>5
      <4> QED BY <4>1, <4>2, <4>3, <4>5, <2>3
    <3> QED BY <3>2, <3>3
  <2>9. \A u, v \in Users(db') : Marked(u)' /\ Marked(v)' => u = v
    <3>1. CASE s.do = "count" /\ Cardinality(Users(db)) = 1
      <4>1. \E w : Users(db) = {w}
          BY <3>1, CountTyped, FS_Singleton
      <4>2. Users(db') = Users(db)
          BY <3>1, <2>4 DEF Effect, Touching, Inserts, Emails, Deletes, Untouched, Users
      <4> QED BY <4>1, <4>2
    <3>2. CASE ~(s.do = "count" /\ Cardinality(Users(db)) = 1)
      <4>1. \A o \in AccountClient, u \in User : Promoting(o, u)' => Promoting(o, u)
        <5> SUFFICES ASSUME NEW o \in AccountClient, NEW u \in User, NEW i \in 1..Len(job'[o]),
                            job'[o][i].do = "promote", job'[o][i].u = u
                     PROVE  Promoting(o, u)
            BY DEF Promoting
        <5>1. CASE o # c
            BY <5>1, <2>2 DEF Promoting
        <5>2. CASE o = c
          <6>1. job'[o][i] = Rest(c)[i] /\ i \in 1..Len(Rest(c))
              BY <5>2, <2>2
          <6>2. PICK j \in 1..Len(job[c]) : Rest(c)[i] = job[c][j]
              BY <6>1, <3>2, <2>5 DEF Fresh
          <6> QED BY <6>1, <6>2, <5>2 DEF Promoting
        <5> QED BY <5>1, <5>2
      <4>2. s.do = "promote" => Promoting(c, s.u)
          BY <2>3 DEF Promoting
      <4>3. \A u \in User : Marked(u)' => Marked(u)
          BY <4>1, <4>2, <2>1 DEF Marked
      <4>4. \A u \in Users(db') : Marked(u)' => u \in Users(db)
        <5> SUFFICES ASSUME NEW u \in User, db'.user[u].in, Marked(u)', ~db.user[u].in PROVE FALSE
            BY UsersOf DEF Users
        <5>1. s.do \in Inserts /\ u = s.u
          <6>1. CASE s.do \notin Touching
              BY <6>1, <2>4 DEF Effect, Untouched
          <6>2. CASE s.do \in Touching /\ u # s.u
              BY <6>2, <2>4 DEF Effect, RestKept
          <6>3. CASE s.do \in Emails \cup Deletes
              BY <6>3, <2>4, <6>2 DEF Effect, Emails, Deletes, Touching
          <6> QED BY <6>1, <6>2, <6>3 DEF Touching
        <5>2. Inserting(c)
            BY <5>1, <1>1 DEF Inserting, s
        <5>3. \A o \in AccountClient : ~Promoting(o, u)
            BY <5>1, <5>2 DEF OneMarked, Promoting, s
        <5>4. u \notin promoted
            BY <1>2, UsersOf
        <5> QED BY <5>3, <5>4, <4>3 DEF Marked
      <4> QED BY <4>3, <4>4 DEF OneMarked, Users
    <3> QED BY <3>1, <3>2
  <2> QED BY <2>8, <2>9 DEF OneMarked
<1> QED BY <1>1, <1>3, <1>4

(* What a program owes its account depends on the account's credentials only. *)
LEMMA OwesStays ==
    ASSUME NEW d, NEW r, NEW u \in User, r.auth[u] = d.auth[u], r.user[u].in = d.user[u].in, NEW p, Owes(d, u, p)
    PROVE  Owes(r, u, p)
BY DEF Owes, Agree

LEMMA GentleOwes ==
    ASSUME NEW p \in Seq(CommitRow), Gentle(p), p # <<>>, NEW d, NEW u
    PROVE  Owes(d, u, p)
<1> HIDE DEF CommitRow
<1>1. Head(p) = p[1] /\ 1 \in 1..Len(p) /\ Len(p) \in 1..Len(p)
    OBVIOUS
<1> QED BY <1>1 DEF Owes, Gentle, Touching, Inserts, Emails, Deletes

\* A request on an account goes on: what is to be shown of its own account.
CommitGoes(c, q, u) ==
    /\ job[c] # <<>> /\ Head(job[c]).u = u /\ job' = [job EXCEPT ![c] = q]
    /\ q \in Seq(CommitRow) /\ (Gentle(job[c]) => Gentle(q))
    /\ q # <<>> => Head(q).u = u
    /\ \/ Untouched(db, db')
       \/ ~Gentle(job[c]) /\ u \in User /\ RestKept(db, db', u)
LEMMA CredGoes ==
    ASSUME AccTypes, AccTypes', CredInv, tidy, NEW c \in AccountClient, NEW q, NEW u, CommitGoes(c, q, u),
           u \in User => /\ q # <<>> => Owes(db', u, q)
                         /\ \/ Settled(db', u) \/ Midway(c, u)'
                            \/ \E o \in AccountClient : o # c /\ Midway(o, u)
    PROVE  CredInv'
<1>1. job'[c] = q /\ \A o \in AccountClient : o # c => job'[o] = job[o]
    BY NextPrograms DEF CommitGoes
<1>2. \A o \in AccountClient, x \in User : o # c => (NextOn(o, x)' <=> NextOn(o, x)) /\ (Midway(o, x)' <=> Midway(o, x))
    BY <1>1 DEF NextOn, Midway
<1>3. \A x \in User : NextOn(c, x)' => x = u /\ q # <<>>
    BY <1>1 DEF NextOn, CommitGoes
<1>4. \A x \in User : x # u => db'.auth[x] = db.auth[x] /\ db'.user[x].in = db.user[x].in /\ db'.user[x].email = db.user[x].email
    BY DEF CommitGoes, Untouched, RestKept
<1>5. ASSUME NEW x \in User PROVE Settled(db', x) \/ \E o \in AccountClient : Midway(o, x)'
  <2>1. CASE x = u
      BY <2>1, <1>2
  <2>2. CASE x # u
    <3>1. CASE Settled(db, x)
        BY <3>1, <2>2, <1>4 DEF Settled
    <3>2. CASE ~Settled(db, x)
      <4>1. PICK o \in AccountClient : Midway(o, x)
          BY <3>2 DEF CredInv
      <4>2. o # c
          BY <4>1, <2>2 DEF Midway, NextOn, CommitGoes
      <4> QED BY <4>1, <4>2, <1>2
    <3> QED BY <3>1, <3>2
  <2> QED BY <2>1, <2>2
<1>6. ASSUME NEW x \in User, NEW o \in AccountClient, NextOn(o, x)' PROVE Owes(db', x, job'[o])
  <2>1. CASE o = c
      BY <2>1, <1>1, <1>3, <1>6
  <2>2. CASE o # c
    <3>1. NextOn(o, x) /\ job'[o] = job[o] /\ Owes(db, x, job[o])
        BY <2>2, <1>1, <1>2, <1>6 DEF CredInv
    <3>2. CASE x # u \/ Untouched(db, db')
      <4>1. db'.auth[x] = db.auth[x] /\ db'.user[x].in = db.user[x].in
          BY <3>2, <1>4 DEF Untouched
      <4> QED BY <3>1, <4>1, OwesStays
    <3>3. CASE x = u /\ ~Untouched(db, db')
      <4>1. ~Gentle(job[c]) /\ NextOn(c, x)
          BY <3>3 DEF CommitGoes, NextOn
      <4>2. Gentle(job[o])
          BY <4>1, <3>1, <2>2 DEF CredInv
      <4>3. job[o] \in Seq(CommitRow) /\ job[o] # <<>>
          BY <3>1 DEF AccTypes, NextOn
      <4> QED BY <3>1, <4>2, <4>3, GentleOwes
    <3> QED BY <3>2, <3>3
  <2> QED BY <2>1, <2>2
<1>7. ASSUME NEW x \in User, NEW o \in AccountClient, NEW b \in AccountClient, NextOn(o, x)', NextOn(b, x)', o # b
      PROVE  Gentle(job'[o]) \/ Gentle(job'[b])
  <2>1. \A y \in AccountClient : NextOn(y, x)' => NextOn(y, x) /\ (Gentle(job[y]) => Gentle(job'[y]))
    <3> TAKE y \in AccountClient
    <3>1. CASE y = c
        BY <3>1, <1>1, <1>3 DEF CommitGoes, NextOn
    <3>2. CASE y # c
        BY <3>2, <1>1, <1>2
    <3> QED BY <3>1, <3>2
  <2> QED BY <2>1, <1>7 DEF CredInv
<1> QED BY <1>5, <1>6, <1>7 DEF CredInv

LEMMA StepCred ==
    ASSUME AccTypes, CredInv, AccTypes', NEW c \in AccountClient, AccountStep(c)
    PROVE  CredInv'
<1> SUFFICES ASSUME tidy' PROVE CredInv'
    BY DEF CredInv
<1> DEFINE s == Head(job[c])
           p == job[c]
           q == Rest(c)
<1>0. PICK u : u = s.u
    OBVIOUS
<1>1. job[c] # <<>> /\ (GivesUp(c) \/ Commits(c))
    BY StepOutcome
<1>2. /\ p \in Seq(CommitRow) /\ WellMade(p) /\ s \in CommitRow /\ s = p[1] /\ 1 \in 1..Len(p) /\ Len(p) \in Nat
      /\ \A i \in 1..Len(p) : p[i].u = u
    BY <1>0, <1>1, HeadRow
<1>3. tidy
    BY <1>1 DEF GivesUp, Commits
<1>4. u \in User => NextOn(c, u) /\ Owes(db, u, p)
    BY <1>0, <1>1, <1>3 DEF CredInv, NextOn
<1>5. ASSUME u \in User, s.do \notin {"user_email", "delete_auth"}
      PROVE  Settled(db, u) \/ \E o \in AccountClient : o # c /\ Midway(o, u)
    BY <1>3, <1>5 DEF CredInv, Midway
<1>6. ASSUME u \in User, s.do \notin {"user_email", "delete_auth"}, ~Gentle(p) PROVE Settled(db, u)
  <2>1. SUFFICES ASSUME NEW o \in AccountClient, o # c, Midway(o, u) PROVE FALSE
      BY <1>5, <1>6
  <2>2. Gentle(job[o])
      BY <2>1, <1>3, <1>4, <1>6 DEF CredInv, Midway
  <2>3. Head(job[o]) = job[o][1] /\ 1 \in 1..Len(job[o])
      BY <2>1, HeadRow DEF Midway, NextOn
  <2> QED BY <2>1, <1>0, <2>2, <2>3 DEF Midway, Gentle, Touching, Emails, Deletes
<1>7. s.do \in Touching => ~Gentle(p) /\ u \in User
    BY <1>0, <1>2 DEF Gentle, CommitRow, Carries, Touching, Inserts, Emails, Deletes, OfGroups
<1>8. CASE GivesUp(c)
  <2>1. s.do \in Inserts /\ db' = db /\ job' = [job EXCEPT ![c] = <<>>]
      BY <1>8 DEF GivesUp, Refused, Inserts
  <2>2. u \in User /\ Settled(db', u)
      BY <2>1, <1>6, <1>7 DEF Touching, Inserts
  <2>3. CommitGoes(c, <<>>, u)
      BY <1>0, <2>1, <1>1, EmptyMade DEF CommitGoes, Untouched
  <2> QED BY <2>2, <2>3, <1>3, CredGoes
<1>9. CASE Commits(c)
  <2>1. db' = Commit(db, s) /\ job' = [job EXCEPT ![c] = q]
      BY <1>9 DEF Commits
  <2>2. Effect(db, db', s)
      BY <2>1, <1>2, CommitEffect DEF AccTypes
  <2>3. /\ q \in Seq(CommitRow) /\ WellMade(q) /\ (Gentle(p) => Gentle(q))
        /\ \A i \in 1..Len(q) : /\ q[i].u = u /\ q[i].do \notin Inserts
                                /\ Fresh(s, q[i]) \/ \E j \in 1..Len(p) : q[i] = p[j]
        /\ q # <<>> => Head(q) = q[1] /\ Len(q) >= 1
        /\ s.do # "count" => q = Tail(p)
      BY <1>0, <1>1, RestFacts
  <2> HIDE DEF q
  <2>4. CommitGoes(c, q, u)
    <3>1. q # <<>> => Head(q).u = u
      <4>1. q # <<>> => 1 \in 1..Len(q)
          BY <2>3
      <4> QED BY <4>1, <2>3
    <3>2. Untouched(db, db') \/ (~Gentle(p) /\ u \in User /\ RestKept(db, db', u))
        BY <1>0, <2>2, <1>7 DEF Effect
    <3> QED BY <1>0, <3>1, <3>2, <2>1, <2>3, <1>1 DEF CommitGoes
  <2>5. ASSUME u \in User, s.do # "count"
        PROVE  /\ \A i \in 1..Len(q) : q[i] = p[i + 1] /\ i + 1 \in 1..Len(p)
               /\ Len(q) = Len(p) - 1 /\ Len(p) \in Nat \ {0}
    <3>1. q = Tail(p)
        BY <2>3, <2>5
    <3>2. Len(Tail(p)) = Len(p) - 1 /\ Len(p) \in Nat \ {0} /\ \A i \in 1..(Len(p) - 1) : Tail(p)[i] = p[i + 1]
        BY <1>1, <1>2, TailFacts
    <3> QED BY <3>1, <3>2
  \* What is left owes no more than the whole did, but where the commit changed the credentials.
  <2>6. ASSUME u \in User, q # <<>> PROVE Owes(db', u, q)
    <3>1. 1 \in 1..Len(q) /\ Len(q) \in 1..Len(q) /\ Head(q) = q[1] /\ Head(q).do \notin Inserts
        BY <2>3, <2>6
    <3>2. CASE Gentle(p)
        BY <3>2, <2>3, <2>6, GentleOwes
    <3>3. CASE ~Gentle(p)
      <4>1. s.do # "count"
        <5>1. PICK i \in 1..Len(p) : p[i].do \in Touching
            BY <3>3 DEF Gentle
        <5>2. p[i].do \in Inserts => i = 1
            BY <1>2 DEF WellMade, InsertsFirst
        <5> QED BY <5>1, <5>2, <1>2 DEF WellMade, CountsNew, Touching, Inserts
      <4>2. /\ \A i \in 1..Len(q) : q[i] = p[i + 1] /\ i + 1 \in 1..Len(p)
            /\ Len(q) = Len(p) - 1 /\ Len(p) \in Nat \ {0}
          BY <4>1, <2>5, <2>6
      <4>3. s.do \in Inserts => \A i \in 1..Len(p) : p[i].do \notin Emails \cup Deletes
          BY <1>2 DEF WellMade, InsertsFirst
      <4>4. Len(p) > 1 /\ s.do # "delete_auth" /\ (s.do = "delete_user" => Len(p) = 2 /\ p[2].do = "delete_auth")
        <5>1. Len(p) > 1 /\ Len(p) \in Nat
            BY <4>2, <3>1
        <5>2. s.do = "delete_auth" => 1 = Len(p)
            BY <1>2 DEF WellMade, DeletesLast
        <5>3. s.do = "delete_user" => 1 = Len(p) \/ (1 + 1 = Len(p) /\ p[1 + 1].do = "delete_auth")
            BY <1>2 DEF WellMade, DeletesLast
        <5>4. s.do = "delete_user" => Len(p) = 2 /\ p[2].do = "delete_auth"
            BY <5>1, <5>3
        <5>5. ASSUME s.do = "delete_auth" PROVE FALSE
          <6>1. Len(p) = 1
              BY <5>2, <5>5
          <6> QED BY <6>1, <5>1
        <5> QED BY <5>1, <5>4, <5>5
      <4>5. q[Len(q)].do = "delete_user" => ~db'.auth[u].in
        <5> HAVE q[Len(q)].do = "delete_user"
        <5>1. p[Len(p)].do = "delete_user" /\ Len(p) \in 1..Len(p)
            BY <4>2, <3>1
        <5>2. ~db.auth[u].in
            BY <5>1, <1>4, <2>6 DEF Owes
        <5>3. s.do \notin Inserts
            BY <5>1, <4>3 DEF Deletes
        <5> QED BY <5>2, <5>3, <4>4, <1>0, <2>2, <2>6 DEF Effect, Untouched, Touching, Emails, Deletes
      <4>6. ASSUME NEW i \in 1..Len(q), q[i].do = "user_email", \A j \in 1..(i - 1) : q[j].do # "auth_email"
            PROVE  Agree(db', u, q[i].v)
        <5>1. p[i + 1].do = "user_email" /\ q[i].v = p[i + 1].v /\ i + 1 \in 1..Len(p)
            BY <4>2, <4>6
        <5>2. s.do \notin Inserts \cup Deletes
            BY <5>1, <4>2, <4>3, <4>4 DEF Emails, Deletes
        <5>3. CASE s.do = "auth_email"
          <6>1. p[i + 1].v = s.v
              BY <5>1, <5>3, <1>2 DEF WellMade, OneEmail, Emails
          <6>2. Settled(db, u)
              BY <5>3, <3>3, <2>6, <1>6
          <6> QED BY <6>1, <6>2, <5>1, <5>3, <1>0, <2>2 DEF Effect, Agree, Settled
        <5>4. CASE s.do # "auth_email"
          <6>1. \A j \in 1..((i + 1) - 1) : p[j].do # "auth_email"
            <7> TAKE j \in 1..((i + 1) - 1)
            <7>1. CASE j = 1
                BY <7>1, <5>4, <1>2
            <7>2. CASE j # 1
              <8>1. j - 1 \in 1..(i - 1) /\ j - 1 \in 1..Len(q) /\ (j - 1) + 1 = j
                  BY <7>2, <4>2
              <8> QED BY <8>1, <4>2, <4>6
            <7> QED BY <7>1, <7>2
          <6>2. Agree(db, u, p[i + 1].v)
              BY <6>1, <5>1, <1>4, <2>6 DEF Owes
          <6>3. db'.auth[u] = db.auth[u] /\ db'.user[u].in = db.user[u].in
              BY <5>2, <5>4, <1>0, <2>2, <2>6 DEF Effect, Untouched, Touching, Emails
          <6> QED BY <6>2, <6>3, <5>1 DEF Agree
        <5> QED BY <5>3, <5>4
      <4> QED BY <3>1, <4>5, <4>6 DEF Owes
    <3> QED BY <3>2, <3>3
  <2>7. ASSUME u \in User
        PROVE  \/ Settled(db', u) \/ Midway(c, u)'
               \/ \E o \in AccountClient : o # c /\ Midway(o, u)
    <3>1. job'[c] = q
        BY <2>1, NextPrograms
    <3>2. CASE s.do \notin Touching
      <4>1. s.do \notin {"user_email", "delete_auth"}
          BY <3>2 DEF Touching, Emails, Deletes
      <4>2. Settled(db, u) => Settled(db', u)
          BY <3>2, <1>0, <2>2, <2>7 DEF Effect, Untouched, Settled
      <4> QED BY <4>1, <4>2, <1>5, <2>7
    <3>3. CASE s.do = "insert_auth"
        BY <3>3, <1>0, <2>2 DEF Effect, Settled, Inserts
    <3>4. CASE s.do = "insert_user"
        BY <3>4, <1>0, <2>2, <2>7, <1>4 DEF Effect, Settled, Owes, Inserts
    <3>5. CASE s.do = "user_email"
      <4>1. Agree(db, u, s.v)
          BY <3>5, <2>7, <1>2, <1>4 DEF Owes
      <4> QED BY <4>1, <3>5, <1>0, <2>2 DEF Effect, Settled, Agree
    <3>6. CASE s.do = "delete_auth"
        BY <3>6, <1>0, <2>2 DEF Effect, Settled
    <3>7. CASE s.do = "auth_email"
      <4>1. Len(p) > 1 /\ p[2].do = "user_email"
          BY <3>7, <1>2 DEF WellMade, BothEmails
      <4>2. 1 \in 1..Len(q) /\ q[1] = p[2]
          BY <4>1, <3>7, <2>5, <2>7
      <4>3. q # <<>> /\ Head(q).u = u /\ Head(q).do = "user_email"
          BY <4>1, <4>2, <2>3
      <4> QED BY <4>3, <3>1 DEF Midway, NextOn
    <3>8. CASE s.do = "delete_user"
      <4>1. CASE Len(p) = 1
          BY <4>1, <3>8, <1>0, <2>2, <2>7, <1>2, <1>4 DEF Effect, Settled, Owes
      <4>2. CASE Len(p) # 1
        <5>1. Len(p) > 1 /\ p[2].do = "delete_auth"
          <6>1. 1 = Len(p) \/ (1 + 1 = Len(p) /\ p[1 + 1].do = "delete_auth")
              BY <3>8, <1>2 DEF WellMade, DeletesLast
          <6> QED BY <6>1, <4>2, <1>2
        <5>2. 1 \in 1..Len(q) /\ q[1] = p[2]
            BY <5>1, <3>8, <2>5, <2>7
        <5>3. q # <<>> /\ Head(q).u = u /\ Head(q).do = "delete_auth"
            BY <5>1, <5>2, <2>3
        <5> QED BY <5>3, <3>1 DEF Midway, NextOn
      <4> QED BY <4>1, <4>2
    <3>9. s.do \notin Touching \/ s.do = "insert_auth" \/ s.do = "insert_user" \/ s.do = "user_email" \/ s.do = "auth_email"
          \/ s.do = "delete_auth" \/ s.do = "delete_user"
        BY DEF Touching, Inserts, Emails, Deletes
    <3> QED BY <3>2, <3>3, <3>4, <3>5, <3>6, <3>7, <3>8, <3>9
  <2> QED BY <2>4, <2>6, <2>7, <1>3, CredGoes
<1> QED BY <1>1, <1>8, <1>9

(* A request begins.  What its program must be for nothing to be disturbed:  *)
(* it makes nobody administrator, counts or inserts an account only when no  *)
(* other program speaks of it, and owes the account only what is there.      *)
MayBegin(u, sound, p) ==
    /\ p \in Seq(CommitRow) /\ WellMade(p)
    /\ \A i \in 1..Len(p) : p[i].do # "promote"
    /\ \A i \in 1..Len(p) : p[i].do \in Inserts \cup {"count"} => p[i].u = u /\ Unused(u)
    /\ \/ Gentle(p)
       \/ /\ u \in User /\ \A i \in 1..Len(p) : p[i].u = u
          /\ sound /\ Settled(db, u) => Owes(db, u, p)

LEMMA BeginKeeps ==
    ASSUME AccIInv, NEW c \in AccountClient, job[c] = <<>>, NEW u, NEW sound \in BOOLEAN, NEW p, StartIf(c, u, sound, p), MayBegin(u, sound, p)
    PROVE  AccIInv'
<1>1. /\ p # <<>> /\ job' = [job EXCEPT ![c] = p] /\ db' = db /\ promoted' = promoted
      /\ tidy' = (tidy /\ sound /\ \A d \in AccountClient : job[d] = <<>> \/ Head(job[d]).u # u)
    BY DEF StartIf
<1>2. AccTypes /\ EmailsDiffer(db) /\ OneMarked /\ CredInv
    BY DEF AccIInv
<1>3. job'[c] = p /\ \A o \in AccountClient : o # c => job'[o] = job[o]
    BY <1>1, <1>2, NextPrograms
<1>4. AccTypes'
  <2>1. p \in Seq(CommitRow) /\ WellMade(p) /\ job \in [AccountClient -> Seq(CommitRow)] /\ \A o \in AccountClient : WellMade(job[o])
      BY <1>2 DEF AccTypes, MayBegin
  <2>2. job' \in [AccountClient -> Seq(CommitRow)] /\ \A o \in AccountClient : WellMade(job'[o])
    <3> HIDE DEF CommitRow
    <3> QED BY <2>1, <1>1, <1>3
  <2>3. tidy' \in BOOLEAN
      BY <1>1
  <2> QED BY <2>2, <2>3, <1>1, <1>2 DEF AccTypes
<1>5. Head(p) = p[1] /\ 1 \in 1..Len(p) /\ Len(p) \in Nat
  <2>1. p \in Seq(CommitRow)
      BY DEF MayBegin
  <2> HIDE DEF CommitRow
  <2> QED BY <2>1, <1>1
<1>6. ASSUME Unused(u), NEW o \in AccountClient, o # c, NEW i \in 1..Len(job[o]) PROVE job[o][i].u # u
  <2>1. job[o] # <<>>
      BY <1>6
  <2> QED BY <2>1, <1>6 DEF Unused
<1>7. OneMarked'
  <2>1. \A x \in User : Marked(x)' => Marked(x)
    <3> SUFFICES ASSUME NEW x \in User, NEW o \in AccountClient, Promoting(o, x)' PROVE Promoting(o, x)
        BY <1>1 DEF Marked
    <3>1. o # c
        BY <1>3 DEF Promoting, MayBegin
    <3> QED BY <3>1, <1>3 DEF Promoting
  <2>2. ASSUME NEW x \in AccountClient, NEW o \in AccountClient, NEW i \in 1..Len(job'[o]), Inserting(x)', job'[o][i].u = Head(job'[x]).u
        PROVE  job'[o][i].do # "promote" /\ (o # x => job'[o][i].do # "count")
    <3>1. CASE x = c
      <4>1. Head(p).u = u /\ Unused(u)
          BY <3>1, <2>2, <1>3, <1>5 DEF Inserting, MayBegin
      <4>2. o = c
          BY <4>1, <3>1, <2>2, <1>3, <1>6
      <4> QED BY <4>2, <3>1, <2>2, <1>3 DEF MayBegin
    <3>2. CASE x # c /\ o = c
      <4>1. job[x] # <<>> /\ Head(job[x]) = job[x][1] /\ 1 \in 1..Len(job[x])
          BY <3>2, <2>2, <1>2, <1>3, HeadRow DEF Inserting
      <4>2. p[i].do # "count"
          BY <4>1, <3>2, <2>2, <1>3, <1>6 DEF MayBegin
      <4> QED BY <4>2, <3>2, <2>2, <1>3 DEF MayBegin
    <3>3. CASE x # c /\ o # c
        BY <3>3, <2>2, <1>2, <1>3 DEF Inserting, OneMarked
    <3> QED BY <3>1, <3>2, <3>3
  <2> QED BY <2>1, <2>2, <1>1, <1>2 DEF OneMarked, Users
<1>8. CredInv'
  <2> SUFFICES ASSUME tidy' PROVE CredInv'
      BY DEF CredInv
  <2>1. tidy /\ sound /\ \A d \in AccountClient : job[d] = <<>> \/ Head(job[d]).u # u
      BY <1>1
  <2>2. \A o \in AccountClient, x \in User : o # c => (NextOn(o, x)' <=> NextOn(o, x)) /\ (Midway(o, x)' <=> Midway(o, x))
      BY <1>3 DEF NextOn, Midway
  <2>3. \A x \in User : ~Midway(c, x)
      BY DEF Midway, NextOn
  <2>4. \A x \in User : Settled(db', x) \/ \E o \in AccountClient : Midway(o, x)'
      BY <2>1, <2>2, <2>3, <1>1, <1>2 DEF CredInv
  <2>5. u \in User => Settled(db, u)
      BY <2>1, <1>2 DEF CredInv, Midway, NextOn
  <2>6. ASSUME NEW x \in User, NextOn(c, x)' PROVE Owes(db', x, p) /\ (Gentle(p) \/ x = u)
    <3>1. CASE Gentle(p)
        BY <3>1, <1>1, GentleOwes DEF MayBegin
    <3>2. CASE ~Gentle(p)
      <4>1. x = u
          BY <3>2, <2>6, <1>3, <1>5 DEF NextOn, MayBegin
      <4> QED BY <4>1, <3>2, <2>1, <2>5, <1>1 DEF MayBegin
    <3> QED BY <3>1, <3>2
  <2>7. ASSUME NEW x \in User, NEW o \in AccountClient, NextOn(o, x)' PROVE Owes(db', x, job'[o])
      BY <2>1, <2>2, <2>6, <2>7, <1>1, <1>2, <1>3 DEF CredInv
  <2>8. \A x \in User, o \in AccountClient : o # c /\ NextOn(o, x)' => x # u
      BY <2>1, <2>2 DEF NextOn
  <2>9. ASSUME NEW x \in User, NEW o \in AccountClient, NEW b \in AccountClient, NextOn(o, x)', NextOn(b, x)', o # b
        PROVE  Gentle(job'[o]) \/ Gentle(job'[b])
    <3>1. CASE o = c
        BY <3>1, <2>6, <2>8, <2>9, <1>3
    <3>2. CASE b = c
        BY <3>2, <2>6, <2>8, <2>9, <1>3
    <3>3. CASE o # c /\ b # c
        BY <3>3, <2>1, <2>2, <2>9, <1>2, <1>3 DEF CredInv
    <3> QED BY <3>1, <3>2, <3>3
  <2> QED BY <2>4, <2>7, <2>9 DEF CredInv
<1>9. EmailsDiffer(db')
    BY <1>1, <1>2
<1> QED BY <1>4, <1>7, <1>8, <1>9 DEF AccIInv

(* The programs. *)
GentleRow(u) == {s \in CommitRow : s.do \notin Touching \cup {"promote", "count"} /\ s.u = u}
MildRow(u) == {s \in CommitRow : s.do \notin Touching \cup {"promote"} /\ s.u = u}

LEMMA RowTyped ==
    ASSUME NEW name \in CommitNames, NEW u \in User \cup {None}, NEW v \in Carried, Carries(Do(name, u, v))
    PROVE  Do(name, u, v) \in CommitRow /\ Do(name, u, v).do = name /\ Do(name, u, v).u = u /\ Do(name, u, v).v = v
BY DEF Do, CommitRow

LEMMA CarriedThings ==
    /\ None \in Carried /\ "close" \in Carried /\ Roles \subseteq Carried /\ Email \subseteq Carried /\ AddressOrNone \subseteq Carried
    /\ Group \subseteq Carried /\ SUBSET Group \subseteq Carried /\ NewRow \subseteq Carried
    /\ Membership \subseteq Carried /\ (CHOOSE g \in Group : TRUE) \in Carried
<1>1. (CHOOSE g \in Group : TRUE) \in TheDefault
    BY Zenon DEF TheDefault
<1>2. /\ Roles \subseteq Carried /\ AddressOrNone \subseteq Carried /\ Close \subseteq Carried /\ Group \subseteq Carried
      /\ GroupSets \subseteq Carried /\ Membership \subseteq Carried /\ NewRow \subseteq Carried /\ TheDefault \subseteq Carried
    BY DEF Carried
<1>3. None \in AddressOrNone /\ Email \subseteq AddressOrNone /\ "close" \in Close
    BY DEF AddressOrNone, Close
<1>4. SUBSET Group \subseteq GroupSets
    BY DEF GroupSets
<1> QED BY <1>1, <1>2, <1>3, <1>4, Zenon

\* A commit that touches no credentials: every name but the counting ones, for a user.
LEMMA GentleIs ==
    ASSUME NEW u \in User, NEW name \in {"close", "oauth", "scim", "join", "leave", "leave_all", "sync"}, NEW v \in Carried
    PROVE  Do(name, u, v) \in GentleRow(u)
<1>1. name \in CommitNames /\ name \notin Touching \cup {"promote", "count"}
    BY DEF CommitNames, Touching, Inserts, Emails, Deletes
<1>2. Carries(Do(name, u, v))
    BY DEF Carries, Do, Inserts, Emails, OfGroups
<1> QED BY <1>1, <1>2, RowTyped DEF GentleRow
LEMMA RoleIs == ASSUME NEW u \in User, NEW role \in Roles PROVE Do("role", u, role) \in GentleRow(u)
<1>1. "role" \in CommitNames /\ "role" \notin Touching \cup {"promote", "count"}
    BY DEF CommitNames, Touching, Inserts, Emails, Deletes
<1>2. Carries(Do("role", u, role)) /\ role \in Carried
    BY CarriedThings DEF Carries, Do, Inserts, Emails, OfGroups
<1> QED BY <1>1, <1>2, RowTyped DEF GentleRow
LEMMA OfGroupIs ==
    ASSUME NEW u \in User \cup {None}, NEW name \in {"group", "ungroup"}, NEW g \in Group
    PROVE  Do(name, u, g) \in GentleRow(u)
<1>1. name \in CommitNames /\ name \notin Touching \cup {"promote", "count"}
    BY DEF CommitNames, OfGroups, Touching, Inserts, Emails, Deletes
<1>2. Carries(Do(name, u, g)) /\ g \in Carried
    BY CarriedThings DEF Carries, Do, Inserts, Emails, OfGroups
<1> QED BY <1>1, <1>2, RowTyped DEF GentleRow
LEMMA MembersIs ==
    ASSUME NEW g \in Group, NEW us \in SUBSET User
    PROVE  Do("members", None, [group |-> g, users |-> us]) \in GentleRow(None)
<1>1. "members" \in CommitNames /\ "members" \notin Touching \cup {"promote", "count"}
    BY DEF CommitNames, OfGroups, Touching, Inserts, Emails, Deletes
<1> DEFINE v == [group |-> g, users |-> us]
<1>2. v \in Membership
    BY DEF Membership
<1> HIDE DEF v
<1>3. Carries(Do("members", None, v)) /\ v \in Carried
    BY <1>2, CarriedThings DEF Carries, Do, Inserts, Emails, OfGroups
<1>4. Do("members", None, v) \in GentleRow(None)
    BY <1>1, <1>3, RowTyped DEF GentleRow
<1> QED BY <1>4 DEF v
LEMMA CountIs ==
    ASSUME NEW u \in User, NEW v \in {None, "close"}
    PROVE  Do("count", u, v) \in MildRow(u)
<1>1. "count" \in CommitNames /\ "count" \notin Touching \cup {"promote"}
    BY DEF CommitNames, Touching, Inserts, Emails, Deletes
<1>2. Carries(Do("count", u, v)) /\ v \in Carried
    BY CarriedThings DEF Carries, Do, Inserts, Emails, OfGroups
<1> QED BY <1>1, <1>2, RowTyped DEF MildRow
LEMMA InsertIs ==
    ASSUME NEW u \in User, NEW name \in Inserts, NEW e \in Email, NEW role \in Roles, NEW sub \in BOOLEAN, NEW scim \in BOOLEAN
    PROVE  LET s == Do(name, u, Row(e, role, sub, scim)) IN s \in CommitRow /\ s.do \in Inserts /\ s.u = u
<1>1. name \in CommitNames
    BY DEF CommitNames
<1> DEFINE v == Row(e, role, sub, scim)
<1>2. v \in NewRow
    BY DEF Row, NewRow
<1> HIDE DEF v
<1>3. Carries(Do(name, u, v)) /\ v \in Carried
    BY <1>2, CarriedThings DEF Carries, Do, Inserts, Emails, OfGroups
<1>4. Do(name, u, v) \in CommitRow /\ Do(name, u, v).do = name /\ Do(name, u, v).u = u
    BY <1>1, <1>3, RowTyped
<1> QED BY <1>4 DEF v
LEMMA EmailIs ==
    ASSUME NEW u \in User, NEW name \in Emails, NEW e \in AddressOrNone
    PROVE  LET s == Do(name, u, e) IN s \in CommitRow /\ s.do = name /\ s.u = u /\ s.v = e
<1>1. name \in CommitNames
    BY DEF CommitNames
<1>2. Carries(Do(name, u, e)) /\ e \in Carried
    BY CarriedThings DEF Carries, Do, Inserts, Emails, OfGroups
<1> QED BY <1>1, <1>2, RowTyped
LEMMA DeleteIs ==
    ASSUME NEW u \in User, NEW name \in Deletes
    PROVE  LET s == Do(name, u, None) IN s \in CommitRow /\ s.do = name /\ s.u = u
<1>1. name \in CommitNames
    BY DEF CommitNames
<1>2. Carries(Do(name, u, None)) /\ None \in Carried
    BY CarriedThings DEF Carries, Do, Inserts, Emails, OfGroups, Deletes
<1> QED BY <1>1, <1>2, RowTyped

LEMMA GentleSeqs ==
    ASSUME NEW u, NEW p \in Seq(GentleRow(u))
    PROVE  /\ p \in Seq(CommitRow) /\ p \in Seq(MildRow(u)) /\ GentleOn(p, u) /\ Gentle(p)
           /\ \A i \in 1..Len(p) : p[i].do \notin Touching \cup {"promote", "count"} /\ p[i].u = u
<1>1. GentleRow(u) \subseteq CommitRow /\ GentleRow(u) \subseteq MildRow(u)
    BY DEF GentleRow, MildRow
<1>2. \A i \in 1..Len(p) : p[i] \in GentleRow(u)
  <2> HIDE DEF GentleRow
  <2> QED OBVIOUS
<1>3. \A i \in 1..Len(p) : p[i].do \notin Touching \cup {"promote", "count"} /\ p[i].u = u
    BY <1>2 DEF GentleRow
<1>4. p \in Seq(CommitRow) /\ p \in Seq(MildRow(u))
  <2> HIDE DEF GentleRow, MildRow, CommitRow
  <2> QED BY <1>1
<1> QED BY <1>3, <1>4 DEF GentleOn, Gentle

LEMMA GentleFits ==
    ASSUME NEW u, NEW x, NEW sound, NEW p \in Seq(GentleRow(x))
    PROVE  MayBegin(u, sound, p)
<1>1. /\ p \in Seq(CommitRow) /\ Gentle(p)
      /\ \A i \in 1..Len(p) : p[i].do \notin Touching \cup {"promote", "count"} /\ p[i].u = x
    BY GentleSeqs
<1>2. WellMade(p)
    BY <1>1 DEF WellMade, OneAccount, InsertsFirst, BothEmails, OneEmail, DeletesLast, CountsNew, Touching, Inserts, Emails, Deletes
<1> QED BY <1>1, <1>2 DEF MayBegin, Touching

\* The program of a new account.
NewProgram(u, p) ==
    /\ p \in Seq(CommitRow) /\ 1 \in 1..Len(p) /\ p[1].do \in Inserts
    /\ \A i \in 1..Len(p) : p[i].u = u /\ p[i].do # "promote" /\ (i # 1 => p[i].do \notin Touching)
LEMMA NewFits ==
    ASSUME NEW u \in User, Unused(u), NEW p, NewProgram(u, p)
    PROVE  MayBegin(u, TRUE, p)
<1>1. /\ p \in Seq(CommitRow) /\ 1 \in 1..Len(p) /\ p[1].do \in Inserts /\ Len(p) \in Nat
      /\ \A i \in 1..Len(p) : p[i].u = u /\ p[i].do # "promote" /\ (i # 1 => p[i].do \notin Touching)
  <2> HIDE DEF CommitRow
  <2> QED BY DEF NewProgram
<1>2. \A i \in 1..Len(p) : p[i].do \notin Emails \cup Deletes
    BY <1>1 DEF Touching, Inserts, Emails, Deletes
<1>3. WellMade(p)
    BY <1>1, <1>2 DEF WellMade, OneAccount, InsertsFirst, BothEmails, OneEmail, DeletesLast, CountsNew, Touching, Emails, Deletes
<1>4. Owes(db, u, p)
  <2>1. Len(p) \in 1..Len(p) /\ ~db.auth[u].in
      BY <1>1 DEF Unused
  <2> QED BY <1>2, <2>1 DEF Owes, Emails, Deletes
<1> QED BY <1>1, <1>3, <1>4 DEF MayBegin
LEMMA NewAppend ==
    ASSUME NEW u, NEW p, NewProgram(u, p), NEW g \in Seq(MildRow(u))
    PROVE  NewProgram(u, p \o g)
<1>1. p \in Seq(CommitRow) /\ 1 \in 1..Len(p) /\ p[1].do \in Inserts
      /\ \A i \in 1..Len(p) : p[i].u = u /\ p[i].do # "promote" /\ (i # 1 => p[i].do \notin Touching)
    BY DEF NewProgram
<1>2. MildRow(u) \subseteq CommitRow /\ \A s \in MildRow(u) : s.u = u /\ s.do # "promote" /\ s.do \notin Touching
    BY DEF MildRow
<1>3. g \in Seq(CommitRow) /\ \A i \in 1..Len(g) : g[i] \in MildRow(u)
  <2> HIDE DEF MildRow, CommitRow
  <2> QED BY <1>2
<1>4. /\ p \o g \in Seq(CommitRow) /\ Len(p \o g) = Len(p) + Len(g) /\ Len(p) \in Nat /\ Len(g) \in Nat
      /\ \A i \in 1..Len(p) : (p \o g)[i] = p[i]
      /\ \A i \in 1..(Len(p) + Len(g)) : i > Len(p) => i - Len(p) \in 1..Len(g) /\ (p \o g)[i] = g[i - Len(p)]
    BY <1>1, <1>3, Joined
<1> DEFINE q == p \o g
<1>5. \A i \in 1..Len(q) : q[i].u = u /\ q[i].do # "promote" /\ (i # 1 => q[i].do \notin Touching)
  <2> TAKE i \in 1..Len(q)
  <2>1. CASE i \in 1..Len(p)
      BY <2>1, <1>1, <1>4
  <2>2. CASE i > Len(p)
    <3>1. i - Len(p) \in 1..Len(g) /\ q[i] = g[i - Len(p)]
        BY <2>2, <1>4
    <3> QED BY <3>1, <1>2, <1>3
  <2> QED BY <2>1, <2>2, <1>4
<1>6. q \in Seq(CommitRow) /\ 1 \in 1..Len(q) /\ q[1].do \in Inserts
    BY <1>1, <1>4
<1> QED BY <1>5, <1>6 DEF NewProgram

\* A program that changes the email of an account.
EmailProgram(u, sound, p) ==
    /\ p \in Seq(CommitRow) /\ WellMade(p)
    /\ \A i \in 1..Len(p) : p[i].u = u /\ p[i].do \notin Inserts \cup Deletes \cup {"promote", "count"}
    /\ sound /\ Settled(db, u) =>
          \A i \in 1..Len(p) : p[i].do = "user_email" /\ (\A j \in 1..(i - 1) : p[j].do # "auth_email") => Agree(db, u, p[i].v)
LEMMA EmailFits ==
    ASSUME NEW u \in User, NEW sound, NEW p, EmailProgram(u, sound, p), p # <<>>
    PROVE  MayBegin(u, sound, p)
<1>1. p \in Seq(CommitRow) /\ WellMade(p) /\ \A i \in 1..Len(p) : p[i].u = u /\ p[i].do \notin Inserts \cup Deletes \cup {"promote", "count"}
    BY DEF EmailProgram
<1>2. Head(p) = p[1] /\ 1 \in 1..Len(p) /\ Len(p) \in 1..Len(p)
  <2> HIDE DEF CommitRow
  <2> QED BY <1>1
<1>3. sound /\ Settled(db, u) => Owes(db, u, p)
    BY <1>1, <1>2 DEF Owes, EmailProgram, Inserts, Deletes
<1> QED BY <1>1, <1>3 DEF MayBegin

LEMMA EmailPrefix ==
    ASSUME NEW u \in User, NEW sound, NEW p, EmailProgram(u, sound, p), NEW g \in Seq(GentleRow(u))
    PROVE  EmailProgram(u, sound, g \o p)
<1> DEFINE q == g \o p
           n == Len(g)
<1>1. /\ p \in Seq(CommitRow) /\ WellMade(p)
      /\ \A i \in 1..Len(p) : p[i].u = u /\ p[i].do \notin Inserts \cup Deletes \cup {"promote", "count"}
    BY DEF EmailProgram
<1>2. /\ g \in Seq(CommitRow) /\ GentleOn(g, u)
      /\ \A i \in 1..Len(g) : g[i].do \notin Touching \cup {"promote", "count"} /\ g[i].u = u
    BY GentleSeqs
<1>3. WellMade(q)
    BY <1>1, <1>2, Prefixed
<1>4. /\ q \in Seq(CommitRow) /\ Len(q) = n + Len(p) /\ n \in Nat /\ Len(p) \in Nat
      /\ \A i \in 1..n : q[i] = g[i]
      /\ \A i \in 1..Len(q) : i > n => i - n \in 1..Len(p) /\ q[i] = p[i - n]
    BY <1>1, <1>2, Joined
<1> HIDE DEF q
<1>5. \A i \in 1..Len(q) : q[i].u = u /\ q[i].do \notin Inserts \cup Deletes \cup {"promote", "count"}
  <2> TAKE i \in 1..Len(q)
  <2>1. CASE i \in 1..n
      BY <2>1, <1>2, <1>4 DEF Touching
  <2>2. CASE i > n
    <3>1. i - n \in 1..Len(p) /\ q[i] = p[i - n]
        BY <2>2, <1>4
    <3> QED BY <3>1, <1>1
  <2> QED BY <2>1, <2>2, <1>4
<1>6. ASSUME sound, Settled(db, u), NEW i \in 1..Len(q), q[i].do = "user_email", \A j \in 1..(i - 1) : q[j].do # "auth_email"
      PROVE  Agree(db, u, q[i].v)
  <2>1. i > n
    <3>1. i \notin 1..n
        BY <1>2, <1>4, <1>6 DEF Touching, Emails
    <3> QED BY <3>1, <1>4
  <2>2. i - n \in 1..Len(p) /\ q[i] = p[i - n]
      BY <2>1, <1>4
  <2>3. \A j \in 1..((i - n) - 1) : p[j].do # "auth_email"
    <3> TAKE j \in 1..((i - n) - 1)
    <3>1. j + n \in 1..(i - 1) /\ j + n \in 1..Len(q) /\ j + n > n /\ (j + n) - n = j
        BY <2>2, <1>4
    <3>2. q[j + n] = p[(j + n) - n]
        BY <3>1, <1>4
    <3> QED BY <3>1, <3>2, <1>6
  <2> QED BY <2>2, <2>3, <1>6 DEF EmailProgram
<1>7. EmailProgram(u, sound, q)
    BY <1>3, <1>4, <1>5, <1>6 DEF EmailProgram
<1> QED BY <1>7 DEF q

LEMMA EmailAppend ==
    ASSUME NEW u \in User, NEW sound, NEW p, EmailProgram(u, sound, p), NEW g \in Seq(GentleRow(u))
    PROVE  EmailProgram(u, sound, p \o g)
<1> DEFINE q == p \o g
           n == Len(p)
<1>1. /\ p \in Seq(CommitRow) /\ WellMade(p)
      /\ \A i \in 1..Len(p) : p[i].u = u /\ p[i].do \notin Inserts \cup Deletes \cup {"promote", "count"}
    BY DEF EmailProgram
<1>2. /\ g \in Seq(CommitRow) /\ GentleOn(g, u)
      /\ \A i \in 1..Len(g) : g[i].do \notin Touching \cup {"promote", "count"} /\ g[i].u = u
    BY GentleSeqs
<1>3. WellMade(q)
    BY <1>1, <1>2, Appended
<1>4. /\ q \in Seq(CommitRow) /\ Len(q) = n + Len(g) /\ n \in Nat /\ Len(g) \in Nat
      /\ \A i \in 1..n : q[i] = p[i]
      /\ \A i \in 1..Len(q) : i > n => i - n \in 1..Len(g) /\ q[i] = g[i - n]
    BY <1>1, <1>2, Joined
<1> HIDE DEF q
<1>5. \A i \in 1..Len(q) : q[i].u = u /\ q[i].do \notin Inserts \cup Deletes \cup {"promote", "count"}
  <2> TAKE i \in 1..Len(q)
  <2>1. CASE i \in 1..n
      BY <2>1, <1>1, <1>4
  <2>2. CASE i > n
    <3>1. i - n \in 1..Len(g) /\ q[i] = g[i - n]
        BY <2>2, <1>4
    <3> QED BY <3>1, <1>2 DEF Touching
  <2> QED BY <2>1, <2>2, <1>4
<1>6. ASSUME sound, Settled(db, u), NEW i \in 1..Len(q), q[i].do = "user_email", \A j \in 1..(i - 1) : q[j].do # "auth_email"
      PROVE  Agree(db, u, q[i].v)
  <2>1. i \in 1..n
    <3> SUFFICES ASSUME i > n PROVE FALSE
        BY <1>4
    <3>1. i - n \in 1..Len(g) /\ q[i] = g[i - n]
        BY <1>4
    <3> QED BY <3>1, <1>2, <1>6 DEF Touching, Emails
  <2>2. \A j \in 1..(i - 1) : p[j].do # "auth_email"
    <3> TAKE j \in 1..(i - 1)
    <3>1. j \in 1..n /\ q[j] = p[j]
        BY <2>1, <1>4
    <3> QED BY <3>1, <1>6
  <2> QED BY <2>1, <2>2, <1>4, <1>6 DEF EmailProgram
<1>7. EmailProgram(u, sound, q)
    BY <1>3, <1>4, <1>5, <1>6 DEF EmailProgram
<1> QED BY <1>7 DEF q

\* The changes of an email that requests make.
BothWrites(u, e) == <<Do("auth_email", u, e), Do("user_email", u, e)>>
LEMMA EmailBoth ==
    ASSUME NEW u \in User, NEW sound, NEW e \in AddressOrNone
    PROVE  EmailProgram(u, sound, BothWrites(u, e))
<1> DEFINE a == Do("auth_email", u, e)
           b == Do("user_email", u, e)
           p == <<a, b>>
<1>1. /\ a \in CommitRow /\ a.do = "auth_email" /\ a.u = u /\ a.v = e
      /\ b \in CommitRow /\ b.do = "user_email" /\ b.u = u /\ b.v = e
    BY EmailIs DEF Emails
<1> HIDE DEF a, b
<1>2. p \in Seq(CommitRow) /\ Len(p) = 2 /\ p[1] = a /\ p[2] = b
  <2> HIDE DEF CommitRow
  <2> QED BY <1>1
<1> HIDE DEF p
<1>3. \A i \in 1..Len(p) : i = 1 \/ i = 2
    BY <1>2
<1>4. WellMade(p)
    BY <1>1, <1>2, <1>3 DEF WellMade, OneAccount, InsertsFirst, BothEmails, OneEmail, DeletesLast, CountsNew, Inserts, Emails, Deletes
<1>5. \A i \in 1..Len(p) : p[i].do = "user_email" => i = 2 /\ 1 \in 1..(i - 1) /\ p[1].do = "auth_email"
    BY <1>1, <1>2, <1>3
<1>6. EmailProgram(u, sound, p)
    BY <1>1, <1>2, <1>3, <1>4, <1>5 DEF EmailProgram, Inserts, Deletes
<1> QED BY <1>6 DEF p, a, b, BothWrites
LEMMA EmailOnce ==
    ASSUME NEW u \in User, NEW sound, NEW e \in AddressOrNone, sound /\ Settled(db, u) => Agree(db, u, e)
    PROVE  EmailProgram(u, sound, <<Do("user_email", u, e)>>)
<1> DEFINE b == Do("user_email", u, e)
           p == <<b>>
<1>1. b \in CommitRow /\ b.do = "user_email" /\ b.u = u /\ b.v = e
    BY EmailIs DEF Emails
<1> HIDE DEF b
<1>2. p \in Seq(CommitRow) /\ Len(p) = 1 /\ p[1] = b
  <2> HIDE DEF CommitRow
  <2> QED BY <1>1
<1> HIDE DEF p
<1>3. \A i \in 1..Len(p) : i = 1
    BY <1>2
<1>4. WellMade(p)
    BY <1>1, <1>2, <1>3 DEF WellMade, OneAccount, InsertsFirst, BothEmails, OneEmail, DeletesLast, CountsNew, Inserts, Emails, Deletes
<1>6. EmailProgram(u, sound, p)
    BY <1>1, <1>2, <1>3, <1>4 DEF EmailProgram, Inserts, Deletes
<1> QED BY <1>6 DEF p, b
LEMMA EmailTwice ==
    ASSUME NEW u \in User, NEW sound, NEW e \in AddressOrNone
    PROVE  EmailProgram(u, sound, BothWrites(u, e) \o <<Do("user_email", u, e)>>)
<1> DEFINE p == BothWrites(u, e)
           b == Do("user_email", u, e)
           r == <<b>>
           q == p \o r
<1>1. b \in CommitRow /\ b.do = "user_email" /\ b.u = u /\ b.v = e
    BY EmailIs DEF Emails
<1>2. Do("auth_email", u, e).do = "auth_email" /\ Do("auth_email", u, e).u = u /\ Do("auth_email", u, e).v = e
    BY DEF Do
<1>3. p \in Seq(CommitRow)
    BY EmailBoth DEF EmailProgram
<1>4. Len(p) = 2 /\ p[1].do = "auth_email" /\ p[1].u = u /\ p[1].v = e /\ p[2] = b
    BY <1>2 DEF BothWrites
<1> HIDE DEF p, b
<1>5. r \in Seq(CommitRow) /\ Len(r) = 1 /\ r[1] = b
  <2> HIDE DEF CommitRow
  <2> QED BY <1>1
<1> HIDE DEF r
<1>6. /\ q \in Seq(CommitRow) /\ Len(q) = Len(p) + Len(r)
      /\ \A i \in 1..Len(p) : q[i] = p[i]
      /\ \A i \in 1..(Len(p) + Len(r)) : i > Len(p) => q[i] = r[i - Len(p)]
    BY <1>3, <1>5, Joined
<1> HIDE DEF q
<1>7. Len(q) = 3 /\ q[1] = p[1] /\ q[2] = b /\ q[3] = b
    BY <1>4, <1>5, <1>6
<1>8. \A i \in 1..Len(q) : i = 1 \/ i = 2 \/ i = 3
    BY <1>7
<1>9. WellMade(q)
    BY <1>1, <1>4, <1>7, <1>8 DEF WellMade, OneAccount, InsertsFirst, BothEmails, OneEmail, DeletesLast, CountsNew, Inserts, Emails, Deletes
<1>10. \A i \in 1..Len(q) : q[i].do = "user_email" => 1 \in 1..(i - 1) /\ q[1].do = "auth_email"
    BY <1>1, <1>4, <1>7, <1>8
<1>11. EmailProgram(u, sound, q)
    BY <1>1, <1>4, <1>6, <1>7, <1>8, <1>9, <1>10 DEF EmailProgram, Inserts, Deletes
<1> QED BY <1>11 DEF q, r, p, b

\* The program that deletes an account.
LEMMA DeletingFits ==
    ASSUME NEW u \in User, NEW p, p = delete_user_by_id(u)
    PROVE  MayBegin(u, TRUE, p)
<1> DEFINE a == Do("leave_all", u, None)
           b == Do("delete_user", u, None)
           d == Do("delete_auth", u, None)
           q == <<a, b, d>>
<1>1. a \in CommitRow /\ a.do = "leave_all" /\ a.u = u
    BY GentleIs, CarriedThings DEF GentleRow, Do
<1>2. b \in CommitRow /\ b.do = "delete_user" /\ b.u = u /\ d \in CommitRow /\ d.do = "delete_auth" /\ d.u = u
    BY DeleteIs DEF Deletes
<1> HIDE DEF a, b, d
<1>3. q \in Seq(CommitRow) /\ Len(q) = 3 /\ q[1] = a /\ q[2] = b /\ q[3] = d /\ Head(q) = a
  <2> HIDE DEF CommitRow
  <2> QED BY <1>1, <1>2
<1> HIDE DEF q
<1>4. \A i \in 1..Len(q) : i = 1 \/ i = 2 \/ i = 3
    BY <1>3
<1>5. WellMade(q)
    BY <1>1, <1>2, <1>3, <1>4 DEF WellMade, OneAccount, InsertsFirst, BothEmails, OneEmail, DeletesLast, CountsNew, Inserts, Emails, Deletes
<1>6. Owes(db, u, q)
    BY <1>1, <1>2, <1>3, <1>4 DEF Owes, Inserts
<1>7. MayBegin(u, TRUE, q)
    BY <1>1, <1>2, <1>3, <1>4, <1>5, <1>6 DEF MayBegin, Inserts
<1> QED BY <1>7 DEF q, a, b, d, delete_user_by_id
LEMMA ScimDeletingFits ==
    ASSUME NEW u \in User, NEW p, p = scim_delete_user(u)
    PROVE  MayBegin(u, ~db.auth[u].in, p)
<1> DEFINE a == Do("leave_all", u, None)
           b == Do("delete_user", u, None)
           q == <<a, b>>
<1>1. a \in CommitRow /\ a.do = "leave_all" /\ a.u = u
    BY GentleIs, CarriedThings DEF GentleRow, Do
<1>2. b \in CommitRow /\ b.do = "delete_user" /\ b.u = u
    BY DeleteIs DEF Deletes
<1> HIDE DEF a, b
<1>3. q \in Seq(CommitRow) /\ Len(q) = 2 /\ q[1] = a /\ q[2] = b /\ Head(q) = a
  <2> HIDE DEF CommitRow
  <2> QED BY <1>1, <1>2
<1> HIDE DEF q
<1>4. \A i \in 1..Len(q) : i = 1 \/ i = 2
    BY <1>3
<1>5. WellMade(q)
    BY <1>1, <1>2, <1>3, <1>4 DEF WellMade, OneAccount, InsertsFirst, BothEmails, OneEmail, DeletesLast, CountsNew, Inserts, Emails, Deletes
<1>6. ~db.auth[u].in => Owes(db, u, q)
    BY <1>1, <1>2, <1>3, <1>4 DEF Owes, Inserts
<1>7. MayBegin(u, ~db.auth[u].in, q)
    BY <1>1, <1>2, <1>3, <1>4, <1>5, <1>6 DEF MayBegin, Inserts
<1> QED BY <1>7 DEF q, a, b, scim_delete_user

\* Sequences of gentle commits.
LEMMA GentleJoined == ASSUME NEW u, NEW p \in Seq(GentleRow(u)), NEW q \in Seq(GentleRow(u)) PROVE p \o q \in Seq(GentleRow(u))
<1> HIDE DEF GentleRow
<1> QED OBVIOUS
LEMMA GentleOne == ASSUME NEW u, NEW s \in GentleRow(u) PROVE <<s>> \in Seq(GentleRow(u))
<1> HIDE DEF GentleRow
<1> QED OBVIOUS
LEMMA GentleNone == ASSUME NEW u PROVE <<>> \in Seq(GentleRow(u))
<1> HIDE DEF GentleRow
<1> QED OBVIOUS
LEMMA NothingBefore == ASSUME NEW S, NEW p \in Seq(S) PROVE <<>> \o p = p /\ p \o <<>> = p
OBVIOUS

LEMMA SequenceOfSet == ASSUME NEW S, IsFiniteSet(S) PROVE SetToSeq(S) \in Seq(S)
<1>1. Cardinality(S) \in Nat /\ ExistsBijection(1..Cardinality(S), S)
    BY FS_CardinalityType, Zenon
<1>2. PICK f : f \in Bijection(1..Cardinality(S), S)
    BY <1>1 DEF ExistsBijection
<1>3. f \in [1..Cardinality(S) -> S] /\ IsInjective(f)
    BY <1>2 DEF Bijection, Injection
<1>4. SetToSeq(S) \in [1..Cardinality(S) -> S]
    BY <1>3 DEF SetToSeq
<1> QED BY <1>1, <1>4

\* One commit per group.
PerGroup(name, u, S) == {Do(name, u, g) : g \in S}
LEMMA GroupRows ==
    ASSUME NEW u \in User, NEW name \in {"group", "join", "leave"}, NEW S \in SUBSET Group
    PROVE  IsFiniteSet(PerGroup(name, u, S)) /\ PerGroup(name, u, S) \subseteq GentleRow(u)
<1> DEFINE f == [g \in S |-> Do(name, u, g)]
           T == PerGroup(name, u, S)
<1>1. f \in Surjection(S, T)
    BY DEF Surjection, PerGroup
<1>2. IsFiniteSet(S)
    BY AccountAssumption, FS_Subset
<1>3. IsFiniteSet(T)
    BY <1>1, <1>2, FS_Surjection, Zenon
<1>4. \A g \in S : Do(name, u, g) \in GentleRow(u)
  <2> TAKE g \in S
  <2>1. g \in Group /\ g \in Carried
      BY CarriedThings
  <2> QED BY <2>1, GentleIs, OfGroupIs
<1>5. T \subseteq GentleRow(u)
  <2> HIDE DEF GentleRow
  <2> QED BY <1>4 DEF PerGroup
<1> QED BY <1>3, <1>5
LEMMA GroupSeq ==
    ASSUME NEW u, NEW T \in SUBSET GentleRow(u), IsFiniteSet(T)
    PROVE  SetToSeq(T) \in Seq(GentleRow(u))
<1>1. SetToSeq(T) \in Seq(T)
    BY SequenceOfSet
<1> HIDE DEF GentleRow
<1> QED BY <1>1

LEMMA LdapGroups ==
    ASSUME NEW u \in User, NEW gs \in SUBSET Group
    PROVE  (IF gs = {} THEN <<>> ELSE SetToSeq({Do("group", u, g) : g \in gs \ db.groups}) \o <<Do("sync", u, gs)>>) \in Seq(GentleRow(u))
<1>1. SetToSeq(PerGroup("group", u, gs \ db.groups)) \in Seq(GentleRow(u))
    BY GroupRows, GroupSeq
<1>2. Do("sync", u, gs) \in GentleRow(u)
    BY GentleIs, CarriedThings
<1>3. <<Do("sync", u, gs)>> \in Seq(GentleRow(u))
    BY <1>2, GentleOne
<1>4. SetToSeq(PerGroup("group", u, gs \ db.groups)) \o <<Do("sync", u, gs)>> \in Seq(GentleRow(u))
    BY <1>1, <1>3, GentleJoined
<1> HIDE DEF GentleRow
<1> QED BY <1>4, GentleNone DEF PerGroup
LEMMA SyncGroups ==
    ASSUME NEW u \in User, NEW gs \in SUBSET Group
    PROVE  (IF gs = {} THEN <<>> ELSE <<Do("sync", u, gs)>>) \in Seq(GentleRow(u))
<1>2. Do("sync", u, gs) \in GentleRow(u)
    BY GentleIs, CarriedThings
<1>3. <<Do("sync", u, gs)>> \in Seq(GentleRow(u))
    BY <1>2, GentleOne
<1> HIDE DEF GentleRow
<1> QED BY <1>3, GentleNone
LEMMA OneRole ==
    ASSUME NEW u \in User, NEW role, role # None => role \in Roles
    PROVE  (IF role = None THEN <<>> ELSE <<Do("role", u, role)>>) \in Seq(GentleRow(u))
<1>1. role # None => <<Do("role", u, role)>> \in Seq(GentleRow(u))
    BY RoleIs, GentleOne
<1> HIDE DEF GentleRow
<1> QED BY <1>1, GentleNone
LEMMA UserGroups ==
    ASSUME NEW u \in User, NEW gs \in SUBSET Group, db.groups \subseteq Group
    PROVE  update_user_groups(u, gs) \in Seq(GentleRow(u))
<1> DEFINE L == {x \in db.groups \ gs : <<x, u>> \in db.member}
           J == {x \in gs : <<x, u>> \notin db.member}
           A == PerGroup("group", u, gs \ db.groups)
           B == PerGroup("leave", u, L)
           C == PerGroup("join", u, J)
<1>1. IsFiniteSet(A) /\ A \subseteq GentleRow(u) /\ IsFiniteSet(B) /\ B \subseteq GentleRow(u) /\ IsFiniteSet(C) /\ C \subseteq GentleRow(u)
  <2>1. gs \ db.groups \in SUBSET Group /\ L \in SUBSET Group /\ J \in SUBSET Group
      OBVIOUS
  <2> HIDE DEF L, J
  <2> QED BY <2>1, GroupRows
<1>2. update_user_groups(u, gs) = IF gs = {} THEN <<>> ELSE SetToSeq(A \cup B) \o SetToSeq(C)
    BY DEF update_user_groups, PerGroup
<1> HIDE DEF A, B, C
<1>3. IsFiniteSet(A \cup B) /\ A \cup B \in SUBSET GentleRow(u)
    BY <1>1, FS_Union
<1>4. SetToSeq(A \cup B) \in Seq(GentleRow(u)) /\ SetToSeq(C) \in Seq(GentleRow(u))
    BY <1>1, <1>3, GroupSeq
<1>5. SetToSeq(A \cup B) \o SetToSeq(C) \in Seq(GentleRow(u))
    BY <1>4, GentleJoined
<1> HIDE DEF GentleRow
<1> QED BY <1>2, <1>5, GentleNone

\* The commits that insert an account, with what follows at once.
LEMMA MildIs == ASSUME NEW u, NEW s \in GentleRow(u) PROVE s \in MildRow(u)
BY DEF GentleRow, MildRow
LEMMA NewOne ==
    ASSUME NEW u, NEW s \in CommitRow, s.do \in Inserts, s.u = u
    PROVE  NewProgram(u, <<s>>)
<1>1. <<s>> \in Seq(CommitRow)
  <2> HIDE DEF CommitRow
  <2> QED OBVIOUS
<1> QED BY <1>1 DEF NewProgram, Inserts
LEMMA NewTwo ==
    ASSUME NEW u, NEW s \in CommitRow, s.do \in Inserts, s.u = u, NEW t \in MildRow(u)
    PROVE  NewProgram(u, <<s, t>>)
<1>1. t \in CommitRow /\ t.u = u /\ t.do \notin Touching \cup {"promote"}
    BY DEF MildRow
<1> DEFINE p == <<s, t>>
<1>2. p \in Seq(CommitRow) /\ Len(p) = 2 /\ p[1] = s /\ p[2] = t
  <2> HIDE DEF CommitRow
  <2> QED BY <1>1
<1> HIDE DEF p
<1>3. \A i \in 1..Len(p) : i = 1 \/ i = 2
    BY <1>2
<1>4. NewProgram(u, p)
    BY <1>1, <1>2, <1>3 DEF NewProgram, Inserts
<1> QED BY <1>4 DEF p
LEMMA NewThree ==
    ASSUME NEW u, NEW s \in CommitRow, s.do \in Inserts, s.u = u, NEW t \in MildRow(u), NEW w \in MildRow(u)
    PROVE  NewProgram(u, <<s, t, w>>)
<1>1. t \in CommitRow /\ t.u = u /\ t.do \notin Touching \cup {"promote"} /\ w \in CommitRow /\ w.u = u /\ w.do \notin Touching \cup {"promote"}
    BY DEF MildRow
<1> DEFINE p == <<s, t, w>>
<1>2. p \in Seq(CommitRow) /\ Len(p) = 3 /\ p[1] = s /\ p[2] = t /\ p[3] = w
  <2> HIDE DEF CommitRow
  <2> QED BY <1>1
<1> HIDE DEF p
<1>3. \A i \in 1..Len(p) : i = 1 \/ i = 2 \/ i = 3
    BY <1>2
<1>4. NewProgram(u, p)
    BY <1>1, <1>2, <1>3 DEF NewProgram, Inserts
<1> QED BY <1>4 DEF p
LEMMA NewThenGentle ==
    ASSUME NEW u, NEW p, NewProgram(u, p), NEW g \in Seq(GentleRow(u))
    PROVE  NewProgram(u, p \o g)
BY GentleSeqs, NewAppend

\* Sign-up, LDAP, a trusted header and OAuth insert with the default role, and count.
LEMMA CountedProgram ==
    ASSUME NEW u \in User, NEW e \in Email, NEW role \in Roles, NEW sub \in BOOLEAN, NEW v \in {None, "close"}
    PROVE  NewProgram(u, <<Do("insert_auth", u, Row(e, role, sub, FALSE)), Do("count", u, v), DefaultGroup(u)>>)
<1> DEFINE s == Do("insert_auth", u, Row(e, role, sub, FALSE))
           t == Do("count", u, v)
           w == DefaultGroup(u)
<1>1. s \in CommitRow /\ s.do \in Inserts /\ s.u = u
  <2>1. "insert_auth" \in Inserts
      BY DEF Inserts
  <2>2. CASE sub = TRUE
      BY <2>1, <2>2, InsertIs
  <2>3. CASE sub = FALSE
      BY <2>1, <2>3, InsertIs
  <2> QED BY <2>2, <2>3
<1>2. t \in MildRow(u)
    BY CountIs
<1>3. w \in MildRow(u)
    BY GentleIs, MildIs, CarriedThings DEF DefaultGroup
<1> HIDE DEF s, t, w
<1>4. NewProgram(u, <<s, t, w>>)
    BY <1>1, <1>2, <1>3, NewThree
<1> QED BY <1>4 DEF s, t, w
LEMMA DefaultIsRole == DefaultRole \in Roles /\ "admin" \in Roles /\ "user" \in Roles /\ "pending" \in Roles
BY AccountAssumption DEF Roles

(* The requests. *)
LEMMA NewKeeps ==
    ASSUME AccIInv, NEW c \in AccountClient, job[c] = <<>>, NEW u \in User, New(u), NEW p, NewProgram(u, p), Start(c, u, p)
    PROVE  AccIInv'
BY NewFits, BeginKeeps DEF New, Start
LEMMA GentleKeeps ==
    ASSUME AccIInv, NEW c \in AccountClient, job[c] = <<>>, NEW u, NEW x, NEW sound \in BOOLEAN,
           NEW p \in Seq(GentleRow(x)), StartIf(c, u, sound, p)
    PROVE  AccIInv'
<1>1. MayBegin(u, sound, p)
    BY GentleFits
<1> HIDE DEF GentleRow
<1> QED BY <1>1, BeginKeeps
LEMMA EmailKeeps ==
    ASSUME AccIInv, NEW c \in AccountClient, job[c] = <<>>, NEW u \in User, NEW sound \in BOOLEAN,
           NEW p, EmailProgram(u, sound, p), StartIf(c, u, sound, p)
    PROVE  AccIInv'
<1>1. p # <<>>
    BY DEF StartIf
<1> QED BY <1>1, EmailFits, BeginKeeps

LEMMA SignupKeeps ==
    ASSUME AccIInv, NEW c \in AccountClient, job[c] = <<>>, NEW u \in User, NEW e \in Email, signup(c, u, e)
    PROVE  AccIInv'
<1>1. NewProgram(u, signup_handler(u, e))
    BY CountedProgram, DefaultIsRole DEF signup_handler
<1> QED BY <1>1, NewKeeps DEF signup

LEMMA StartupKeeps ==
    ASSUME AccIInv, NEW c \in AccountClient, job[c] = <<>>, NEW u \in User, NEW e \in Email, Startup(c, u, e)
    PROVE  AccIInv'
<1> DEFINE s == Do("insert_auth", u, Row(e, "admin", FALSE, FALSE))
<1>1. s \in CommitRow /\ s.do \in Inserts /\ s.u = u
  <2>1. "insert_auth" \in Inserts
      BY DEF Inserts
  <2> QED BY <2>1, InsertIs, DefaultIsRole
<1> HIDE DEF s
<1>2. NewProgram(u, <<s>>)
    BY <1>1, NewOne
<1>3. NewProgram(u, create_admin_user(u, e))
    BY <1>2 DEF create_admin_user, s
<1> QED BY <1>3, NewKeeps DEF Startup

LEMMA LdapKeeps ==
    ASSUME AccIInv, NEW c \in AccountClient, job[c] = <<>>, NEW u \in User, NEW e \in Email, Ldap(c, u, e)
    PROVE  AccIInv'
<1>1. PICK gs \in {{}, Group} : Start(c, u, ldap_auth(u, e, gs))
    BY DEF Ldap
<1> DEFINE lead == <<Do("insert_auth", u, Row(e, DefaultRole, FALSE, FALSE)), Do("count", u, None), DefaultGroup(u)>>
           g == IF gs = {} THEN <<>> ELSE SetToSeq({Do("group", u, x) : x \in gs \ db.groups}) \o <<Do("sync", u, gs)>>
<1>2. g \in Seq(GentleRow(u))
    BY LdapGroups
<1>3. ldap_auth(u, e, gs) = (IF Free(db, e) THEN lead ELSE <<>>) \o g
    BY DEF ldap_auth
<1>4. NewProgram(u, lead)
    BY CountedProgram, DefaultIsRole
<1> HIDE DEF lead, g
<1>5. CASE Free(db, e)
  <2>1. NewProgram(u, ldap_auth(u, e, gs))
      BY <1>2, <1>3, <1>4, <1>5, NewThenGentle
  <2>2. New(u)
      BY <1>5 DEF Ldap, Free, ByEmail
  <2> QED BY <2>1, <2>2, <1>1, NewKeeps
<1>6. CASE ~Free(db, e)
  <2>1. ldap_auth(u, e, gs) \in Seq(GentleRow(u))
      BY <1>2, <1>3, <1>6, NothingBefore
  <2> QED BY <2>1, <1>1, GentleKeeps DEF Start
<1> QED BY <1>5, <1>6

LEMMA AssertedIs == \A h \in Asserted : h.groups \in SUBSET Group /\ (h.role # None => h.role \in Roles)
BY DEF Asserted, Roles

LEMMA TrustedKeeps ==
    ASSUME AccIInv, NEW c \in AccountClient, job[c] = <<>>, NEW u \in User, NEW e \in Email, Trusted(c, u, e)
    PROVE  AccIInv'
<1>1. PICK h \in Asserted : Start(c, u, signin_trusted(u, e, h.groups, h.role))
    BY DEF Trusted
<1> DEFINE g == IF h.groups = {} THEN <<>> ELSE <<Do("sync", u, h.groups)>>
           r == IF h.role = None THEN <<>> ELSE <<Do("role", u, h.role)>>
<1>2. g \in Seq(GentleRow(u)) /\ r \in Seq(GentleRow(u))
    BY SyncGroups, OneRole, AssertedIs
<1>3. signin_trusted(u, e, h.groups, h.role) = ((IF Free(db, e) THEN signup_handler(u, e) ELSE <<>>) \o g) \o r
    BY DEF signin_trusted
<1>4. NewProgram(u, signup_handler(u, e))
    BY CountedProgram, DefaultIsRole DEF signup_handler
<1> HIDE DEF g, r
<1>5. CASE Free(db, e)
  <2>1. NewProgram(u, signup_handler(u, e) \o g)
      BY <1>2, <1>4, NewThenGentle
  <2>2. NewProgram(u, (signup_handler(u, e) \o g) \o r)
      BY <1>2, <2>1, NewThenGentle
  <2>3. New(u)
      BY <1>5 DEF Trusted, Free, ByEmail
  <2> QED BY <2>2, <2>3, <1>1, <1>3, <1>5, NewKeeps
<1>6. CASE ~Free(db, e)
  <2>1. <<>> \o g = g
      BY <1>2, NothingBefore
  <2>2. signin_trusted(u, e, h.groups, h.role) \in Seq(GentleRow(u))
      BY <2>1, <1>2, <1>3, <1>6, GentleJoined
  <2> QED BY <2>2, <1>1, GentleKeeps DEF Start
<1> QED BY <1>5, <1>6

LEMMA RoleGiven ==
    ASSUME AccIInv, NEW u, u # None => u \in User, NEW claim, claim # None => claim \in Roles
    PROVE  get_user_role(u, claim) \in Roles
<1>1. \A x \in User : db.user[x].role \in Roles
    BY DEF AccIInv, AccTypes, DbRow, UserRow
<1> QED BY <1>1, DefaultIsRole DEF get_user_role

LEMMA OAuthKeeps ==
    ASSUME AccIInv, NEW c \in AccountClient, job[c] = <<>>, NEW u \in User, NEW e \in Email, OAuth(c, u, e)
    PROVE  AccIInv'
<1>1. PICK h \in Asserted : \/ Start(c, u, oauth_known(u, e, h.role, h.groups))
                            \/ New(u) /\ Start(c, u, oauth_new(u, e, h.role, h.groups))
    BY DEF OAuth
<1>2. h.groups \in SUBSET Group /\ (h.role # None => h.role \in Roles)
    BY AssertedIs
<1>3. db.groups \subseteq Group
    BY DEF AccIInv, AccTypes, DbRow
<1> DEFINE g == update_user_groups(u, h.groups)
<1>4. g \in Seq(GentleRow(u))
    BY <1>2, <1>3, UserGroups
<1> HIDE DEF g
<1>5. CASE Start(c, u, oauth_known(u, e, h.role, h.groups))
  <2> DEFINE a == Do("oauth", u, None)
             b == Do("role", u, get_user_role(u, h.role))
             m == <<a, b>>
             w == IF Free(db, e) THEN BothWrites(u, e) ELSE <<>>
  <2>1. a \in GentleRow(u)
      BY GentleIs, CarriedThings
  <2>2. b \in GentleRow(u)
    <3>1. get_user_role(u, h.role) \in Roles
        BY <1>2, RoleGiven
    <3> QED BY <3>1, RoleIs
  <2> HIDE DEF a, b
  <2>3. m \in Seq(GentleRow(u))
    <3> HIDE DEF GentleRow
    <3> QED BY <2>1, <2>2
  <2>4. oauth_known(u, e, h.role, h.groups) = (m \o w) \o g
      BY DEF oauth_known, BothWrites, a, b, g
  <2> HIDE DEF m
  <2>5. CASE Free(db, e)
    <3>1. EmailProgram(u, TRUE, m \o BothWrites(u, e))
        BY <2>3, EmailBoth, EmailPrefix DEF AddressOrNone
    <3>2. EmailProgram(u, TRUE, (m \o BothWrites(u, e)) \o g)
        BY <3>1, <1>4, EmailAppend
    <3> QED BY <3>2, <2>4, <2>5, <1>5, EmailKeeps DEF Start
  <2>6. CASE ~Free(db, e)
    <3>1. m \o <<>> = m
        BY <2>3, NothingBefore
    <3>2. oauth_known(u, e, h.role, h.groups) \in Seq(GentleRow(u))
        BY <3>1, <2>3, <2>4, <2>6, <1>4, GentleJoined
    <3> QED BY <3>2, <1>5, GentleKeeps DEF Start
  <2> QED BY <2>5, <2>6
<1>6. CASE New(u) /\ Start(c, u, oauth_new(u, e, h.role, h.groups))
  <2> DEFINE role == get_user_role(None, h.role)
             lead == <<Do("insert_auth", u, Row(e, role, TRUE, FALSE)), Do("count", u, None), DefaultGroup(u)>>
  <2>1. role \in Roles
      BY <1>2, RoleGiven
  <2>2. oauth_new(u, e, h.role, h.groups) = lead \o g
      BY DEF oauth_new, g
  <2> HIDE DEF role
  <2>3. NewProgram(u, lead)
      BY <2>1, CountedProgram
  <2> HIDE DEF lead
  <2>4. NewProgram(u, lead \o g)
      BY <2>3, <1>4, NewThenGentle
  <2> QED BY <2>2, <2>4, <1>6, NewKeeps
<1> QED BY <1>1, <1>5, <1>6

LEMMA AdminKeeps ==
    ASSUME AccIInv, NEW c \in AccountClient, job[c] = <<>>, NEW u \in User, NEW e \in Email, Admin(c, u, e)
    PROVE  AccIInv'
<1>1. \A x \in User : db.user[x].email \in AddressOrNone
    BY DEF AccIInv, AccTypes, DbRow, UserRow
<1>2. CASE \E role \in {"user", "admin"} : New(u) /\ Free(db, e) /\ Start(c, u, add_user(u, e, role))
  <2>1. PICK role \in {"user", "admin"} : New(u) /\ Start(c, u, add_user(u, e, role))
      BY <1>2
  <2> DEFINE s == Do("insert_auth", u, Row(e, role, FALSE, FALSE))
             w == DefaultGroup(u)
  <2>2. s \in CommitRow /\ s.do \in Inserts /\ s.u = u
    <3>1. "insert_auth" \in Inserts /\ role \in Roles
        BY DEF Inserts, Roles
    <3> QED BY <3>1, InsertIs
  <2>3. w \in MildRow(u)
      BY GentleIs, MildIs, CarriedThings DEF DefaultGroup
  <2>4. add_user(u, e, role) = <<s, w>>
      BY DEF add_user
  <2> HIDE DEF s, w
  <2>5. NewProgram(u, <<s, w>>)
      BY <2>2, <2>3, NewTwo
  <2> QED BY <2>1, <2>4, <2>5, NewKeeps
<1>3. CASE \E role \in {None, "pending", "admin"} :
               /\ db.user[u].in
               /\ \/ Start(c, u, update_user_by_id(u, role, e))
                  \/ Start(c, u, update_user_by_id(u, role, None))
  <2>1. PICK role \in {None, "pending", "admin"}, a \in {e, None} : db.user[u].in /\ Start(c, u, update_user_by_id(u, role, a))
      BY <1>3
  <2> DEFINE r == IF role = None THEN <<>> ELSE <<Do("role", u, role)>>
             b == IF a = None THEN db.user[u].email ELSE a
             w == IF a = None THEN <<>> ELSE BothWrites(u, a)
             f == <<Do("user_email", u, b)>>
  <2>2. r \in Seq(GentleRow(u))
    <3>1. role # None => role \in Roles
        BY DEF Roles
    <3> QED BY <3>1, OneRole
  <2>3. update_user_by_id(u, role, a) = (w \o f) \o r
      BY DEF update_user_by_id, BothWrites
  <2>4. b \in AddressOrNone /\ a \in AddressOrNone
      BY <1>1 DEF AddressOrNone
  <2>5. EmailProgram(u, TRUE, w \o f)
    <3>1. CASE a = None
      <4>1. Settled(db, u) => Agree(db, u, b)
          BY <3>1 DEF Settled, Agree
      <4>2. EmailProgram(u, TRUE, f)
          BY <4>1, <2>4, EmailOnce
      <4>3. f \in Seq(CommitRow)
          BY <4>2 DEF EmailProgram
      <4> HIDE DEF f
      <4>4. w \o f = f
          BY <4>3, <3>1, NothingBefore
      <4> QED BY <4>2, <4>4
    <3>2. CASE a # None
      <4>1. w \o f = BothWrites(u, a) \o <<Do("user_email", u, a)>>
          BY <3>2
      <4> HIDE DEF w, f
      <4> QED BY <4>1, <2>4, EmailTwice
    <3> QED BY <3>1, <3>2
  <2> HIDE DEF r, w, f
  <2>6. EmailProgram(u, TRUE, (w \o f) \o r)
      BY <2>2, <2>5, EmailAppend
  <2> QED BY <2>1, <2>3, <2>6, EmailKeeps DEF Start
<1>4. CASE Start(c, u, delete_user_by_id(u))
    BY <1>4, DeletingFits, BeginKeeps DEF Start
<1> QED BY <1>2, <1>3, <1>4 DEF Admin

LEMMA GroupAdminKeeps ==
    ASSUME AccIInv, NEW c \in AccountClient, job[c] = <<>>, NEW g \in Group, GroupAdmin(c, g)
    PROVE  AccIInv'
<1>1. CASE Start(c, None, <<Do("group", None, g)>>)
  <2>1. <<Do("group", None, g)>> \in Seq(GentleRow(None))
      BY OfGroupIs, GentleOne
  <2> QED BY <2>1, <1>1, GentleKeeps DEF Start
<1>2. CASE \E u \in Users(db), op \in {"join", "leave"} : Start(c, None, <<Do(op, u, g)>>)
  <2>1. PICK u \in User, op \in {"join", "leave"} : Start(c, None, <<Do(op, u, g)>>)
      BY <1>2 DEF Users
  <2>2. <<Do(op, u, g)>> \in Seq(GentleRow(u))
      BY GentleIs, GentleOne, CarriedThings
  <2> QED BY <2>1, <2>2, GentleKeeps DEF Start
<1>3. CASE Start(c, None, <<Do("ungroup", None, g)>>)
  <2>1. <<Do("ungroup", None, g)>> \in Seq(GentleRow(None))
      BY OfGroupIs, GentleOne
  <2> QED BY <2>1, <1>3, GentleKeeps DEF Start
<1> QED BY <1>1, <1>2, <1>3 DEF GroupAdmin

LEMMA ScimKeeps ==
    ASSUME AccIInv, NEW c \in AccountClient, job[c] = <<>>, NEW u \in User, NEW e \in Email, NEW active \in BOOLEAN, Scim(c, u, e, active)
    PROVE  AccIInv'
<1> DEFINE level == IF active THEN "user" ELSE "pending"
           sound == ~db.auth[u].in
           r == IF db.user[u].role = "admin" THEN <<>> ELSE <<Do("role", u, level)>>
<1>1. level \in Roles
    BY DEF Roles
<1>2. r \in Seq(GentleRow(u))
  <2>1. <<Do("role", u, level)>> \in Seq(GentleRow(u))
      BY <1>1, RoleIs, GentleOne
  <2> HIDE DEF GentleRow, level
  <2> QED BY <2>1, GentleNone
<1>3. sound \in BOOLEAN
    OBVIOUS
<1>4. CASE New(u) /\ Start(c, u, scim_create_user(u, e, active))
  <2> DEFINE s == Do("insert_user", u, Row(e, level, FALSE, FALSE))
             w == Do("scim", u, None)
  <2>1. s \in CommitRow /\ s.do \in Inserts /\ s.u = u
    <3>1. "insert_user" \in Inserts
        BY DEF Inserts
    <3> HIDE DEF level
    <3> QED BY <3>1, <1>1, InsertIs
  <2>2. w \in MildRow(u)
      BY GentleIs, MildIs, CarriedThings
  <2>3. scim_create_user(u, e, active) = <<s, w>>
      BY DEF scim_create_user
  <2> HIDE DEF s, w
  <2>4. NewProgram(u, <<s, w>>)
      BY <2>1, <2>2, NewTwo
  <2> QED BY <1>4, <2>3, <2>4, NewKeeps
<1>5. CASE StartIf(c, u, sound, scim_update_user(u, e, active))
  <2>1. EmailProgram(u, sound, <<Do("user_email", u, e)>>)
    <3>1. sound /\ Settled(db, u) => Agree(db, u, e)
        BY DEF Agree
    <3> HIDE DEF sound
    <3> QED BY <3>1, EmailOnce DEF AddressOrNone
  <2>2. scim_update_user(u, e, active) = <<Do("user_email", u, e)>> \o r
      BY DEF scim_update_user
  <2> HIDE DEF r, sound
  <2>3. EmailProgram(u, sound, scim_update_user(u, e, active))
      BY <1>2, <2>1, <2>2, EmailAppend
  <2> QED BY <1>3, <1>5, <2>3, EmailKeeps
<1>6. CASE StartIf(c, u, sound, scim_patch_user(u, active))
  <2>1. scim_patch_user(u, active) = r
      BY DEF scim_patch_user
  <2> HIDE DEF r, sound
  <2> QED BY <1>2, <1>3, <1>6, <2>1, GentleKeeps
<1>7. CASE StartIf(c, u, sound, scim_delete_user(u))
  <2>1. MayBegin(u, sound, scim_delete_user(u))
      BY ScimDeletingFits
  <2> HIDE DEF sound
  <2> QED BY <1>3, <1>7, <2>1, BeginKeeps
<1> QED BY <1>4, <1>5, <1>6, <1>7 DEF Scim

LEMMA ScimGroupKeeps ==
    ASSUME AccIInv, NEW c \in AccountClient, job[c] = <<>>, NEW g \in Group, ScimGroup(c, g)
    PROVE  AccIInv'
<1> DEFINE m(us) == Do("members", None, [group |-> g, users |-> us])
<1>1. \A us \in SUBSET User : m(us) \in GentleRow(None)
    BY MembersIs
<1>2. Do("group", None, g) \in GentleRow(None)
    BY OfGroupIs
<1>3. CASE \E us \in SUBSET User : Start(c, None, scim_create_group(g, us))
  <2>1. PICK us \in SUBSET User : Start(c, None, scim_create_group(g, us))
      BY <1>3
  <2>2. scim_create_group(g, us) = <<Do("group", None, g), m(us)>>
      BY DEF scim_create_group
  <2>3. m(us) \in GentleRow(None)
      BY <1>1
  <2> DEFINE a == m(us)
             b == Do("group", None, g)
  <2>4. <<b, a>> \in Seq(GentleRow(None))
    <3>1. a \in GentleRow(None) /\ b \in GentleRow(None)
        BY <2>3, <1>2
    <3> HIDE DEF a, b, GentleRow
    <3> QED BY <3>1
  <2> QED BY <2>1, <2>2, <2>4, GentleKeeps DEF Start
<1>4. CASE \E us \in SUBSET User : Start(c, None, scim_update_group(g, us))
  <2>1. PICK us \in SUBSET User : Start(c, None, scim_update_group(g, us))
      BY <1>4
  <2>2. scim_update_group(g, us) = <<m(us)>>
      BY DEF scim_update_group
  <2>3. <<m(us)>> \in Seq(GentleRow(None))
      BY <1>1, GentleOne
  <2> QED BY <2>1, <2>2, <2>3, GentleKeeps DEF Start
<1>5. CASE \E u \in User, op \in {"join", "leave"} : Start(c, None, scim_patch_group(g, u, op))
  <2>1. PICK u \in User, op \in {"join", "leave"} : Start(c, None, scim_patch_group(g, u, op))
      BY <1>5
  <2>2. <<Do(op, u, g)>> \in Seq(GentleRow(u))
      BY GentleIs, GentleOne, CarriedThings
  <2>3. scim_patch_group(g, u, op) = <<Do(op, u, g)>>
      BY DEF scim_patch_group
  <2> QED BY <2>1, <2>2, <2>3, GentleKeeps DEF Start
<1> QED BY <1>3, <1>4, <1>5 DEF ScimGroup

LEMMA AccInitIInv == AccountInit => AccIInv
<1> SUFFICES ASSUME AccountInit PROVE AccIInv
    OBVIOUS
<1>1. Users(db) = {} /\ promoted = {} /\ tidy = TRUE /\ \A c \in AccountClient : job[c] = <<>>
    BY DEF AccountInit, Users, NoUser
<1>2. db \in DbRow
    BY AccountRows DEF AccountInit, DbRow
<1>3. job \in [AccountClient -> Seq(CommitRow)] /\ \A c \in AccountClient : WellMade(job[c])
  <2> HIDE DEF CommitRow
  <2> QED BY <1>1, EmptyMade DEF AccountInit
<1>4. CredInv
    BY <1>1 DEF AccountInit, CredInv, Settled, NextOn, NoAuth
<1>5. OneMarked
    BY <1>1 DEF OneMarked, Inserting
<1> QED BY <1>1, <1>2, <1>3, <1>4, <1>5 DEF AccIInv, AccTypes, EmailsDiffer

LEMMA AccNextIInv == AccIInv /\ [AccountNext]_accountVars => AccIInv'
<1>1. ASSUME AccIInv, UNCHANGED accountVars PROVE AccIInv'
    BY <1>1 DEF accountVars, AccIInv, AccTypes, OneMarked, Marked, Promoting, Inserting, CredInv, Midway, NextOn
<1>2. ASSUME AccIInv, NEW c \in AccountClient, AccountStep(c) PROVE AccIInv'
    BY <1>2, StepTypes, StepMarks, StepCred DEF AccIInv
<1>3. ASSUME AccIInv, NEW c \in AccountClient, MayStart(c), NEW u \in User, NEW e \in Email,
             \/ signup(c, u, e) \/ Startup(c, u, e) \/ Ldap(c, u, e) \/ Trusted(c, u, e) \/ OAuth(c, u, e)
             \/ Admin(c, u, e) \/ \E active \in BOOLEAN : Scim(c, u, e, active)
      PROVE  AccIInv'
    BY <1>3, SignupKeeps, StartupKeeps, LdapKeeps, TrustedKeeps, OAuthKeeps, AdminKeeps, ScimKeeps DEF MayStart
<1>4. ASSUME AccIInv, NEW c \in AccountClient, MayStart(c), NEW g \in Group, GroupAdmin(c, g) \/ ScimGroup(c, g) PROVE AccIInv'
    BY <1>4, GroupAdminKeeps, ScimGroupKeeps DEF MayStart
<1> QED BY <1>1, <1>2, <1>3, <1>4 DEF AccountNext

LEMMA AccountsSound == AccIInv => AccountTypeOK /\ OneFirstAdmin /\ CredentialsFollow
<1> SUFFICES ASSUME AccIInv PROVE AccountTypeOK /\ OneFirstAdmin /\ CredentialsFollow
    OBVIOUS
<1>1. AccTypes /\ EmailsDiffer(db) /\ OneMarked /\ CredInv
    BY DEF AccIInv
<1>2. AccountTypeOK
    BY <1>1 DEF AccTypes, AccountTypeOK, DbRow, UserRow, Roles, AddressOrNone
<1>3. OneFirstAdmin
  <2>1. \A u, v \in promoted : u = v
      BY <1>1 DEF AccTypes, OneMarked, Marked
  <2>2. Cardinality(promoted) <= 1
    <3>1. CASE promoted = {}
        BY <3>1, FS_EmptySet
    <3>2. CASE promoted # {}
      <4>1. PICK w : w \in promoted
          BY <3>2
      <4>2. promoted = {w}
          BY <4>1, <2>1
      <4>3. Cardinality({w}) = 1
          BY FS_Singleton, Zenon
      <4> QED BY <4>2, <4>3
    <3> QED BY <3>1, <3>2
  <2> QED BY <2>2, <1>1 DEF OneFirstAdmin, EmailsDiffer
<1>4. CredentialsFollow
    BY <1>1 DEF CredentialsFollow, CredInv, AccountIdle, Midway, NextOn, Settled
<1> QED BY <1>2, <1>3, <1>4

-----------------------------------------------------------------------------
(* The dictionary of models                                                 *)

\* The steps of RedisDict.set.
Rewriting == {"compare", "keys", "hset", "hdel", "sign"}
\* The record of a call in progress.
CallRow == [step : CallStep, base : SUBSET Base, map : Mapping, old : SUBSET Model]
CacheTypes ==
    /\ provider \subseteq Base /\ custom \in [Model -> {"none", "active", "inactive"}]
    /\ redisBase \in (SUBSET Base) \cup {None} /\ localBase \in [Process -> SUBSET Base]
    /\ hash \in Mapping /\ signature \in Mapping \cup {None} /\ detached \subseteq Process
    /\ call \in [Process -> CallRow]
    /\ changes \in 0..MaxChanges /\ calls \in 0..MaxListings /\ raisedM \in 0..MaxRaised
    /\ overlap \in BOOLEAN /\ sure \subseteq Process
    /\ \A p \in Process : call[p].step \in Rewriting => Keys(call[p].map) # {}

\* What the one process that rewrites has read and written so far.
WriterInv ==
    ~overlap =>
        /\ \A p, q \in Writers : p = q
        /\ \A p \in Process :
              /\ call[p].step = "hset" => call[p].old = Keys(hash)
              /\ call[p].step = "hdel" => \A m \in Model :
                    IF call[p].map[m] # "absent" THEN hash[m] = call[p].map[m] ELSE hash[m] # "absent" => m \in call[p].old
              /\ call[p].step = "sign" => hash = call[p].map
              /\ call[p].step = "unsign" => hash = Empty

\* The signature tells the truth but between the first write and the last.
SignedInv ==
    ~overlap /\ raisedM = 0 =>
        signature = None \/ hash = signature \/ \E p \in Process : call[p].step \in {"hdel", "sign", "unsign"}

\* What a refresh carries is what there is now.
SureInv ==
    \A p \in sure :
        /\ call[p].step = "fetch" => localBase[p] = {}
        /\ call[p].step \in {"store", "build"} /\ call[p].base # {} => call[p].base = provider
        /\ call[p].step \in Rewriting => call[p].map = Assembled(provider, custom)
        /\ call[p].step = "unsign" /\ call[p].base # {} => Assembled(provider, custom) = Empty

CacheIInv == CacheTypes /\ WriterInv /\ SignedInv /\ SureInv

\* What is put together has its type, and is empty only as the empty mapping.
LEMMA MappingFacts ==
    /\ Empty \in Mapping /\ Keys(Empty) = {}
    /\ \A f \in Mapping : Keys(f) \subseteq Model /\ (Keys(f) = {} => f = Empty)
    /\ \A base, table : Assembled(base, table) \in Mapping
<1>1. Empty \in Mapping /\ Keys(Empty) = {}
    BY DEF Empty, Mapping, Keys
<1>2. ASSUME NEW f \in Mapping PROVE Keys(f) \subseteq Model /\ (Keys(f) = {} => f = Empty)
    BY DEF Empty, Mapping, Keys
<1>3. ASSUME NEW base, NEW table PROVE Assembled(base, table) \in Mapping
    BY DEF Assembled, Mapping
<1> QED BY <1>1, <1>2, <1>3

LEMMA CallRows ==
    /\ NoCall \in CallRow
    /\ NoCall.step = "none" /\ NoCall.base = {} /\ NoCall.map = Empty /\ NoCall.old = {}
    /\ \A r \in CallRow : r.step \in CallStep /\ r.base \in SUBSET Base /\ r.map \in Mapping /\ r.old \in SUBSET Model
BY MappingFacts DEF NoCall, CallRow, CallStep

\* Such a record, field by field.
CallWith(s, b, m, o) == [step |-> s, base |-> b, map |-> m, old |-> o]
LEMMA RowUpdates ==
    \A r \in CallRow, s \in CallStep :
        /\ [r EXCEPT !.step = s] = CallWith(s, r.base, r.map, r.old)
        /\ \A o \in SUBSET Model : [r EXCEPT !.step = s, !.old = o] = CallWith(s, r.base, r.map, o)
<1>1. ASSUME NEW r \in CallRow, NEW s \in CallStep PROVE [r EXCEPT !.step = s] = CallWith(s, r.base, r.map, r.old)
    BY DEF CallRow, CallWith
<1>2. ASSUME NEW r \in CallRow, NEW s \in CallStep, NEW o \in SUBSET Model
      PROVE  [r EXCEPT !.step = s, !.old = o] = CallWith(s, r.base, r.map, o)
  <2> DEFINE n == [r EXCEPT !.step = s, !.old = o]
  <2>1. n \in CallRow
      BY DEF CallRow
  <2>2. n.step = s /\ n.base = r.base /\ n.map = r.map /\ n.old = o
      BY DEF CallRow
  <2> HIDE DEF n
  <2>3. n = CallWith(s, r.base, r.map, o)
      BY <2>1, <2>2 DEF CallRow, CallWith
  <2> QED BY <2>3 DEF n

<1> QED BY <1>1, <1>2

\* A call moves on; the others stay.
Moves(p, s, b, m, o) ==
    /\ call' \in [Process -> CallRow] /\ \A q \in Process : q # p => call'[q] = call[q]
    /\ call'[p].step = s /\ call'[p].base = b /\ call'[p].map = m /\ call'[p].old = o
LEMMA CallMoves ==
    ASSUME call \in [Process -> CallRow], NEW p \in Process,
           NEW s \in CallStep, NEW b \in SUBSET Base, NEW m \in Mapping, NEW o \in SUBSET Model,
           call' = [call EXCEPT ![p] = CallWith(s, b, m, o)]
    PROVE  Moves(p, s, b, m, o)
<1>1. CallWith(s, b, m, o) \in CallRow
    BY DEF CallWith, CallRow
<1>2. call' \in [Process -> CallRow] /\ (\A q \in Process : q # p => call'[q] = call[q]) /\ call'[p] = CallWith(s, b, m, o)
    BY <1>1
<1> QED BY <1>2 DEF Moves, CallWith

LEMMA CacheInitIInv == CacheInit => CacheIInv
<1> SUFFICES ASSUME CacheInit PROVE CacheIInv
    OBVIOUS
<1> USE ModelCacheAssumption DEF CacheInit
<1>1. Empty \in Mapping /\ NoCall.step = "none"
    BY MappingFacts DEF NoCall
<1>2. CacheTypes
  <2>1. NoCall \in CallRow
      BY CallRows
  <2>2. call \in [Process -> CallRow] /\ \A p \in Process : call[p].step = "none"
      BY <1>1, <2>1
  <2>3. custom \in [Model -> {"none", "active", "inactive"}] /\ localBase \in [Process -> SUBSET Base]
      OBVIOUS
  <2>4. provider \subseteq Base /\ redisBase = None /\ signature = None /\ hash \in Mapping /\ detached = {} /\ sure = {}
        /\ overlap = FALSE /\ changes \in 0..MaxChanges /\ calls \in 0..MaxListings /\ raisedM \in 0..MaxRaised
      BY <1>1
  <2>5. \A p \in Process : call[p].step \in Rewriting => Keys(call[p].map) # {}
      BY <2>2 DEF Rewriting
  <2>6. redisBase \in (SUBSET Base) \cup {None} /\ signature \in Mapping \cup {None} /\ overlap \in BOOLEAN
      BY <2>4
  <2> HIDE DEF CacheInit
  <2> QED BY <2>2, <2>3, <2>4, <2>5, <2>6 DEF CacheTypes
<1>3. WriterInv /\ SignedInv /\ SureInv
    BY <1>1 DEF WriterInv, SignedInv, SureInv, Writers, Rewriting
<1> QED BY <1>2, <1>3 DEF CacheIInv

LEMMA CacheNextIInv == CacheIInv /\ [CacheNext]_cacheVars => CacheIInv'
<1> SUFFICES ASSUME CacheIInv, [CacheNext]_cacheVars PROVE CacheIInv'
    OBVIOUS
<1> USE ModelCacheAssumption
<1>0. /\ CacheTypes /\ WriterInv /\ SignedInv /\ SureInv
      /\ call \in [Process -> CallRow]
      /\ \A r \in CallRow : r.step \in CallStep /\ r.base \in SUBSET Base /\ r.map \in Mapping /\ r.old \in SUBSET Model
    BY CallRows DEF CacheIInv, CacheTypes
<1>1. ASSUME Change PROVE CacheIInv'
  <2>1. CacheTypes'
      BY <1>0, <1>1 DEF CacheTypes, Change, dictVars
  <2>2. WriterInv' /\ SignedInv'
      BY <1>0, <1>1 DEF WriterInv, SignedInv, Writers, Change, dictVars
  <2>3. SureInv'
      BY <1>1 DEF SureInv, Change
  <2> QED BY <2>1, <2>2, <2>3 DEF CacheIInv
<1>2. ASSUME NEW p \in Process, Refresh(p) PROVE CacheIInv'
  <2>1. /\ call[p].step = "none"
        /\ UNCHANGED <<provider, custom, hash, signature, detached, changes, raisedM, overlap>>
        /\ redisBase' = None
        /\ localBase' = [localBase EXCEPT ![p] = {}]
        /\ calls' \in 0..MaxListings
        /\ sure' = sure \cup {p}
      BY <1>0, <1>2, MappingFacts DEF CacheTypes, Refresh, inVars, baseVars, dictVars, boundVars, noteVars
  <2>2. Moves(p, "fetch", call[p].base, call[p].map, call[p].old)
    <3>1. call' = [call EXCEPT ![p] = CallWith("fetch", call[p].base, call[p].map, call[p].old)]
        BY <1>0, <1>2, <2>1, RowUpdates DEF Refresh, inVars, baseVars, dictVars, boundVars, noteVars, Goto, End, CallStep
    <3> QED BY <1>0, <2>1, <3>1, CallMoves, MappingFacts DEF CallStep
  <2>9. localBase' \in [Process -> SUBSET Base] /\ redisBase' \in (SUBSET Base) \cup {None} /\ sure' \subseteq Process
    <3>1. localBase \in [Process -> SUBSET Base] /\ {} \in SUBSET Base /\ None \in (SUBSET Base) \cup {None} /\ sure \subseteq Process
        BY <1>0 DEF CacheTypes
    <3>2. localBase' \in [Process -> SUBSET Base]
        BY <3>1, <2>1
    <3>3. sure' \subseteq Process
        BY <3>1, <2>1
    <3> QED BY <3>1, <3>2, <3>3, <2>1
  <2>3. CacheTypes'
      BY <1>0, <2>1, <2>2, <2>9, MappingFacts DEF CacheTypes, Moves, Rewriting, Writers
  <2>4. WriterInv'
      BY <1>0, <2>1, <2>2, MappingFacts DEF WriterInv, Moves, Writers
  <2>5. SignedInv'
      BY <1>0, <2>1, <2>2, MappingFacts DEF CacheTypes, WriterInv, SignedInv, Moves, Writers
  <2>6. SureInv'
      BY <1>0, <2>1, <2>2 DEF CacheTypes, SureInv, Moves, Rewriting
  <2> QED BY <2>3, <2>4, <2>5, <2>6 DEF CacheIInv
<1>3. ASSUME NEW p \in Process, UseCached(p) PROVE CacheIInv'
  <2>1. CASE redisBase \in {None, {}}
    <3>1. /\ call[p].step = "none"
          /\ UNCHANGED <<provider, custom, redisBase, localBase, hash, signature, detached, changes, raisedM, overlap>>
          /\ calls' \in 0..MaxListings
          /\ sure' = sure \ {p}
        BY <1>0, <1>3, <2>1, MappingFacts DEF CacheTypes, UseCached, inVars, baseVars, dictVars, boundVars, noteVars
    <3>2. Moves(p, "fetch", call[p].base, call[p].map, call[p].old)
      <4>1. call' = [call EXCEPT ![p] = CallWith("fetch", call[p].base, call[p].map, call[p].old)]
          BY <1>0, <1>3, <2>1, <3>1 DEF UseCached, inVars, baseVars, dictVars, boundVars, noteVars, Goto, End, CallWith, CallRow, NoCall
      <4> QED BY <1>0, <3>1, <4>1, CallMoves, MappingFacts DEF CallStep
    <3>3. CacheTypes'
        BY <1>0, <3>1, <3>2, MappingFacts, <2>1 DEF CacheTypes, Moves, Rewriting, Writers
    <3>4. WriterInv'
        BY <1>0, <3>1, <3>2, MappingFacts DEF WriterInv, Moves, Writers
    <3>5. SignedInv'
        BY <1>0, <3>1, <3>2, MappingFacts DEF CacheTypes, WriterInv, SignedInv, Moves, Writers
    <3>6. SureInv'
        BY <1>0, <3>1, <3>2, <2>1 DEF CacheTypes, SureInv, Moves, Rewriting
    <3> QED BY <3>3, <3>4, <3>5, <3>6 DEF CacheIInv
  <2>2. CASE redisBase \notin {None, {}}
    <3>1. /\ call[p].step = "none"
          /\ UNCHANGED <<provider, custom, redisBase, hash, signature, detached, changes, raisedM, overlap>>
          /\ redisBase \in SUBSET Base
          /\ localBase' = [localBase EXCEPT ![p] = redisBase]
          /\ calls' \in 0..MaxListings
          /\ sure' = sure \ {p}
        BY <1>0, <1>3, <2>2, MappingFacts DEF CacheTypes, UseCached, inVars, baseVars, dictVars, boundVars, noteVars
    <3>2. Moves(p, "build", redisBase, call[p].map, call[p].old)
      <4>1. call' = [call EXCEPT ![p] = CallWith("build", redisBase, call[p].map, call[p].old)]
          BY <1>0, <1>3, <2>2, <3>1 DEF UseCached, inVars, baseVars, dictVars, boundVars, noteVars, Goto, End, CallWith, CallRow, NoCall
      <4> QED BY <1>0, <3>1, <4>1, CallMoves, MappingFacts DEF CallStep
    <3>3. CacheTypes'
        BY <1>0, <3>1, <3>2, MappingFacts, <2>2 DEF CacheTypes, Moves, Rewriting, Writers
    <3>4. WriterInv'
        BY <1>0, <3>1, <3>2, MappingFacts DEF WriterInv, Moves, Writers
    <3>5. SignedInv'
        BY <1>0, <3>1, <3>2, MappingFacts DEF CacheTypes, WriterInv, SignedInv, Moves, Writers
    <3>6. SureInv'
        BY <1>0, <3>1, <3>2, <2>2 DEF CacheTypes, SureInv, Moves, Rewriting
    <3> QED BY <3>3, <3>4, <3>5, <3>6 DEF CacheIInv
  <2> QED BY <2>1, <2>2
<1>4. ASSUME NEW p \in Process, get_all_base_models(p) PROVE CacheIInv'
  <2>1. CASE provider # {}
    <3>1. /\ call[p].step = "fetch"
          /\ UNCHANGED <<provider, custom, redisBase, hash, signature, detached, changes, calls, raisedM, overlap, sure>>
          /\ localBase' = [localBase EXCEPT ![p] = provider]
          /\ provider \in SUBSET Base
        BY <1>0, <1>4, <2>1, MappingFacts DEF CacheTypes, get_all_base_models, inVars, baseVars, dictVars, boundVars, noteVars
    <3>2. Moves(p, "store", provider, call[p].map, call[p].old)
      <4>1. call' = [call EXCEPT ![p] = CallWith("store", provider, call[p].map, call[p].old)]
          BY <1>0, <1>4, <2>1, <3>1 DEF get_all_base_models, inVars, baseVars, dictVars, boundVars, noteVars, Goto, End, CallWith, CallRow, NoCall
      <4> QED BY <1>0, <3>1, <4>1, CallMoves, MappingFacts DEF CallStep
    <3>3. CacheTypes'
        BY <1>0, <3>1, <3>2, MappingFacts, <2>1 DEF CacheTypes, Moves, Rewriting, Writers
    <3>4. WriterInv'
        BY <1>0, <3>1, <3>2, MappingFacts DEF WriterInv, Moves, Writers
    <3>5. SignedInv'
        BY <1>0, <3>1, <3>2, MappingFacts DEF CacheTypes, WriterInv, SignedInv, Moves, Writers
    <3>6. SureInv'
        BY <1>0, <3>1, <3>2, <2>1 DEF CacheTypes, SureInv, Moves, Rewriting
    <3> QED BY <3>3, <3>4, <3>5, <3>6 DEF CacheIInv
  <2>2. CASE provider = {}
    <3>1. /\ call[p].step = "fetch"
          /\ UNCHANGED <<provider, custom, redisBase, localBase, hash, signature, detached, changes, calls, raisedM, overlap, sure>>
          /\ localBase[p] \in SUBSET Base
        BY <1>0, <1>4, <2>2, MappingFacts DEF CacheTypes, get_all_base_models, inVars, baseVars, dictVars, boundVars, noteVars
    <3>2. Moves(p, "build", localBase[p], call[p].map, call[p].old)
      <4>1. call' = [call EXCEPT ![p] = CallWith("build", localBase[p], call[p].map, call[p].old)]
          BY <1>0, <1>4, <2>2, <3>1 DEF get_all_base_models, inVars, baseVars, dictVars, boundVars, noteVars, Goto, End, CallWith, CallRow, NoCall
      <4> QED BY <1>0, <3>1, <4>1, CallMoves, MappingFacts DEF CallStep
    <3>3. CacheTypes'
        BY <1>0, <3>1, <3>2, MappingFacts, <2>2 DEF CacheTypes, Moves, Rewriting, Writers
    <3>4. WriterInv'
        BY <1>0, <3>1, <3>2, MappingFacts DEF WriterInv, Moves, Writers
    <3>5. SignedInv'
        BY <1>0, <3>1, <3>2, MappingFacts DEF CacheTypes, WriterInv, SignedInv, Moves, Writers
    <3>6. SureInv'
        BY <1>0, <3>1, <3>2, <2>2 DEF CacheTypes, SureInv, Moves, Rewriting
    <3> QED BY <3>3, <3>4, <3>5, <3>6 DEF CacheIInv
  <2> QED BY <2>1, <2>2
<1>5. ASSUME NEW p \in Process, StoreBase(p) PROVE CacheIInv'
  <2>1. /\ call[p].step = "store"
        /\ UNCHANGED <<provider, custom, localBase, hash, signature, detached, changes, calls, raisedM, overlap, sure>>
        /\ redisBase' = call[p].base
      BY <1>0, <1>5, MappingFacts DEF CacheTypes, StoreBase, inVars, baseVars, dictVars, boundVars, noteVars
  <2>2. Moves(p, "build", call[p].base, call[p].map, call[p].old)
    <3>1. call' = [call EXCEPT ![p] = CallWith("build", call[p].base, call[p].map, call[p].old)]
        BY <1>0, <1>5, <2>1, RowUpdates DEF StoreBase, inVars, baseVars, dictVars, boundVars, noteVars, Goto, End, CallStep
    <3> QED BY <1>0, <2>1, <3>1, CallMoves, MappingFacts DEF CallStep
  <2>3. CacheTypes'
      BY <1>0, <2>1, <2>2, MappingFacts DEF CacheTypes, Moves, Rewriting, Writers
  <2>4. WriterInv'
      BY <1>0, <2>1, <2>2, MappingFacts DEF WriterInv, Moves, Writers
  <2>5. SignedInv'
      BY <1>0, <2>1, <2>2, MappingFacts DEF CacheTypes, WriterInv, SignedInv, Moves, Writers
  <2>6. SureInv'
      BY <1>0, <2>1, <2>2 DEF CacheTypes, SureInv, Moves, Rewriting
  <2> QED BY <2>3, <2>4, <2>5, <2>6 DEF CacheIInv
<1>6. ASSUME NEW p \in Process, Build(p) PROVE CacheIInv'
  <2>1. CASE call[p].base = {} \/ p \in detached
    <3>1. /\ call[p].step = "build"
          /\ UNCHANGED <<provider, custom, redisBase, localBase, hash, signature, detached, changes, calls, raisedM, overlap, sure>>
        BY <1>0, <1>6, <2>1, MappingFacts DEF CacheTypes, Build, inVars, baseVars, dictVars, boundVars, noteVars
    <3>2. Moves(p, "none", {}, Empty, {})
      <4>1. call' = [call EXCEPT ![p] = CallWith("none", {}, Empty, {})]
          BY <1>0, <1>6, <2>1, <3>1 DEF Build, inVars, baseVars, dictVars, boundVars, noteVars, Goto, End, CallWith, CallRow, NoCall
      <4> QED BY <1>0, <3>1, <4>1, CallMoves, MappingFacts DEF CallStep
    <3>3. CacheTypes'
        BY <1>0, <3>1, <3>2, MappingFacts, <2>1 DEF CacheTypes, Moves, Rewriting, Writers
    <3>4. WriterInv'
        BY <1>0, <3>1, <3>2, MappingFacts DEF WriterInv, Moves, Writers
    <3>5. SignedInv'
        BY <1>0, <3>1, <3>2, MappingFacts DEF CacheTypes, WriterInv, SignedInv, Moves, Writers
    <3>6. SureInv'
        BY <1>0, <3>1, <3>2, <2>1 DEF CacheTypes, SureInv, Moves, Rewriting
    <3> QED BY <3>3, <3>4, <3>5, <3>6 DEF CacheIInv
  <2>2. CASE ~(call[p].base = {} \/ p \in detached) /\ Keys(Assembled(call[p].base, custom)) = {}
    <3>1. /\ call[p].step = "build"
          /\ UNCHANGED <<provider, custom, redisBase, localBase, signature, detached, changes, calls, raisedM, sure>>
          /\ hash' = Empty
          /\ overlap' = (overlap \/ Writers # {})
          /\ Assembled(call[p].base, custom) = Empty
        BY <1>0, <1>6, <2>2, MappingFacts DEF CacheTypes, Build, inVars, baseVars, dictVars, boundVars, noteVars
    <3>2. Moves(p, "unsign", call[p].base, call[p].map, call[p].old)
      <4>1. call' = [call EXCEPT ![p] = CallWith("unsign", call[p].base, call[p].map, call[p].old)]
          BY <1>0, <1>6, <2>2, <3>1 DEF Build, inVars, baseVars, dictVars, boundVars, noteVars, Goto, End, CallWith, CallRow, NoCall
      <4> QED BY <1>0, <3>1, <4>1, CallMoves, MappingFacts DEF CallStep
    <3>7. ~overlap' => ~overlap /\ \A q \in Process : q # p => call[q].step \notin {"compare", "keys", "hset", "hdel", "sign", "unsign"}
        BY <1>0, <3>1 DEF WriterInv, Writers
    <3>3. CacheTypes'
        BY <1>0, <3>1, <3>2, MappingFacts, <2>2 DEF CacheTypes, Moves, Rewriting, Writers
    <3>4. WriterInv'
        BY <1>0, <3>1, <3>2, <3>7, MappingFacts DEF WriterInv, Moves, Writers
    <3>5. SignedInv'
        BY <1>0, <3>1, <3>2, MappingFacts DEF CacheTypes, WriterInv, SignedInv, Moves, Writers
    <3>6. SureInv'
        BY <1>0, <3>1, <3>2, <2>2 DEF CacheTypes, SureInv, Moves, Rewriting
    <3> QED BY <3>3, <3>4, <3>5, <3>6 DEF CacheIInv
  <2>3. CASE ~(call[p].base = {} \/ p \in detached) /\ Keys(Assembled(call[p].base, custom)) # {}
    <3>1. /\ call[p].step = "build"
          /\ UNCHANGED <<provider, custom, redisBase, localBase, hash, signature, detached, changes, calls, raisedM, sure>>
          /\ overlap' = (overlap \/ Writers # {})
          /\ Assembled(call[p].base, custom) \in Mapping
          /\ call[p].base # {}
        BY <1>0, <1>6, <2>3, MappingFacts DEF CacheTypes, Build, inVars, baseVars, dictVars, boundVars, noteVars
    <3>2. Moves(p, "compare", call[p].base, Assembled(call[p].base, custom), call[p].old)
      <4>1. call' = [call EXCEPT ![p] = CallWith("compare", call[p].base, Assembled(call[p].base, custom), call[p].old)]
          BY <1>0, <1>6, <2>3, <3>1 DEF Build, inVars, baseVars, dictVars, boundVars, noteVars, Goto, End, CallWith, CallRow, NoCall
      <4> QED BY <1>0, <3>1, <4>1, CallMoves, MappingFacts DEF CallStep
    <3>7. ~overlap' => ~overlap /\ \A q \in Process : q # p => call[q].step \notin {"compare", "keys", "hset", "hdel", "sign", "unsign"}
        BY <1>0, <3>1 DEF WriterInv, Writers
    <3>3. CacheTypes'
        BY <1>0, <3>1, <3>2, MappingFacts, <2>3 DEF CacheTypes, Moves, Rewriting, Writers
    <3>4. WriterInv'
        BY <1>0, <3>1, <3>2, <3>7, MappingFacts DEF WriterInv, Moves, Writers
    <3>5. SignedInv'
        BY <1>0, <3>1, <3>2, MappingFacts DEF CacheTypes, WriterInv, SignedInv, Moves, Writers
    <3>6. SureInv'
        BY <1>0, <3>1, <3>2, <2>3 DEF CacheTypes, SureInv, Moves, Rewriting
    <3> QED BY <3>3, <3>4, <3>5, <3>6 DEF CacheIInv
  <2> QED BY <2>1, <2>2, <2>3
<1>7. ASSUME NEW p \in Process, Compare(p) PROVE CacheIInv'
  <2>1. CASE signature = call[p].map
    <3>1. /\ call[p].step = "compare"
          /\ UNCHANGED <<provider, custom, redisBase, localBase, hash, signature, detached, changes, calls, raisedM, overlap, sure>>
        BY <1>0, <1>7, <2>1, MappingFacts DEF CacheTypes, Compare, inVars, baseVars, dictVars, boundVars, noteVars
    <3>2. Moves(p, "none", {}, Empty, {})
      <4>1. call' = [call EXCEPT ![p] = CallWith("none", {}, Empty, {})]
          BY <1>0, <1>7, <2>1, <3>1 DEF Compare, inVars, baseVars, dictVars, boundVars, noteVars, Goto, End, CallWith, CallRow, NoCall
      <4> QED BY <1>0, <3>1, <4>1, CallMoves, MappingFacts DEF CallStep
    <3>3. CacheTypes'
        BY <1>0, <3>1, <3>2, MappingFacts, <2>1 DEF CacheTypes, Moves, Rewriting, Writers
    <3>4. WriterInv'
        BY <1>0, <3>1, <3>2, MappingFacts DEF WriterInv, Moves, Writers
    <3>5. SignedInv'
        BY <1>0, <3>1, <3>2, MappingFacts DEF CacheTypes, WriterInv, SignedInv, Moves, Writers
    <3>6. SureInv'
        BY <1>0, <3>1, <3>2, <2>1 DEF CacheTypes, SureInv, Moves, Rewriting
    <3> QED BY <3>3, <3>4, <3>5, <3>6 DEF CacheIInv
  <2>2. CASE signature # call[p].map
    <3>1. /\ call[p].step = "compare"
          /\ UNCHANGED <<provider, custom, redisBase, localBase, hash, signature, detached, changes, calls, raisedM, overlap, sure>>
        BY <1>0, <1>7, <2>2, MappingFacts DEF CacheTypes, Compare, inVars, baseVars, dictVars, boundVars, noteVars
    <3>2. Moves(p, "keys", call[p].base, call[p].map, call[p].old)
      <4>1. call' = [call EXCEPT ![p] = CallWith("keys", call[p].base, call[p].map, call[p].old)]
          BY <1>0, <1>7, <2>2, <3>1 DEF Compare, inVars, baseVars, dictVars, boundVars, noteVars, Goto, End, CallWith, CallRow, NoCall
      <4> QED BY <1>0, <3>1, <4>1, CallMoves, MappingFacts DEF CallStep
    <3>3. CacheTypes'
        BY <1>0, <3>1, <3>2, MappingFacts, <2>2 DEF CacheTypes, Moves, Rewriting, Writers
    <3>4. WriterInv'
        BY <1>0, <3>1, <3>2, MappingFacts DEF WriterInv, Moves, Writers
    <3>5. SignedInv'
        BY <1>0, <3>1, <3>2, MappingFacts DEF CacheTypes, WriterInv, SignedInv, Moves, Writers
    <3>6. SureInv'
        BY <1>0, <3>1, <3>2, <2>2 DEF CacheTypes, SureInv, Moves, Rewriting
    <3> QED BY <3>3, <3>4, <3>5, <3>6 DEF CacheIInv
  <2> QED BY <2>1, <2>2
<1>8. ASSUME NEW p \in Process, HKeys(p) PROVE CacheIInv'
  <2>1. /\ call[p].step = "keys"
        /\ UNCHANGED <<provider, custom, redisBase, localBase, hash, signature, detached, changes, calls, raisedM, overlap, sure>>
        /\ Keys(hash) \in SUBSET Model
      BY <1>0, <1>8, MappingFacts DEF CacheTypes, HKeys, inVars, baseVars, dictVars, boundVars, noteVars
  <2>2. Moves(p, "hset", call[p].base, call[p].map, Keys(hash))
    <3>1. call' = [call EXCEPT ![p] = [call[p] EXCEPT !.step = "hset", !.old = Keys(hash)]]
        BY <1>0, <1>8 DEF HKeys
    <3>2. [call[p] EXCEPT !.step = "hset", !.old = Keys(hash)] = CallWith("hset", call[p].base, call[p].map, Keys(hash))
      <4>1. call[p] \in CallRow /\ "hset" \in CallStep /\ Keys(hash) \in SUBSET Model
          BY <1>0, <2>1 DEF CallStep
      <4> QED BY <4>1, RowUpdates, Zenon
    <3>3. call' = [call EXCEPT ![p] = CallWith("hset", call[p].base, call[p].map, Keys(hash))]
        BY <3>1, <3>2
    <3> QED BY <1>0, <2>1, <3>3, CallMoves, MappingFacts DEF CallStep
  <2>3. CacheTypes'
      BY <1>0, <2>1, <2>2, MappingFacts DEF CacheTypes, Moves, Rewriting, Writers
  <2>4. WriterInv'
      BY <1>0, <2>1, <2>2, MappingFacts DEF WriterInv, Moves, Writers
  <2>5. SignedInv'
      BY <1>0, <2>1, <2>2, MappingFacts DEF CacheTypes, WriterInv, SignedInv, Moves, Writers
  <2>6. SureInv'
      BY <1>0, <2>1, <2>2 DEF CacheTypes, SureInv, Moves, Rewriting
  <2> QED BY <2>3, <2>4, <2>5, <2>6 DEF CacheIInv
<1>9. ASSUME NEW p \in Process, HSet(p) PROVE CacheIInv'
  <2>1. /\ call[p].step = "hset"
        /\ UNCHANGED <<provider, custom, redisBase, localBase, signature, detached, changes, calls, raisedM, overlap, sure>>
        /\ hash' \in Mapping
        /\ \A m \in Model : hash'[m] = IF call[p].map[m] # "absent" THEN call[p].map[m] ELSE hash[m]
      BY <1>0, <1>9, MappingFacts DEF CacheTypes, HSet, inVars, baseVars, dictVars, boundVars, noteVars, Mapping
  <2>2. Moves(p, "hdel", call[p].base, call[p].map, call[p].old)
    <3>1. call' = [call EXCEPT ![p] = CallWith("hdel", call[p].base, call[p].map, call[p].old)]
        BY <1>0, <1>9, <2>1, RowUpdates DEF HSet, inVars, baseVars, dictVars, boundVars, noteVars, Goto, End, CallStep
    <3> QED BY <1>0, <2>1, <3>1, CallMoves, MappingFacts DEF CallStep
  <2>7. ~overlap => ~overlap /\ \A q \in Process : q # p => call[q].step \notin {"compare", "keys", "hset", "hdel", "sign", "unsign"}
      BY <1>0, <2>1 DEF WriterInv, Writers
  <2>8. ~overlap => \A m \in Model :
            IF call[p].map[m] # "absent" THEN hash'[m] = call[p].map[m] ELSE hash'[m] # "absent" => m \in call[p].old
      BY <1>0, <2>1 DEF WriterInv, Keys
  <2>3. CacheTypes'
      BY <1>0, <2>1, <2>2, MappingFacts DEF CacheTypes, Moves, Rewriting, Writers
  <2>4. WriterInv'
      BY <1>0, <2>1, <2>2, <2>7, <2>8, MappingFacts DEF WriterInv, Moves, Writers
  <2>5. SignedInv'
      BY <1>0, <2>1, <2>2, MappingFacts DEF CacheTypes, WriterInv, SignedInv, Moves, Writers
  <2>6. SureInv'
      BY <1>0, <2>1, <2>2 DEF CacheTypes, SureInv, Moves, Rewriting
  <2> QED BY <2>3, <2>4, <2>5, <2>6 DEF CacheIInv
<1>10. ASSUME NEW p \in Process, HDel(p) PROVE CacheIInv'
  <2>1. /\ call[p].step = "hdel"
        /\ UNCHANGED <<provider, custom, redisBase, localBase, signature, detached, changes, calls, raisedM, overlap, sure>>
        /\ hash' \in Mapping
        /\ \A m \in Model : hash'[m] = IF m \in call[p].old \ Keys(call[p].map) THEN "absent" ELSE hash[m]
      BY <1>0, <1>10, MappingFacts DEF CacheTypes, HDel, inVars, baseVars, dictVars, boundVars, noteVars, Mapping
  <2>2. Moves(p, "sign", call[p].base, call[p].map, call[p].old)
    <3>1. call' = [call EXCEPT ![p] = CallWith("sign", call[p].base, call[p].map, call[p].old)]
        BY <1>0, <1>10, <2>1, RowUpdates DEF HDel, inVars, baseVars, dictVars, boundVars, noteVars, Goto, End, CallStep
    <3> QED BY <1>0, <2>1, <3>1, CallMoves, MappingFacts DEF CallStep
  <2>7. ~overlap => ~overlap /\ \A q \in Process : q # p => call[q].step \notin {"compare", "keys", "hset", "hdel", "sign", "unsign"}
      BY <1>0, <2>1 DEF WriterInv, Writers
  <2>8. ~overlap => hash' = call[p].map
    <3> SUFFICES ASSUME ~overlap PROVE \A m \in Model : hash'[m] = call[p].map[m]
        BY <1>0, <2>1 DEF Mapping
    <3> QED BY <1>0, <2>1 DEF WriterInv, Keys
  <2>3. CacheTypes'
      BY <1>0, <2>1, <2>2, MappingFacts DEF CacheTypes, Moves, Rewriting, Writers
  <2>4. WriterInv'
      BY <1>0, <2>1, <2>2, <2>7, <2>8, MappingFacts DEF WriterInv, Moves, Writers
  <2>5. SignedInv'
      BY <1>0, <2>1, <2>2, MappingFacts DEF CacheTypes, WriterInv, SignedInv, Moves, Writers
  <2>6. SureInv'
      BY <1>0, <2>1, <2>2 DEF CacheTypes, SureInv, Moves, Rewriting
  <2> QED BY <2>3, <2>4, <2>5, <2>6 DEF CacheIInv
<1>11. ASSUME NEW p \in Process, Sign(p) PROVE CacheIInv'
  <2>1. /\ call[p].step = "sign"
        /\ UNCHANGED <<provider, custom, redisBase, localBase, hash, detached, changes, calls, raisedM, overlap, sure>>
        /\ signature' = call[p].map
      BY <1>0, <1>11, MappingFacts DEF CacheTypes, Sign, inVars, baseVars, dictVars, boundVars, noteVars
  <2>2. Moves(p, "none", {}, Empty, {})
    <3>1. call' = [call EXCEPT ![p] = CallWith("none", {}, Empty, {})]
        BY <1>0, <1>11, <2>1 DEF Sign, inVars, baseVars, dictVars, boundVars, noteVars, Goto, End, CallWith, CallRow, NoCall
    <3> QED BY <1>0, <2>1, <3>1, CallMoves, MappingFacts DEF CallStep
  <2>3. CacheTypes'
      BY <1>0, <2>1, <2>2, MappingFacts DEF CacheTypes, Moves, Rewriting, Writers
  <2>4. WriterInv'
      BY <1>0, <2>1, <2>2, MappingFacts DEF WriterInv, Moves, Writers
  <2>5. SignedInv'
      BY <1>0, <2>1, <2>2, MappingFacts DEF CacheTypes, WriterInv, SignedInv, Moves, Writers
  <2>6. SureInv'
      BY <1>0, <2>1, <2>2 DEF CacheTypes, SureInv, Moves, Rewriting
  <2> QED BY <2>3, <2>4, <2>5, <2>6 DEF CacheIInv
<1>12. ASSUME NEW p \in Process, Unsign(p) PROVE CacheIInv'
  <2>1. /\ call[p].step = "unsign"
        /\ UNCHANGED <<provider, custom, redisBase, localBase, hash, detached, changes, calls, raisedM, overlap, sure>>
        /\ signature' = None
      BY <1>0, <1>12, MappingFacts DEF CacheTypes, Unsign, inVars, baseVars, dictVars, boundVars, noteVars
  <2>2. Moves(p, "none", {}, Empty, {})
    <3>1. call' = [call EXCEPT ![p] = CallWith("none", {}, Empty, {})]
        BY <1>0, <1>12, <2>1 DEF Unsign, inVars, baseVars, dictVars, boundVars, noteVars, Goto, End, CallWith, CallRow, NoCall
    <3> QED BY <1>0, <2>1, <3>1, CallMoves, MappingFacts DEF CallStep
  <2>3. CacheTypes'
      BY <1>0, <2>1, <2>2, MappingFacts DEF CacheTypes, Moves, Rewriting, Writers
  <2>4. WriterInv'
      BY <1>0, <2>1, <2>2, MappingFacts DEF WriterInv, Moves, Writers
  <2>5. SignedInv'
      BY <1>0, <2>1, <2>2, MappingFacts DEF CacheTypes, WriterInv, SignedInv, Moves, Writers
  <2>6. SureInv'
      BY <1>0, <2>1, <2>2 DEF CacheTypes, SureInv, Moves, Rewriting
  <2> QED BY <2>3, <2>4, <2>5, <2>6 DEF CacheIInv
<1>13. ASSUME NEW p \in Process, SetRaises(p) PROVE CacheIInv'
  <2>1. /\ p \in Writers /\ call[p].step # "unsign"
        /\ UNCHANGED <<provider, custom, redisBase, localBase, hash, signature, changes, calls, overlap, sure>>
        /\ detached' \subseteq Process
        /\ raisedM' \in 0..MaxRaised
        /\ raisedM' > 0
      BY <1>0, <1>13, MappingFacts DEF CacheTypes, SetRaises, inVars, baseVars, dictVars, boundVars, noteVars
  <2>2. Moves(p, "none", {}, Empty, {})
    <3>1. call' = [call EXCEPT ![p] = CallWith("none", {}, Empty, {})]
        BY <1>0, <1>13, <2>1 DEF SetRaises, inVars, baseVars, dictVars, boundVars, noteVars, Goto, End, CallWith, CallRow, NoCall
    <3> QED BY <1>0, <2>1, <3>1, CallMoves, MappingFacts DEF CallStep
  <2>3. CacheTypes'
      BY <1>0, <2>1, <2>2, MappingFacts DEF CacheTypes, Moves, Rewriting, Writers
  <2>4. WriterInv'
      BY <1>0, <2>1, <2>2, MappingFacts DEF WriterInv, Moves, Writers
  <2>5. SignedInv'
      BY <1>0, <2>1, <2>2, MappingFacts DEF CacheTypes, WriterInv, SignedInv, Moves, Writers
  <2>6. SureInv'
      BY <1>0, <2>1, <2>2 DEF CacheTypes, SureInv, Moves, Rewriting
  <2> QED BY <2>3, <2>4, <2>5, <2>6 DEF CacheIInv
<1>14. ASSUME NEW p \in Process, clear_openai_model_cache(p) PROVE CacheIInv'
  <2>1. CASE p \in detached
    <3>1. /\ call[p].step = "none"
          /\ UNCHANGED <<custom, hash, signature, detached, calls, raisedM, overlap>>
          /\ UNCHANGED call
          /\ provider' \subseteq Base
          /\ redisBase' = None
          /\ localBase' = [localBase EXCEPT ![p] = {}]
          /\ changes' \in 0..MaxChanges
          /\ sure' = {}
        BY <1>0, <1>14, <2>1, MappingFacts DEF CacheTypes, clear_openai_model_cache, inVars, baseVars, dictVars, boundVars, noteVars
    <3>2. UNCHANGED call
        BY <3>1
    <3>9. localBase' \in [Process -> SUBSET Base] /\ redisBase' \in (SUBSET Base) \cup {None} /\ sure' \subseteq Process
      <4>1. localBase \in [Process -> SUBSET Base] /\ {} \in SUBSET Base /\ None \in (SUBSET Base) \cup {None} /\ sure \subseteq Process
          BY <1>0 DEF CacheTypes
      <4>2. localBase' \in [Process -> SUBSET Base]
          BY <4>1, <3>1
      <4>3. sure' \subseteq Process
          BY <4>1, <3>1
      <4> QED BY <4>1, <4>2, <4>3, <3>1
    <3>3. CacheTypes'
        BY <1>0, <3>1, <3>2, <3>9, MappingFacts, <2>1 DEF CacheTypes, Moves, Rewriting, Writers
    <3>4. WriterInv'
        BY <1>0, <3>1, <3>2, MappingFacts DEF WriterInv, Moves, Writers
    <3>5. SignedInv'
        BY <1>0, <3>1, <3>2, MappingFacts DEF CacheTypes, WriterInv, SignedInv, Moves, Writers
    <3>6. SureInv'
        BY <1>0, <3>1, <3>2, <2>1 DEF CacheTypes, SureInv, Moves, Rewriting
    <3> QED BY <3>3, <3>4, <3>5, <3>6 DEF CacheIInv
  <2>2. CASE p \notin detached
    <3>1. /\ call[p].step = "none"
          /\ UNCHANGED <<custom, signature, detached, calls, raisedM>>
          /\ hash' = Empty
          /\ overlap' = (overlap \/ Writers # {})
          /\ provider' \subseteq Base
          /\ redisBase' = None
          /\ localBase' = [localBase EXCEPT ![p] = {}]
          /\ changes' \in 0..MaxChanges
          /\ sure' = {}
        BY <1>0, <1>14, <2>2, MappingFacts DEF CacheTypes, clear_openai_model_cache, inVars, baseVars, dictVars, boundVars, noteVars
    <3>2. Moves(p, "unsign", call[p].base, call[p].map, call[p].old)
      <4>1. call' = [call EXCEPT ![p] = CallWith("unsign", call[p].base, call[p].map, call[p].old)]
          BY <1>0, <1>14, <2>2, <3>1 DEF clear_openai_model_cache, inVars, baseVars, dictVars, boundVars, noteVars, Goto, End, CallWith, CallRow, NoCall
      <4> QED BY <1>0, <3>1, <4>1, CallMoves, MappingFacts DEF CallStep
    <3>9. localBase' \in [Process -> SUBSET Base] /\ redisBase' \in (SUBSET Base) \cup {None} /\ sure' \subseteq Process
      <4>1. localBase \in [Process -> SUBSET Base] /\ {} \in SUBSET Base /\ None \in (SUBSET Base) \cup {None} /\ sure \subseteq Process
          BY <1>0 DEF CacheTypes
      <4>2. localBase' \in [Process -> SUBSET Base]
          BY <4>1, <3>1
      <4>3. sure' \subseteq Process
          BY <4>1, <3>1
      <4> QED BY <4>1, <4>2, <4>3, <3>1
    <3>3. CacheTypes'
        BY <1>0, <3>1, <3>2, <3>9, MappingFacts, <2>2 DEF CacheTypes, Moves, Rewriting, Writers
    <3>4. WriterInv'
        BY <1>0, <3>1, <3>2, MappingFacts DEF WriterInv, Moves, Writers
    <3>5. SignedInv'
        BY <1>0, <3>1, <3>2, MappingFacts DEF CacheTypes, WriterInv, SignedInv, Moves, Writers
    <3>6. SureInv'
        BY <1>0, <3>1, <3>2, <2>2 DEF CacheTypes, SureInv, Moves, Rewriting
    <3> QED BY <3>3, <3>4, <3>5, <3>6 DEF CacheIInv
  <2> QED BY <2>1, <2>2
<1>15. ASSUME UNCHANGED cacheVars PROVE CacheIInv'
    BY <1>15 DEF cacheVars, boundVars, inVars, baseVars, dictVars, noteVars, CacheIInv, CacheTypes, WriterInv, SignedInv, SureInv, Writers
<1> QED BY <1>1, <1>2, <1>3, <1>4, <1>5, <1>6, <1>7, <1>8, <1>9, <1>10, <1>11, <1>12, <1>13, <1>14, <1>15 DEF CacheNext

(* The steps that empty the dictionary are those that clear it; a rewrite    *)
(* leaves what both have.                                                    *)
LEMMA CacheNeverEmptied == CacheIInv /\ CacheNext => NeverEmptied
<1> SUFFICES ASSUME CacheIInv, CacheNext, Keys(hash) # {}, Keys(hash') = {}, ~overlap'
             PROVE  \E p \in Process : call[p].step # "unsign" /\ call'[p].step = "unsign"
    BY DEF NeverEmptied
<1>0. CacheTypes /\ WriterInv /\ call \in [Process -> CallRow]
    BY DEF CacheIInv, CacheTypes
<1>1. PICK p \in Process : Build(p) \/ HSet(p) \/ HDel(p) \/ clear_openai_model_cache(p)
  <2>1. hash' # hash
      OBVIOUS
  <2> QED BY <2>1 DEF CacheNext, Change, Refresh, UseCached, get_all_base_models, StoreBase, Compare, HKeys, Sign, Unsign, SetRaises,
          inVars, baseVars, dictVars
<1>2. CASE Build(p)
  <2>1. hash' # hash
      OBVIOUS
  <2> QED BY <1>0, <1>2, <2>1 DEF Build, Goto, End, CallRow
<1>3. CASE HSet(p)
  <2>1. PICK m \in Model : call[p].map[m] # "absent"
      BY <1>0, <1>3 DEF CacheTypes, HSet, Rewriting, Keys
  <2>2. hash'[m] # "absent"
      BY <1>3, <2>1 DEF HSet
  <2> QED BY <2>1, <2>2 DEF Keys
<1>4. CASE HDel(p)
  <2>1. PICK m \in Model : call[p].map[m] # "absent"
      BY <1>0, <1>4 DEF CacheTypes, HDel, Rewriting, Keys
  <2>2. hash[m] = call[p].map[m]
      BY <1>0, <1>4, <2>1 DEF WriterInv, HDel, noteVars
  <2>3. hash'[m] # "absent"
      BY <1>4, <2>1, <2>2 DEF HDel, Keys
  <2> QED BY <2>1, <2>3 DEF Keys
<1>5. CASE clear_openai_model_cache(p)
  <2>1. hash' # hash
      OBVIOUS
  <2> QED BY <1>0, <1>5, <2>1 DEF clear_openai_model_cache, Goto, CallRow
<1> QED BY <1>1, <1>2, <1>3, <1>4, <1>5

(* A refresh that ends has written what there is, or found it written.       *)
LEMMA CacheRefreshes == CacheIInv /\ CacheNext => RefreshTakesEffect
<1> SUFFICES ASSUME CacheIInv, CacheNext, NEW p \in sure \ detached,
                    call[p].step # "none", call'[p].step = "none", call[p].base # {}, ~overlap', raisedM' = 0
             PROVE  hash' = Assembled(provider, custom)
  <2>1. CacheIInv /\ CacheNext => CacheTypes'
      BY CacheNextIInv DEF CacheIInv
  <2>2. CacheTypes' => raisedM' \in Nat
      BY ModelCacheAssumption DEF CacheTypes
  <2> QED BY <2>1, <2>2 DEF RefreshTakesEffect
<1> USE ModelCacheAssumption
<1>0. CacheTypes /\ WriterInv /\ SignedInv /\ SureInv /\ call \in [Process -> CallRow] /\ p \in Process
    BY DEF CacheIInv, CacheTypes
<1>1. Build(p) \/ Compare(p) \/ Sign(p) \/ Unsign(p)
  <2>1. \A q \in Process : call'[q].step = "none" /\ call[q].step # "none" => call'[q] # call[q]
      OBVIOUS
  <2>2. ~Change
      BY DEF Change
  <2>3. ASSUME NEW q \in Process,
               \/ Refresh(q) \/ UseCached(q) \/ get_all_base_models(q) \/ StoreBase(q) \/ HKeys(q) \/ HSet(q) \/ HDel(q)
               \/ clear_openai_model_cache(q)
        PROVE  FALSE
      BY <1>0, <2>3 DEF Refresh, UseCached, get_all_base_models, StoreBase, HKeys, HSet, HDel, clear_openai_model_cache, Goto,
          CallRow
  <2>4. ASSUME NEW q \in Process, SetRaises(q) PROVE FALSE
      BY <1>0, <2>4 DEF SetRaises, CacheTypes
  <2>5. ASSUME NEW q \in Process, Build(q) \/ Compare(q) \/ Sign(q) \/ Unsign(q) PROVE q = p
      BY <1>0, <2>5 DEF Build, Compare, Sign, Unsign, Goto, End, CallRow
  <2> QED BY <2>2, <2>3, <2>4, <2>5 DEF CacheNext
<1>2. CASE Build(p)
  <2>1. call[p].step = "build" /\ call[p].base # {} /\ p \notin detached
      BY <1>2 DEF Build
  <2>2. call'[p].step # "none"
      BY <1>0, <1>2, <2>1 DEF Build, Goto, CallRow
  <2> QED BY <2>2
<1>3. CASE Compare(p)
  <2>1. call[p].step = "compare" /\ signature = call[p].map /\ UNCHANGED <<hash, overlap, raisedM>>
    <3>1. call[p].step = "compare" /\ UNCHANGED <<hash, overlap, raisedM>>
        BY <1>3 DEF Compare, dictVars, boundVars, noteVars
    <3>2. signature # call[p].map => call'[p].step = "keys"
        BY <1>0, <1>3 DEF Compare, Goto, CallRow
    <3> QED BY <3>1, <3>2
  <2>2. call[p].map = Assembled(provider, custom)
      BY <1>0, <2>1 DEF SureInv, Rewriting
  <2>3. call[p].map \in Mapping /\ signature # None
      BY <1>0, <2>1 DEF CallRow, Mapping, Model
  <2>4. \A q \in Process : call[q].step \notin {"hdel", "sign", "unsign"}
      BY <1>0, <2>1 DEF WriterInv, Writers
  <2> QED BY <1>0, <2>1, <2>2, <2>3, <2>4 DEF SignedInv
<1>4. CASE Sign(p)
    BY <1>0, <1>4 DEF Sign, WriterInv, SureInv, Rewriting, noteVars
<1>5. CASE Unsign(p)
    BY <1>0, <1>5 DEF Unsign, WriterInv, SureInv, noteVars
<1> QED BY <1>1, <1>2, <1>3, <1>4, <1>5

(* The properties of the run. *)
LEMMA ModelsSound == CacheIInv /\ CacheNext => NeverEmptied /\ RefreshTakesEffect /\ SignatureHonest' /\ CacheTypeOK'
<1> SUFFICES ASSUME CacheIInv, CacheNext PROVE SignatureHonest' /\ CacheTypeOK'
    BY CacheNeverEmptied, CacheRefreshes
<1>1. CacheTypes' /\ SignedInv'
    BY CacheNextIInv DEF CacheIInv
<1>2. SignatureHonest'
    BY <1>1 DEF SignatureHonest, SignedInv, Writers, CacheTypes
<1>3. CacheTypeOK'
    BY <1>1 DEF CacheTypes, CacheTypeOK, CallRow
<1> QED BY <1>2, <1>3

-----------------------------------------------------------------------------
(* Plugins                                                                 *)

PlugRow == [in : BOOLEAN, text : Source \cup {None}, active : BOOLEAN, global : BOOLEAN, grants : BOOLEAN]
CallerOps == {"create", "update", "delete", "sync", "access", "toggle", "global", "off", "use", "filter"}
Places == {"idle", "load", "save", "grant", "revoke", "drop", "pop", "toggle", "read", "compare", "run", "reload"}
CallerText == PlugText \cup {None} \cup BOOLEAN
CallerRow == [at : Places, op : CallerOps \cup {None}, id : Plugin \cup {None}, text : CallerText, shown : Source \cup {None}]

\* What a request carries where it is.
CallerOK(r) ==
    /\ r.at \in {"load", "read", "compare", "run", "reload", "grant", "revoke", "drop", "pop"} => r.id \in Plugin
    /\ r.at = "load" => r.text \in PlugText /\ r.op \in {"create", "update", "sync", "use", "filter"}
    /\ r.at = "save" => r.op \in {"create", "update", "sync"} /\ r.id \in Plugin
                        /\ r.text \in Source \cup {None} /\ (r.op # "sync" => r.text \in Source)
    /\ r.at = "toggle" => r.op \in {"toggle", "global", "off"} /\ r.text \in BOOLEAN
    /\ r.op \in {"create", "update"} => r.text \in PlugText
    /\ r.op = "sync" => r.id \in Function /\ r.at \in {"load", "save"}
    /\ r.at = "compare" => r.text \in Source
    /\ r.at = "idle" => r.op = None
    /\ r.at \in {"read", "compare", "run", "reload"} => r.op \in {"use", "filter"}
    /\ r.at \in {"revoke", "drop", "pop"} => r.op = "delete"

PlugTypes ==
    /\ plug \in [Plugin -> PlugRow] /\ loaded \in [Plugin -> Source \cup {None}] /\ contents \in [Plugin -> Source \cup {None}]
    /\ caller \in [PluginClient -> CallerRow] /\ neat \in BOOLEAN
    /\ pluginCalls \in 0..MaxPluginCalls /\ pluginFails \in 0..MaxPluginFails
    /\ \A p \in Plugin : plug[p].in => plug[p].text \in Source
    /\ \A c \in PluginClient : CallerOK(caller[c])

Differ(p) == loaded[p] # None /\ contents[p] # None /\ loaded[p] # contents[p]
\* A save that has put its module in the cache and has still to write its row.
Cached(c, p) == caller[c].at = "save" /\ caller[c].op \in {"create", "update"} /\ caller[c].id = p

\* As long as no saves crossed: they are about different plugins, and a module
\* that is not of the text beside it is the one a save put there.
SaverInv ==
    neat =>
        /\ \A c, d \in PluginClient : PlugSaving(c) /\ PlugSaving(d) /\ c # d =>
              caller[c].id # caller[d].id /\ "sync" \notin {caller[c].op, caller[d].op}
        /\ \A c \in PluginClient : caller[c].op = "create" /\ caller[c].at \in {"load", "save"} => ~plug[caller[c].id].in
        /\ \A c \in PluginClient : caller[c].op = "sync" => \A q \in Function : ~Differ(q)
        /\ \A c \in PluginClient, p \in Plugin : Cached(c, p) /\ Differ(p) => loaded[p] = caller[c].text
\* Such a module is of the text of the row, or of the text its save will write.
PairInv ==
    neat => \A p \in Plugin : plug[p].in /\ Differ(p) =>
        plug[p].text = loaded[p] \/ \E c \in PluginClient : Cached(c, p) /\ caller[c].text = loaded[p]
\* The history covers what a call has read and what it may find in the cache.
SeenInv ==
    /\ \A c \in PluginClient : Using(c) =>
          /\ Current[caller[c].id] \subseteq meanwhile[c]
          /\ caller[c].at \in {"compare", "load"} => caller[c].text \in meanwhile[c]
    /\ neat => \A c \in PluginClient :
          caller[c].at = "compare" /\ UpToDate(caller[c].id, caller[c].text) => loaded[caller[c].id] \in meanwhile[c]
PlugIInv == PlugTypes /\ SaverInv /\ PairInv /\ SeenInv

\* A request that has ended, and one that moves to another place.
LEMMA NotCallingFacts ==
    /\ NotCalling \in CallerRow /\ CallerOK(NotCalling)
    /\ NotCalling.at = "idle" /\ NotCalling.op = None /\ NotCalling.id = None /\ NotCalling.text = None
BY PluginAssumption DEF NotCalling, CallerRow, CallerOK, Places, CallerText

CallerSame(c) == caller' \in [PluginClient -> CallerRow] /\ \A d \in PluginClient : d # c => caller'[d] = caller[d]
LEMMA Goes ==
    ASSUME caller \in [PluginClient -> CallerRow], NEW c \in PluginClient, NEW at \in Places, PlugGoes(c, at)
    PROVE  /\ CallerSame(c)
           /\ at = "idle" => caller'[c] = NotCalling
           /\ at # "idle" => /\ caller'[c].at = at /\ caller'[c].op = caller[c].op /\ caller'[c].id = caller[c].id
                             /\ caller'[c].text = caller[c].text
<1>1. CASE at = "idle"
  <2>1. caller' = [caller EXCEPT ![c] = NotCalling]
      BY <1>1 DEF PlugGoes
  <2> QED BY <2>1, <1>1, NotCallingFacts DEF CallerSame
<1>2. CASE at # "idle"
  <2>1. caller' = [caller EXCEPT ![c] = [@ EXCEPT !.at = at]]
      BY <1>2 DEF PlugGoes
  <2>2. caller[c] \in CallerRow /\ [caller[c] EXCEPT !.at = at] \in CallerRow
      BY DEF CallerRow
  <2> QED BY <2>1, <2>2, <1>2 DEF CallerSame, CallerRow
<1> QED BY <1>1, <1>2

\* SeenInv after a step, before the history is written.
SeenNext ==
    /\ \A c \in PluginClient : Using(c)' /\ caller'[c].at \in {"compare", "load"}
          => caller'[c].text \in meanwhile[c] \cup Current'[caller'[c].id]
    /\ neat' => \A c \in PluginClient :
          caller'[c].at = "compare" /\ contents'[caller'[c].id] = caller'[c].text /\ loaded'[caller'[c].id] # None
             => loaded'[caller'[c].id] \in meanwhile[c] \cup Current'[caller'[c].id]
PlugKept == PlugTypes' /\ SaverInv' /\ PairInv' /\ SeenNext

\* Nothing is written but by requests in progress: a step that starts one.
Asked(op, p, t, at) == [at |-> at, op |-> op, id |-> p, text |-> t, shown |-> None]
LEMMA AskKeeps ==
    ASSUME PlugIInv, NEW c \in PluginClient, NEW op \in CallerOps, NEW p \in Plugin \cup {None}, NEW t \in CallerText,
           NEW at \in Places \ {"idle"}, PlugAsk(c, op, p, t, at), CallerOK(Asked(op, p, t, at)),
           at \in {"load", "save"} => op \in {"create", "update", "sync"}, at = "save" => op = "sync",
           op = "create" => ~plug[p].in, at = "compare" => plug[p].in /\ t = plug[p].text
    PROVE  PlugKept
<1>1. /\ CallerSame(c) /\ caller'[c].at = at /\ caller'[c].op = op /\ caller'[c].id = p /\ caller'[c].text = t
      /\ caller[c].at = "idle" /\ CallerOK(caller'[c])
  <2>1. caller' = [caller EXCEPT ![c] = Asked(op, p, t, at)] /\ caller[c].at = "idle"
      BY DEF PlugAsk, Asked
  <2>2. Asked(op, p, t, at) \in CallerRow
      BY DEF Asked, CallerRow
  <2>3. caller \in [PluginClient -> CallerRow]
      BY DEF PlugIInv, PlugTypes
  <2>4. CallerSame(c) /\ caller'[c] = Asked(op, p, t, at)
      BY <2>1, <2>2, <2>3 DEF CallerSame
  <2> QED BY <2>1, <2>4 DEF Asked
<1>2. /\ plug' = plug /\ loaded' = loaded /\ contents' = contents /\ pluginFails' = pluginFails
      /\ pluginCalls < MaxPluginCalls /\ pluginCalls' = pluginCalls + 1
      /\ neat' = (neat /\ (op \in {"create", "update", "delete", "sync"} =>
                           \A o \in PluginClient : ~(PlugSaving(o) /\ (caller[o].id = p \/ "sync" \in {op, caller[o].op})))
                      /\ (op = "sync" => \A q \in Function : {loaded[q], contents[q]} \in {{loaded[q]}, {loaded[q], None}}))
    BY DEF PlugAsk
<1>3. PlugTypes'
  <2>1. neat' \in BOOLEAN
      BY <1>2
  <2>2. pluginCalls' \in 0..MaxPluginCalls
      BY <1>2, PluginAssumption DEF PlugIInv, PlugTypes
  <2>3. \A d \in PluginClient : CallerOK(caller'[d])
      BY <1>1 DEF CallerSame, PlugIInv, PlugTypes
  <2> QED BY <1>1, <1>2, <2>1, <2>2, <2>3 DEF CallerSame, PlugIInv, PlugTypes
<1>4. SaverInv'
  <2> SUFFICES ASSUME neat' PROVE SaverInv'
      BY DEF SaverInv
  <2>1. /\ neat
        /\ op \in {"create", "update", "delete", "sync"} =>
              \A o \in PluginClient : ~(PlugSaving(o) /\ (caller[o].id = p \/ "sync" \in {op, caller[o].op}))
        /\ op = "sync" => \A q \in Function : {loaded[q], contents[q]} \in {{loaded[q]}, {loaded[q], None}}
      BY <1>2
  <2>2. \A d, e \in PluginClient : PlugSaving(d)' /\ PlugSaving(e)' /\ d # e =>
              caller'[d].id # caller'[e].id /\ "sync" \notin {caller'[d].op, caller'[e].op}
      BY <1>1, <2>1 DEF SaverInv, PlugIInv, PlugSaving, CallerSame
  <2>3. \A d \in PluginClient : caller'[d].op = "create" /\ caller'[d].at \in {"load", "save"} => ~plug'[caller'[d].id].in
      BY <1>1, <1>2, <2>1 DEF SaverInv, PlugIInv, CallerSame
  <2>4. \A d \in PluginClient : caller'[d].op = "sync" => \A q \in Function : ~Differ(q)'
    <3>1. op = "sync" => \A q \in Function : ~Differ(q)
        BY <2>1 DEF Differ
    <3> QED BY <1>1, <1>2, <2>1, <3>1 DEF SaverInv, PlugIInv, CallerSame, Differ
  <2>5. \A d \in PluginClient, q \in Plugin : Cached(d, q)' /\ Differ(q)' => loaded'[q] = caller'[d].text
      BY <1>1, <1>2, <2>1 DEF SaverInv, PlugIInv, CallerSame, Differ, Cached
  <2> QED BY <2>2, <2>3, <2>4, <2>5 DEF SaverInv
<1>5. PairInv'
  <2> SUFFICES ASSUME neat', NEW q \in Plugin, plug'[q].in, Differ(q)'
               PROVE  plug'[q].text = loaded'[q] \/ \E d \in PluginClient : Cached(d, q)' /\ caller'[d].text = loaded'[q]
      BY DEF PairInv
  <2>1. plug[q].text = loaded[q] \/ \E d \in PluginClient : Cached(d, q) /\ caller[d].text = loaded[q]
      BY <1>2 DEF PairInv, PlugIInv, Differ
  <2>2. ASSUME NEW d \in PluginClient, Cached(d, q) PROVE Cached(d, q)' /\ caller'[d] = caller[d]
      BY <2>2, <1>1 DEF Cached, CallerSame
  <2> QED BY <2>1, <2>2, <1>2
<1>6. SeenNext
  <2>1. ASSUME NEW d \in PluginClient, Using(d)', caller'[d].at \in {"compare", "load"}
        PROVE  caller'[d].text \in meanwhile[d] \cup Current'[caller'[d].id]
    <3>1. CASE d = c
      <4>1. at = "compare" /\ p \in Plugin /\ t = plug[p].text
          BY <3>1, <1>1, <2>1 DEF Using, CallerOK
      <4>2. plug'[p].text \in Current'[p]
          BY <4>1 DEF Current
      <4> QED BY <4>1, <4>2, <3>1, <1>1, <1>2
    <3>2. CASE d # c
        BY <3>2, <1>1, <2>1 DEF CallerSame, Using, SeenInv, PlugIInv
    <3> QED BY <3>1, <3>2
  <2>2. ASSUME neat', NEW d \in PluginClient, caller'[d].at = "compare", contents'[caller'[d].id] = caller'[d].text,
               loaded'[caller'[d].id] # None
        PROVE  loaded'[caller'[d].id] \in meanwhile[d] \cup Current'[caller'[d].id]
    <3>1. CASE d = c
      <4>1. at = "compare" /\ p \in Plugin /\ t = plug[p].text /\ plug[p].in /\ t \in Source /\ contents[p] = t /\ loaded[p] # None
          BY <3>1, <1>1, <1>2, <2>2 DEF CallerOK
      <4>2. plug[p].text = loaded[p] \/ \E x \in PluginClient : Cached(x, p) /\ caller[x].text = loaded[p]
          BY <4>1, <2>2, <1>2, PluginAssumption DEF PairInv, PlugIInv, Differ
      <4>3. loaded[p] \in Current'[p]
        <5>1. CASE plug[p].text = loaded[p]
            BY <5>1, <4>1, <1>2 DEF Current
        <5>2. ASSUME NEW x \in PluginClient, Cached(x, p), caller[x].text = loaded[p] PROVE loaded[p] \in Current'[p]
          <6>1. x # c /\ caller'[x] = caller[x]
              BY <5>2, <1>1 DEF Cached, CallerSame
          <6>2. loaded[p] \in PlugPending(p)'
              BY <5>2, <6>1 DEF PlugPending, Cached
          <6> QED BY <6>2, <4>1 DEF Current
        <5> QED BY <5>1, <5>2, <4>2
      <4> QED BY <4>1, <4>3, <3>1, <1>1, <1>2
    <3>2. CASE d # c
        BY <3>2, <1>1, <1>2, <2>2 DEF CallerSame, UpToDate, SeenInv, PlugIInv
    <3> QED BY <3>1, <3>2
  <2> QED BY <2>1, <2>2 DEF SeenNext
<1> QED BY <1>3, <1>4, <1>5, <1>6 DEF PlugKept

\* A step of a request that neither begins a save nor writes a text.
LEMMA QuietKeeps ==
    ASSUME PlugIInv, NEW c \in PluginClient, CallerSame(c), PlugTypes', neat' => neat,
           neat' /\ caller[c].at = "save" => caller[c].op \notin {"create", "update"},
           caller'[c].at # "save", PlugSaving(c)' => PlugSaving(c) /\ caller'[c].at # "load",
           caller'[c] = NotCalling \/ (caller'[c].id = caller[c].id /\ caller'[c].op = caller[c].op),
           \A p \in Plugin : plug'[p].in => plug[p].in /\ plug'[p].text = plug[p].text,
           \A p \in Plugin : \/ loaded'[p] = loaded[p] /\ contents'[p] = contents[p]
                             \/ None \in {loaded'[p], contents'[p]} \/ loaded'[p] = contents'[p],
           caller'[c].at = "load" => caller'[c].text \in meanwhile[c],
           caller'[c].at = "compare" => /\ caller'[c].text = plug[caller[c].id].text /\ plug[caller[c].id].in /\ caller'[c].text # None
                                        /\ plug' = plug /\ loaded' = loaded /\ contents' = contents /\ caller[c].at = "read"
    PROVE  PlugKept
<1> DEFINE Elsewhere == \A d \in PluginClient : d # c => caller'[d] = caller[d]
<1>1. Elsewhere
    BY DEF CallerSame
<1>2. \A p \in Plugin : Differ(p)' => Differ(p) /\ loaded'[p] = loaded[p]
    BY DEF Differ
<1>3. \A d \in PluginClient : PlugSaving(d)' => PlugSaving(d) /\ caller'[d].id = caller[d].id /\ caller'[d].op = caller[d].op
  <2>1. PlugSaving(c)' => caller'[c] # NotCalling
      BY NotCallingFacts DEF PlugSaving
  <2> QED BY <1>1, <2>1 DEF PlugSaving
<1>4. \A d \in PluginClient : d # c => Cached(d, caller[d].id)' = Cached(d, caller[d].id)
    BY <1>1 DEF Cached
<1>5. \A p \in Plugin, d \in PluginClient : Cached(d, p)' => d # c
    BY DEF Cached
<1>6. SaverInv'
  <2> SUFFICES ASSUME neat' PROVE SaverInv'
      BY DEF SaverInv
  <2>1. SaverInv /\ neat
      BY DEF PlugIInv
  <2>2. \A d, e \in PluginClient : PlugSaving(d)' /\ PlugSaving(e)' /\ d # e =>
              caller'[d].id # caller'[e].id /\ "sync" \notin {caller'[d].op, caller'[e].op}
      BY <1>3, <2>1 DEF SaverInv
  <2>3. \A d \in PluginClient : caller'[d].op = "create" /\ caller'[d].at \in {"load", "save"} => ~plug'[caller'[d].id].in
    <3> SUFFICES ASSUME NEW d \in PluginClient, caller'[d].op = "create", caller'[d].at \in {"load", "save"}
                 PROVE  ~plug'[caller'[d].id].in
        OBVIOUS
    <3>1. d # c
        BY DEF PlugSaving
    <3>2. caller[d].id \in Plugin /\ ~plug[caller[d].id].in
        BY <3>1, <1>1, <2>1 DEF SaverInv, PlugIInv, PlugTypes, CallerOK
    <3> QED BY <3>1, <3>2, <1>1
  <2>4. \A d \in PluginClient : caller'[d].op = "sync" => \A q \in Function : ~Differ(q)'
    <3> SUFFICES ASSUME NEW d \in PluginClient, caller'[d].op = "sync" PROVE \A q \in Function : ~Differ(q)'
        OBVIOUS
    <3>1. caller[d].op = "sync"
        BY <1>1, NotCallingFacts, PluginAssumption
    <3> QED BY <3>1, <1>2, <2>1 DEF SaverInv, Plugin
  <2>5. \A d \in PluginClient, q \in Plugin : Cached(d, q)' /\ Differ(q)' => loaded'[q] = caller'[d].text
    <3> SUFFICES ASSUME NEW d \in PluginClient, NEW q \in Plugin, Cached(d, q)', Differ(q)' PROVE loaded'[q] = caller'[d].text
        OBVIOUS
    <3>1. d # c /\ caller'[d] = caller[d] /\ Cached(d, q)
        BY <1>1, <1>5 DEF Cached
    <3> QED BY <3>1, <1>2, <2>1 DEF SaverInv
  <2> QED BY <2>2, <2>3, <2>4, <2>5 DEF SaverInv
<1>7. PairInv'
  <2> SUFFICES ASSUME neat', NEW p \in Plugin, plug'[p].in, Differ(p)'
               PROVE  plug'[p].text = loaded'[p] \/ \E d \in PluginClient : Cached(d, p)' /\ caller'[d].text = loaded'[p]
      BY DEF PairInv
  <2>1. plug[p].text = loaded[p] \/ \E d \in PluginClient : Cached(d, p) /\ caller[d].text = loaded[p]
      BY <1>2 DEF PairInv, PlugIInv
  <2>2. ASSUME NEW d \in PluginClient, Cached(d, p) PROVE Cached(d, p)' /\ caller'[d] = caller[d]
      BY <2>2, <1>1 DEF Cached
  <2> QED BY <2>1, <2>2, <1>2
<1>8. SeenNext
  <2>1. ASSUME NEW d \in PluginClient, Using(d)', caller'[d].at \in {"compare", "load"}
        PROVE  caller'[d].text \in meanwhile[d] \cup Current'[caller'[d].id]
    <3>1. CASE d = c /\ caller'[c].at = "load"
        BY <3>1
    <3>2. CASE d = c /\ caller'[c].at = "compare"
      <4>1. caller[c].id \in Plugin /\ caller'[c].id = caller[c].id
          BY <3>2, NotCallingFacts DEF PlugIInv, PlugTypes, CallerOK
      <4>2. plug[caller[c].id].text \in Current'[caller[c].id]
          BY <4>1, <3>2 DEF Current
      <4> QED BY <4>1, <4>2, <3>2
    <3>3. CASE d # c
        BY <3>3, <1>1, <2>1 DEF Using, SeenInv, PlugIInv
    <3> QED BY <3>1, <3>2, <3>3, <2>1
  <2>2. ASSUME neat', NEW d \in PluginClient, caller'[d].at = "compare", contents'[caller'[d].id] = caller'[d].text,
               loaded'[caller'[d].id] # None
        PROVE  loaded'[caller'[d].id] \in meanwhile[d] \cup Current'[caller'[d].id]
    <3>1. CASE d = c
      <4>1. /\ caller'[c].id = caller[c].id /\ caller[c].id \in Plugin /\ plug[caller[c].id].in
            /\ contents[caller[c].id] = plug[caller[c].id].text /\ loaded[caller[c].id] # None /\ contents[caller[c].id] # None
          BY <3>1, <2>2, NotCallingFacts DEF PlugIInv, PlugTypes, CallerOK
      <4>2. \/ plug[caller[c].id].text = loaded[caller[c].id]
            \/ \E x \in PluginClient : Cached(x, caller[c].id) /\ caller[x].text = loaded[caller[c].id]
          BY <4>1, <2>2 DEF PairInv, PlugIInv, Differ
      <4>3. loaded[caller[c].id] \in Current'[caller[c].id]
        <5>1. CASE plug[caller[c].id].text = loaded[caller[c].id]
            BY <5>1, <4>1, <3>1, <2>2 DEF Current
        <5>2. ASSUME NEW x \in PluginClient, Cached(x, caller[c].id), caller[x].text = loaded[caller[c].id]
              PROVE  loaded[caller[c].id] \in Current'[caller[c].id]
          <6>1. x # c /\ caller'[x] = caller[x]
              BY <5>2, <1>1, <3>1, <2>2 DEF Cached
          <6>2. PICK p \in Plugin : p = caller[c].id
              BY <4>1
          <6>3. loaded[p] \in PlugPending(p)'
              BY <5>2, <6>1, <6>2 DEF PlugPending, Cached
          <6> QED BY <6>2, <6>3, <4>1 DEF Current
        <5> QED BY <5>1, <5>2, <4>2
      <4> QED BY <4>1, <4>3, <3>1, <2>2
    <3>2. CASE d # c
      <4>1. caller'[d] = caller[d] /\ caller[d].id \in Plugin /\ caller[d].text \in Source /\ Using(d)
          BY <3>2, <1>1, <2>2 DEF PlugIInv, PlugTypes, CallerOK, Using
      <4>2. caller[d].text \in meanwhile[d] /\ caller[d].text # None
          BY <4>1, <2>2, PluginAssumption DEF SeenInv, PlugIInv
      <4>3. CASE loaded'[caller[d].id] = loaded[caller[d].id] /\ contents'[caller[d].id] = contents[caller[d].id]
          BY <4>1, <4>3, <2>2 DEF SeenInv, PlugIInv, UpToDate
      <4>4. CASE loaded'[caller[d].id] = contents'[caller[d].id]
          BY <4>1, <4>2, <4>4, <2>2
      <4> QED BY <4>1, <4>2, <4>3, <4>4, <2>2
    <3> QED BY <3>1, <3>2
  <2> QED BY <2>1, <2>2 DEF SeenNext
<1> QED BY <1>6, <1>7, <1>8 DEF PlugKept

\* The requests that a client may make.
LEMMA AsksKeep ==
    ASSUME PlugIInv, NEW c \in PluginClient,
           \/ create_new_tools(c) \/ update_tools_by_id(c) \/ delete_tools_by_id(c) \/ update_tool_access_by_id(c)
           \/ create_new_function(c) \/ update_function_by_id(c) \/ delete_function_by_id(c) \/ sync_functions(c)
           \/ toggle_function_by_id(c) \/ toggle_global_by_id(c) \/ deactivate_all_functions(c)
           \/ get_tools(c) \/ update_tools_valves_by_id(c) \/ update_function_valves_by_id(c)
           \/ generate_function_chat_completion(c) \/ chat_action(c) \/ resolve_filter_pipeline(c) \/ dispatch_event_functions(c)
    PROVE  PlugKept
<1>1. ASSUME NEW p \in Plugin, NEW t \in PlugText, NEW op \in {"create", "update"}, PlugAsk(c, op, p, t, "load"),
             op = "create" => ~plug[p].in
      PROVE  PlugKept
  <2>1. CallerOK(Asked(op, p, t, "load")) /\ t \in CallerText /\ op \in CallerOps
      BY <1>1 DEF CallerOK, Asked, CallerText, CallerOps
  <2> QED BY <1>1, <2>1, AskKeeps DEF Places
<1>2. ASSUME NEW p \in Plugin, NEW at \in {"revoke", "drop"}, PlugAsk(c, "delete", p, None, at) PROVE PlugKept
  <2>1. CallerOK(Asked("delete", p, None, at)) /\ None \in CallerText /\ "delete" \in CallerOps
      BY <1>2 DEF CallerOK, Asked, CallerText, CallerOps
  <2> QED BY <1>2, <2>1, AskKeeps DEF Places
<1>3. ASSUME NEW p \in Function, NEW t \in PlugText \cup {None}, PlugAsk(c, "sync", p, t, IF t = None THEN "save" ELSE "load")
      PROVE  PlugKept
  <2>1. CASE t = None
    <3>1. CallerOK(Asked("sync", p, t, "save")) /\ t \in CallerText /\ "sync" \in CallerOps /\ p \in Plugin
        BY <2>1 DEF CallerOK, Asked, CallerText, CallerOps, Plugin
    <3>2. PlugAsk(c, "sync", p, t, "save")
        BY <1>3, <2>1
    <3> QED BY <3>1, <3>2, AskKeeps DEF Places
  <2>2. CASE t # None
    <3>1. CallerOK(Asked("sync", p, t, "load")) /\ t \in CallerText /\ "sync" \in CallerOps /\ p \in Plugin
        BY <2>2 DEF CallerOK, Asked, CallerText, CallerOps, Plugin
    <3>2. PlugAsk(c, "sync", p, t, "load")
        BY <1>3, <2>2
    <3> QED BY <3>1, <3>2, AskKeeps DEF Places
  <2> QED BY <2>1, <2>2
<1>4. ASSUME NEW p \in Plugin, PlugAsk(c, "access", p, None, "grant") PROVE PlugKept
  <2>1. CallerOK(Asked("access", p, None, "grant")) /\ None \in CallerText /\ "access" \in CallerOps
      BY DEF CallerOK, Asked, CallerText, CallerOps
  <2> QED BY <1>4, <2>1, AskKeeps DEF Places
<1>5. ASSUME NEW p \in Plugin \cup {None}, NEW op \in {"toggle", "global", "off"}, NEW t \in BOOLEAN, PlugAsk(c, op, p, t, "toggle")
      PROVE  PlugKept
  <2>1. CallerOK(Asked(op, p, t, "toggle")) /\ t \in CallerText /\ op \in CallerOps
      BY <1>5 DEF CallerOK, Asked, CallerText, CallerOps
  <2> QED BY <1>5, <2>1, AskKeeps DEF Places
<1>6. ASSUME NEW p \in Plugin, PlugAsk(c, "use", p, None, "read") PROVE PlugKept
  <2>1. CallerOK(Asked("use", p, None, "read")) /\ None \in CallerText /\ "use" \in CallerOps
      BY DEF CallerOK, Asked, CallerText, CallerOps
  <2> QED BY <1>6, <2>1, AskKeeps DEF Places
<1>7. ASSUME NEW p \in Plugin, NEW op \in {"use", "filter"}, plug[p].in, PlugAsk(c, op, p, plug[p].text, "compare") PROVE PlugKept
  <2>1. plug[p].text \in Source
      BY <1>7 DEF PlugIInv, PlugTypes
  <2>2. CallerOK(Asked(op, p, plug[p].text, "compare")) /\ plug[p].text \in CallerText /\ op \in CallerOps
      BY <1>7, <2>1 DEF CallerOK, Asked, CallerText, CallerOps, PlugText
  <2> QED BY <1>7, <2>2, AskKeeps DEF Places
<1>8. Toolkit \subseteq Plugin /\ Function \subseteq Plugin
    BY DEF Plugin
<1>9. CASE create_new_tools(c) \/ update_tools_by_id(c) \/ create_new_function(c) \/ update_function_by_id(c)
    BY <1>9, <1>1, <1>8 DEF create_new_tools, update_tools_by_id, create_new_function, update_function_by_id
<1>10. CASE delete_tools_by_id(c) \/ delete_function_by_id(c)
    BY <1>10, <1>2, <1>8 DEF delete_tools_by_id, delete_function_by_id
<1>11. CASE sync_functions(c)
    BY <1>11, <1>3 DEF sync_functions
<1>12. CASE update_tool_access_by_id(c)
    BY <1>12, <1>4, <1>8 DEF update_tool_access_by_id
<1>13. CASE toggle_function_by_id(c) \/ toggle_global_by_id(c) \/ deactivate_all_functions(c)
  <2>1. \A p \in Function : (~plug[p].active) \in BOOLEAN /\ (~plug[p].global) \in BOOLEAN
      OBVIOUS
  <2> QED BY <1>13, <2>1, <1>5, <1>8 DEF toggle_function_by_id, toggle_global_by_id, deactivate_all_functions
<1>14. CASE \/ get_tools(c) \/ update_tools_valves_by_id(c) \/ update_function_valves_by_id(c)
            \/ generate_function_chat_completion(c) \/ chat_action(c)
    BY <1>14, <1>6, <1>8
       DEF get_tools, update_tools_valves_by_id, update_function_valves_by_id, generate_function_chat_completion, chat_action
<1>15. CASE resolve_filter_pipeline(c) \/ dispatch_event_functions(c)
    BY <1>15, <1>7, <1>8 DEF resolve_filter_pipeline, dispatch_event_functions
<1> QED BY <1>9, <1>10, <1>11, <1>12, <1>13, <1>14, <1>15

LEMMA PlugTypesKept ==
    ASSUME PlugTypes, NEW c \in PluginClient, CallerSame(c), CallerOK(caller'[c]),
           plug' \in [Plugin -> PlugRow], \A p \in Plugin : plug'[p].in => plug'[p].text \in Source,
           loaded' \in [Plugin -> Source \cup {None}], contents' \in [Plugin -> Source \cup {None}],
           neat' \in BOOLEAN, pluginCalls' = pluginCalls, pluginFails' \in 0..MaxPluginFails
    PROVE  PlugTypes'
BY DEF PlugTypes, CallerSame

\* A request that ends, or goes on with the same plugin to something that is no save.
LEMMA GoesQuietly ==
    ASSUME PlugIInv, NEW c \in PluginClient, NEW at \in {"idle", "grant", "drop", "pop", "reload"}, PlugGoes(c, at),
           caller[c].at # "idle", at \in {"grant", "drop", "pop"} => PlugSaving(c),
           at # "idle" => CallerOK(caller'[c]), caller[c].at = "save" /\ neat' => caller[c].op \notin {"create", "update"},
           neat' => neat, neat' \in BOOLEAN, pluginCalls' = pluginCalls, pluginFails' \in 0..MaxPluginFails,
           plug' \in [Plugin -> PlugRow], \A p \in Plugin : plug'[p].in => plug[p].in /\ plug'[p].text = plug[p].text,
           loaded' \in [Plugin -> Source \cup {None}], contents' \in [Plugin -> Source \cup {None}],
           \A p \in Plugin : \/ loaded'[p] = loaded[p] /\ contents'[p] = contents[p]
                             \/ None \in {loaded'[p], contents'[p]} \/ loaded'[p] = contents'[p]
    PROVE  PlugKept
<1>1. PlugTypes /\ at \in Places /\ caller \in [PluginClient -> CallerRow]
    BY DEF PlugIInv, PlugTypes, Places
<1>2. /\ CallerSame(c)
      /\ at = "idle" => caller'[c] = NotCalling
      /\ at # "idle" => caller'[c].at = at /\ caller'[c].op = caller[c].op /\ caller'[c].id = caller[c].id
    BY <1>1, Goes
<1>3. CallerOK(caller'[c])
    BY <1>2, NotCallingFacts
<1>4. \A p \in Plugin : plug'[p].in => plug'[p].text \in Source
    BY <1>1 DEF PlugTypes
<1>5. PlugTypes'
    BY <1>1, <1>2, <1>3, <1>4, PlugTypesKept
<1>6. caller'[c].at = at
    BY <1>2, NotCallingFacts
<1>7. PlugSaving(c)' => PlugSaving(c) /\ caller'[c].at # "load"
    BY <1>2, <1>6 DEF PlugSaving
<1>8. caller'[c] = NotCalling \/ (caller'[c].id = caller[c].id /\ caller'[c].op = caller[c].op)
    BY <1>2
<1> QED BY <1>2, <1>5, <1>6, <1>7, <1>8, QuietKeeps

LEMMA EndingsKeep ==
    ASSUME PlugIInv, NEW c \in PluginClient,
           \/ load_fails(c) \/ plug_refused(c) \/ grant_tools(c) \/ revoke_tools(c) \/ delete_plugin(c)
           \/ plug_pop(c) \/ write_toggle(c) \/ plug_runs(c) \/ module_for_stream(c)
    PROVE  PlugKept
<1>1. /\ plug \in [Plugin -> PlugRow] /\ loaded \in [Plugin -> Source \cup {None}] /\ contents \in [Plugin -> Source \cup {None}]
      /\ caller \in [PluginClient -> CallerRow] /\ neat \in BOOLEAN /\ pluginFails \in 0..MaxPluginFails
      /\ \A p \in Plugin : plug[p].in => plug[p].text \in Source
      /\ CallerOK(caller[c])
    BY DEF PlugIInv, PlugTypes
<1>2. \A r \in PlugRow, b \in BOOLEAN :
         /\ [r EXCEPT !.active = b] \in PlugRow /\ [r EXCEPT !.active = b].in = r.in /\ [r EXCEPT !.active = b].text = r.text
         /\ [r EXCEPT !.global = b] \in PlugRow /\ [r EXCEPT !.global = b].in = r.in /\ [r EXCEPT !.global = b].text = r.text
         /\ [r EXCEPT !.grants = b] \in PlugRow /\ [r EXCEPT !.grants = b].in = r.in /\ [r EXCEPT !.grants = b].text = r.text
    BY DEF PlugRow
<1>12. \A b \in BOOLEAN : [NoPlugin EXCEPT !.grants = b] \in PlugRow /\ ~[NoPlugin EXCEPT !.grants = b].in
    BY DEF PlugRow, NoPlugin
<1> DEFINE p == caller[c].id
\* The row of the plugin is replaced by one that is of the same text, or is no row.
<1>0. ASSUME p \in Plugin, NEW r \in PlugRow, plug' = [plug EXCEPT ![p] = r], r.in => plug[p].in /\ r.text = plug[p].text
      PROVE  plug' \in [Plugin -> PlugRow] /\ \A q \in Plugin : plug'[q].in => plug[q].in /\ plug'[q].text = plug[q].text
    BY <1>0, <1>1
<1>3. CASE load_fails(c)
  <2>1. p \in Plugin /\ caller[c].at = "load" /\ PlugGoes(c, "idle")
        /\ plug' = [plug EXCEPT ![p].active = plug[p].active /\ p \in Toolkit]
        /\ loaded' = loaded /\ contents' = contents /\ neat' = neat /\ pluginCalls' = pluginCalls /\ pluginFails' = pluginFails
      BY <1>1, <1>3 DEF load_fails, PlugSame, CallerOK
  <2>2. PICK b \in BOOLEAN : b = (plug[p].active /\ p \in Toolkit)
      OBVIOUS
  <2>3. plug' = [plug EXCEPT ![p] = [plug[p] EXCEPT !.active = b]]
      BY <2>1, <2>2
  <2>4. plug' \in [Plugin -> PlugRow] /\ \A q \in Plugin : plug'[q].in => plug[q].in /\ plug'[q].text = plug[q].text
    <3>1. plug[p] \in PlugRow /\ p \in Plugin
        BY <2>1, <1>1
    <3> HIDE DEF p
    <3>2. PICK r \in PlugRow : r = [plug[p] EXCEPT !.active = b] /\ r.in = plug[p].in /\ r.text = plug[p].text
        BY <3>1, <1>2
    <3>3. plug' = [plug EXCEPT ![p] = r]
        BY <3>2, <2>3
    <3> QED BY <3>1, <3>2, <3>3, <1>0
  <2> QED BY <2>1, <2>4, <1>1, GoesQuietly
<1>4. CASE plug_refused(c)
  <2>1. caller[c].at \in {"save", "grant", "revoke", "drop", "toggle"} /\ PlugGoes(c, "idle")
        /\ plug' = plug /\ loaded' = loaded /\ contents' = contents /\ pluginCalls' = pluginCalls
        /\ pluginFails < MaxPluginFails /\ pluginFails' = pluginFails + 1
        /\ neat' = (neat /\ ~(caller[c].at = "save" /\ caller[c].op \in {"create", "update"}))
      BY <1>4 DEF plug_refused
  <2>2. pluginFails' \in 0..MaxPluginFails /\ neat' \in BOOLEAN
      BY <2>1, <1>1, PluginAssumption
  <2> QED BY <2>1, <2>2, <1>1, GoesQuietly
<1>5. CASE grant_tools(c)
  <2>1. p \in Plugin /\ caller[c].at = "grant" /\ PlugGoes(c, "idle") /\ plug' = [plug EXCEPT ![p].grants = TRUE]
        /\ loaded' = loaded /\ contents' = contents /\ neat' = neat /\ pluginCalls' = pluginCalls /\ pluginFails' = pluginFails
      BY <1>1, <1>5 DEF grant_tools, PlugSame, CallerOK
  <2>2. plug' \in [Plugin -> PlugRow] /\ \A q \in Plugin : plug'[q].in => plug[q].in /\ plug'[q].text = plug[q].text
    <3>1. plug[p] \in PlugRow /\ p \in Plugin
        BY <2>1, <1>1
    <3> HIDE DEF p
    <3>2. PICK r \in PlugRow : r = [plug[p] EXCEPT !.grants = TRUE] /\ r.in = plug[p].in /\ r.text = plug[p].text
        BY <3>1, <1>2
    <3>3. plug' = [plug EXCEPT ![p] = r]
        BY <3>2, <2>1
    <3> QED BY <3>1, <3>2, <3>3, <1>0
  <2> QED BY <2>1, <2>2, <1>1, GoesQuietly
<1>6. CASE revoke_tools(c)
  <2>1. p \in Plugin /\ caller[c].at = "revoke" /\ PlugGoes(c, "drop") /\ plug' = [plug EXCEPT ![p].grants = FALSE]
        /\ loaded' = loaded /\ contents' = contents /\ neat' = neat /\ pluginCalls' = pluginCalls /\ pluginFails' = pluginFails
      BY <1>1, <1>6 DEF revoke_tools, PlugSame, CallerOK
  <2>2. plug' \in [Plugin -> PlugRow] /\ \A q \in Plugin : plug'[q].in => plug[q].in /\ plug'[q].text = plug[q].text
    <3>1. plug[p] \in PlugRow /\ p \in Plugin
        BY <2>1, <1>1
    <3> HIDE DEF p
    <3>2. PICK r \in PlugRow : r = [plug[p] EXCEPT !.grants = FALSE] /\ r.in = plug[p].in /\ r.text = plug[p].text
        BY <3>1, <1>2
    <3>3. plug' = [plug EXCEPT ![p] = r]
        BY <3>2, <2>1
    <3> QED BY <3>1, <3>2, <3>3, <1>0
  <2>3. PlugSaving(c) /\ CallerOK(caller'[c])
    <3>1. caller'[c].at = "drop" /\ caller'[c].op = caller[c].op /\ caller'[c].id = caller[c].id
        BY <2>1, <1>1, Goes DEF Places
    <3> QED BY <3>1, <2>1, <1>1 DEF CallerOK, PlugSaving
  <2> QED BY <2>1, <2>2, <2>3, <1>1, GoesQuietly
<1>7. CASE delete_plugin(c)
  <2>1. p \in Plugin /\ caller[c].at = "drop" /\ PlugGoes(c, "pop")
        /\ plug' = [plug EXCEPT ![p] = [NoPlugin EXCEPT !.grants = plug[p].grants]]
        /\ loaded' = loaded /\ contents' = contents /\ neat' = neat /\ pluginCalls' = pluginCalls /\ pluginFails' = pluginFails
      BY <1>1, <1>7 DEF delete_plugin, PlugSame, CallerOK
  <2>2. plug[p].grants \in BOOLEAN
      BY <2>1, <1>1 DEF PlugRow
  <2>3. plug' \in [Plugin -> PlugRow] /\ \A q \in Plugin : plug'[q].in => plug[q].in /\ plug'[q].text = plug[q].text
    <3>1. PICK b \in BOOLEAN : b = plug[p].grants
        BY <2>2
    <3>2. PICK r \in PlugRow : r = [NoPlugin EXCEPT !.grants = b] /\ ~r.in
        BY <1>12
    <3> QED BY <3>1, <3>2, <2>1, <1>0
  <2>4. PlugSaving(c) /\ CallerOK(caller'[c])
    <3>1. caller'[c].at = "pop" /\ caller'[c].op = caller[c].op /\ caller'[c].id = caller[c].id
        BY <2>1, <1>1, Goes DEF Places
    <3> QED BY <3>1, <2>1, <1>1 DEF CallerOK, PlugSaving
  <2> QED BY <2>1, <2>3, <2>4, <1>1, GoesQuietly
<1>8. CASE plug_pop(c)
  <2>1. p \in Plugin /\ caller[c].at = "pop" /\ PlugGoes(c, "idle") /\ loaded' = [loaded EXCEPT ![p] = None]
        /\ plug' = plug /\ contents' = contents /\ neat' = neat /\ pluginCalls' = pluginCalls /\ pluginFails' = pluginFails
      BY <1>1, <1>8 DEF plug_pop, PlugSame, CallerOK
  <2> QED BY <2>1, <1>1, GoesQuietly
<1>9. CASE write_toggle(c)
  <2>1. caller[c].at = "toggle" /\ PlugGoes(c, "idle") /\ caller[c].text \in BOOLEAN
        /\ loaded' = loaded /\ contents' = contents /\ neat' = neat /\ pluginCalls' = pluginCalls /\ pluginFails' = pluginFails
      BY <1>1, <1>9 DEF write_toggle, PlugSame, CallerOK
  <2>2. PICK b \in BOOLEAN : b = caller[c].text
      BY <2>1
  <2>3. plug' = [q \in Plugin |->
                   IF ~plug[q].in \/ (caller[c].op # "off" /\ q # caller[c].id) \/ q \in Toolkit THEN plug[q]
                   ELSE IF caller[c].op = "global" THEN [plug[q] EXCEPT !.global = b]
                   ELSE [plug[q] EXCEPT !.active = b]]
      BY <1>9, <2>2 DEF write_toggle
  <2>4. plug' \in [Plugin -> PlugRow] /\ \A q \in Plugin : plug'[q].in => plug[q].in /\ plug'[q].text = plug[q].text
      BY <2>3, <1>1, <1>2
  <2> QED BY <2>1, <2>4, <1>1, GoesQuietly
<1>10. CASE plug_runs(c)
  <2>1. caller[c].at = "run" /\ (PlugGoes(c, "idle") \/ PlugGoes(c, "reload")) /\ p \in Plugin /\ caller[c].op \in {"use", "filter"}
        /\ plug' = plug /\ loaded' = loaded /\ contents' = contents /\ neat' = neat /\ pluginCalls' = pluginCalls /\ pluginFails' = pluginFails
      BY <1>1, <1>10 DEF plug_runs, PlugSame, CallerOK
  <2>2. CASE PlugGoes(c, "idle")
      BY <2>1, <2>2, <1>1, GoesQuietly
  <2>3. CASE PlugGoes(c, "reload")
    <3>1. caller'[c].at = "reload" /\ caller'[c].op = caller[c].op /\ caller'[c].id = caller[c].id
        BY <2>3, <1>1, Goes DEF Places
    <3>2. CallerOK(caller'[c])
        BY <3>1, <2>1 DEF CallerOK
    <3> QED BY <2>1, <2>3, <3>2, <1>1, GoesQuietly
  <2> QED BY <2>1, <2>2, <2>3
<1>11. CASE module_for_stream(c)
  <2>1. p \in Plugin /\ caller[c].at = "reload" /\ PlugGoes(c, "idle")
        /\ neat' = neat /\ pluginCalls' = pluginCalls /\ pluginFails' = pluginFails
      BY <1>1, <1>11 DEF module_for_stream, PlugSame, CallerOK
  <2>2. CASE ~plug[p].in
    <3>1. plug' = plug /\ loaded' = loaded /\ contents' = contents
        BY <1>11, <2>2 DEF module_for_stream
    <3> QED BY <3>1, <2>1, <1>1, GoesQuietly
  <2>3. CASE plug[p].in /\ plug[p].text = "broken"
      BY <2>3, <2>1, <1>1, PluginAssumption
  <2>4. CASE plug[p].in /\ plug[p].text # "broken"
    <3>1. plug' = plug /\ loaded' = [loaded EXCEPT ![p] = plug[p].text] /\ contents' = [contents EXCEPT ![p] = None]
        BY <1>11, <2>4 DEF module_for_stream
    <3>2. loaded' \in [Plugin -> Source \cup {None}] /\ contents' \in [Plugin -> Source \cup {None}] /\ contents'[p] = None
          /\ \A q \in Plugin : q # p => loaded'[q] = loaded[q] /\ contents'[q] = contents[q]
        BY <3>1, <2>1, <2>4, <1>1
    <3> HIDE DEF p
    <3>3. \A q \in Plugin : \/ loaded'[q] = loaded[q] /\ contents'[q] = contents[q]
                            \/ None \in {loaded'[q], contents'[q]} \/ loaded'[q] = contents'[q]
        BY <3>2
    <3> QED BY <3>1, <3>2, <3>3, <2>1, <1>1, GoesQuietly
  <2> QED BY <2>2, <2>3, <2>4
<1> QED BY <1>3, <1>4, <1>5, <1>6, <1>7, <1>8, <1>9, <1>10, <1>11

\* What a call reads and compares.
LEMMA ReadingsKeep ==
    ASSUME PlugIInv, NEW c \in PluginClient, plug_read(c) \/ module_from_cache(c)
    PROVE  PlugKept
<1> DEFINE p == caller[c].id
<1>1. /\ PlugTypes /\ caller \in [PluginClient -> CallerRow] /\ CallerOK(caller[c]) /\ caller[c] \in CallerRow
      /\ plug \in [Plugin -> PlugRow] /\ loaded \in [Plugin -> Source \cup {None}] /\ contents \in [Plugin -> Source \cup {None}]
      /\ neat \in BOOLEAN /\ pluginFails \in 0..MaxPluginFails /\ \A q \in Plugin : plug[q].in => plug[q].text \in Source
    BY DEF PlugIInv, PlugTypes
<1>2. /\ plug' = plug /\ loaded' = loaded /\ contents' = contents /\ neat' = neat
      /\ pluginCalls' = pluginCalls /\ pluginFails' = pluginFails /\ p \in Plugin /\ caller[c].op \in {"use", "filter"}
      /\ caller[c].at \in {"read", "compare"}
    BY <1>1 DEF plug_read, module_from_cache, PlugSame, CallerOK
<1>3. ASSUME NEW r \in CallerRow, caller' = [caller EXCEPT ![c] = r], CallerOK(r),
             r = NotCalling \/ (r.id = caller[c].id /\ r.op = caller[c].op /\ r.at \in {"load", "compare", "run"}),
             r.at = "load" => r.text = caller[c].text /\ caller[c].at = "compare",
             r.at = "compare" => r.text = plug[p].text /\ plug[p].in /\ caller[c].at = "read"
      PROVE  PlugKept
  <2>1. CallerSame(c) /\ caller'[c] = r
      BY <1>3, <1>1 DEF CallerSame
  <2>2. PlugTypes'
      BY <2>1, <1>3, <1>1, <1>2, PlugTypesKept
  <2>3. caller'[c].at # "save" /\ ~PlugSaving(c)'
      BY <2>1, <1>2, <1>3, NotCallingFacts DEF PlugSaving
  <2>4. caller'[c].at = "load" => caller'[c].text \in meanwhile[c]
      BY <2>1, <1>2, <1>3 DEF PlugIInv, SeenInv, Using
  <2>5. caller'[c].at = "compare" => caller'[c].text = plug[caller[c].id].text /\ plug[caller[c].id].in /\ caller'[c].text # None
                                     /\ caller[c].at = "read"
      BY <2>1, <1>1, <1>2, <1>3, PluginAssumption
  <2> QED BY <2>1, <2>2, <2>3, <2>4, <2>5, <1>2, <1>3, QuietKeeps
<1>4. CASE plug_read(c)
  <2>1. CASE ~plug[p].in
    <3>1. caller' = [caller EXCEPT ![c] = NotCalling]
        BY <1>4, <2>1 DEF plug_read
    <3> QED BY <3>1, <1>3, NotCallingFacts
  <2>2. CASE plug[p].in
    <3> DEFINE r == [caller[c] EXCEPT !.text = plug[p].text, !.at = "compare"]
    <3>1. caller' = [caller EXCEPT ![c] = r] /\ caller[c].at = "read" /\ plug[p].text \in Source
        BY <1>4, <2>2, <1>1, <1>2 DEF plug_read
    <3>2. r \in CallerRow
        BY <3>1, <1>1 DEF CallerRow, CallerText, PlugText, Places
    <3>3. r.at = "compare" /\ r.text = plug[p].text /\ r.id = caller[c].id /\ r.op = caller[c].op
        BY <1>1 DEF CallerRow
    <3> HIDE DEF r
    <3>4. CallerOK(r)
        BY <3>1, <3>3, <1>2 DEF CallerOK
    <3> QED BY <3>1, <3>2, <3>3, <3>4, <2>2, <1>3
  <2> QED BY <2>1, <2>2
<1>5. CASE module_from_cache(c)
  <2>0. caller[c].at = "compare"
      BY <1>5 DEF module_from_cache
  <2>1. CASE UpToDate(p, caller[c].text)
    <3> DEFINE r == [caller[c] EXCEPT !.at = "run", !.shown = loaded[p]]
    <3>1. caller' = [caller EXCEPT ![c] = r]
        BY <1>5, <2>1 DEF module_from_cache
    <3>2. r \in CallerRow
        BY <1>1, <1>2 DEF CallerRow, Places
    <3>3. r.at = "run" /\ r.text = caller[c].text /\ r.id = caller[c].id /\ r.op = caller[c].op
        BY <1>1 DEF CallerRow
    <3> HIDE DEF r
    <3>4. CallerOK(r)
        BY <3>3, <1>1, <1>2 DEF CallerOK
    <3> QED BY <3>1, <3>2, <3>3, <3>4, <1>3
  <2>2. CASE ~UpToDate(p, caller[c].text)
    <3> DEFINE r == [caller[c] EXCEPT !.at = "load"]
    <3>1. caller' = [caller EXCEPT ![c] = r]
        BY <1>5, <2>2 DEF module_from_cache
    <3>2. r \in CallerRow
        BY <1>1, <1>2 DEF CallerRow, Places
    <3>3. r.at = "load" /\ r.text = caller[c].text /\ r.id = caller[c].id /\ r.op = caller[c].op
        BY <1>1 DEF CallerRow
    <3> HIDE DEF r
    <3>4. CallerOK(r)
        BY <2>0, <3>3, <1>1, <1>2 DEF CallerOK, PlugText
    <3> QED BY <3>1, <3>2, <3>3, <3>4, <2>0, <1>3
  <2> QED BY <2>1, <2>2
<1> QED BY <1>4, <1>5

\* A call takes the module it has made.
LEMMA CallLoadsKeep ==
    ASSUME PlugIInv, NEW c \in PluginClient, load_module(c), caller[c].op \in {"use", "filter"}
    PROVE  PlugKept
<1> DEFINE p == caller[c].id
<1> DEFINE t == caller[c].text
<1> DEFINE r == [caller[c] EXCEPT !.at = "run", !.shown = t]
<1>1. /\ PlugTypes /\ caller \in [PluginClient -> CallerRow] /\ CallerOK(caller[c]) /\ caller[c] \in CallerRow
      /\ loaded \in [Plugin -> Source \cup {None}] /\ contents \in [Plugin -> Source \cup {None}]
      /\ plug \in [Plugin -> PlugRow] /\ neat \in BOOLEAN /\ pluginFails \in 0..MaxPluginFails
      /\ \A q \in Plugin : plug[q].in => plug[q].text \in Source
    BY DEF PlugIInv, PlugTypes
<1>2. /\ caller[c].at = "load" /\ p \in Plugin /\ t \in Source
      /\ caller' = [caller EXCEPT ![c].at = "run", ![c].shown = t]
      /\ loaded' = [loaded EXCEPT ![p] = t] /\ contents' = [contents EXCEPT ![p] = t]
      /\ plug' = plug /\ neat' = neat /\ pluginCalls' = pluginCalls /\ pluginFails' = pluginFails
    BY <1>1 DEF load_module, PlugSame, CallerOK, PlugText
<1>3. r \in CallerRow
    BY <1>1, <1>2 DEF CallerRow, Places
<1>4. r.at = "run" /\ r.text = t /\ r.id = p /\ r.op = caller[c].op
    BY <1>1 DEF CallerRow
<1>5. caller' = [caller EXCEPT ![c] = r]
    BY <1>2
<1>6. loaded' \in [Plugin -> Source \cup {None}] /\ contents' \in [Plugin -> Source \cup {None}]
      /\ \A q \in Plugin : (loaded'[q] = loaded[q] /\ contents'[q] = contents[q]) \/ loaded'[q] = contents'[q]
    BY <1>1, <1>2
<1> HIDE DEF r
<1>7. CallerOK(r)
    BY <1>1, <1>2, <1>4 DEF CallerOK
<1>8. CallerSame(c) /\ caller'[c] = r
    BY <1>1, <1>3, <1>5 DEF CallerSame
<1>9. PlugTypes'
    BY <1>1, <1>2, <1>6, <1>7, <1>8, PlugTypesKept
<1>10. ~PlugSaving(c)'
    BY <1>4, <1>8 DEF PlugSaving
<1> QED BY <1>2, <1>4, <1>6, <1>8, <1>9, <1>10, QuietKeeps

\* A save puts the module it has made in the cache.
LEMMA SaveLoadsKeep ==
    ASSUME PlugIInv, NEW c \in PluginClient, load_module(c), caller[c].op \notin {"use", "filter"}
    PROVE  PlugKept
<1> DEFINE p == caller[c].id
<1> DEFINE t == caller[c].text
<1> DEFINE r == [caller[c] EXCEPT !.at = "save", !.shown = None]
<1>1. /\ PlugTypes /\ caller \in [PluginClient -> CallerRow] /\ CallerOK(caller[c]) /\ caller[c] \in CallerRow
      /\ loaded \in [Plugin -> Source \cup {None}] /\ contents \in [Plugin -> Source \cup {None}]
      /\ plug \in [Plugin -> PlugRow] /\ neat \in BOOLEAN /\ pluginFails \in 0..MaxPluginFails
      /\ \A q \in Plugin : plug[q].in => plug[q].text \in Source
    BY DEF PlugIInv, PlugTypes
<1>2. /\ caller[c].at = "load" /\ p \in Plugin /\ t \in Source /\ caller[c].op \in {"create", "update", "sync"}
      /\ caller' = [caller EXCEPT ![c].at = "save", ![c].shown = None]
      /\ loaded' = IF caller[c].op = "sync" THEN loaded ELSE [loaded EXCEPT ![p] = t]
      /\ contents' = contents /\ plug' = plug /\ neat' = neat /\ pluginCalls' = pluginCalls /\ pluginFails' = pluginFails
    BY <1>1 DEF load_module, PlugSame, CallerOK, PlugText
<1>3. r \in CallerRow
    BY <1>1, <1>2 DEF CallerRow, Places
<1>4. r.at = "save" /\ r.text = t /\ r.id = p /\ r.op = caller[c].op
    BY <1>1 DEF CallerRow
<1>5. caller' = [caller EXCEPT ![c] = r]
    BY <1>2
<1>6. loaded' \in [Plugin -> Source \cup {None}] /\ \A q \in Plugin : q # p => loaded'[q] = loaded[q]
    BY <1>1, <1>2
<1>61. caller[c].op # "sync" => loaded'[p] = t
    BY <1>1, <1>2
<1> HIDE DEF r
<1>7. CallerOK(r)
    BY <1>1, <1>2, <1>4 DEF CallerOK
<1>8. CallerSame(c) /\ caller'[c] = r /\ \A d \in PluginClient : d # c => caller'[d] = caller[d]
    BY <1>1, <1>3, <1>5 DEF CallerSame
<1>9. PlugTypes'
    BY <1>1, <1>2, <1>6, <1>7, <1>8, PlugTypesKept
<1>10. \A d \in PluginClient : PlugSaving(d)' => PlugSaving(d) /\ caller'[d].id = caller[d].id /\ caller'[d].op = caller[d].op
    BY <1>2, <1>4, <1>8 DEF PlugSaving
<1>11. PlugSaving(c)
    BY <1>2 DEF PlugSaving
<1>12. SaverInv'
  <2> SUFFICES ASSUME neat' PROVE SaverInv'
      BY DEF SaverInv
  <2>1. SaverInv /\ neat
      BY <1>2 DEF PlugIInv
  <2>2. \A d, e \in PluginClient : PlugSaving(d)' /\ PlugSaving(e)' /\ d # e =>
              caller'[d].id # caller'[e].id /\ "sync" \notin {caller'[d].op, caller'[e].op}
      BY <1>10, <2>1 DEF SaverInv
  <2>3. \A d \in PluginClient : caller'[d].op = "create" /\ caller'[d].at \in {"load", "save"} => ~plug'[caller'[d].id].in
    <3>1. \A d \in PluginClient : caller[d].op = "create" /\ caller[d].at \in {"load", "save"} => ~plug[caller[d].id].in
        BY <2>1 DEF SaverInv
    <3>2. caller[c].op = "create" => ~plug[p].in
        BY <3>1, <1>2
    <3>3. ASSUME NEW d \in PluginClient, caller'[d].op = "create", caller'[d].at \in {"load", "save"}, d # c
          PROVE  ~plug[caller'[d].id].in
        BY <3>1, <3>3, <1>8
    <3>4. caller'[c].op = "create" => ~plug[caller'[c].id].in
        BY <3>2, <1>4, <1>8
    <3> QED BY <3>3, <3>4, <1>2
  <2>4. \A d \in PluginClient : caller'[d].op = "sync" => \A q \in Function : ~Differ(q)'
    <3> SUFFICES ASSUME NEW d \in PluginClient, caller'[d].op = "sync" PROVE \A q \in Function : ~Differ(q)'
        OBVIOUS
    <3>1. caller[d].op = "sync"
        BY <1>4, <1>8
    <3>2. PlugSaving(d)
        BY <3>1, <1>1 DEF PlugTypes, CallerOK, PlugSaving
    <3>3. d = c
        BY <3>1, <3>2, <1>11, <2>1 DEF SaverInv
    <3> QED BY <3>1, <3>3, <1>2, <2>1 DEF SaverInv, Differ
  <2>5. ASSUME NEW d \in PluginClient, NEW q \in Plugin, Cached(d, q)', Differ(q)' PROVE loaded'[q] = caller'[d].text
    <3>1. CASE d = c
        BY <3>1, <2>5, <1>4, <1>61, <1>8 DEF Cached
    <3>2. CASE d # c
      <4>1. caller'[d] = caller[d] /\ Cached(d, q) /\ PlugSaving(d) /\ caller[d].id = q
          BY <3>2, <2>5, <1>8 DEF Cached, PlugSaving
      <4>2. q # p
          BY <3>2, <4>1, <1>11, <2>1 DEF SaverInv
      <4> QED BY <4>1, <4>2, <2>1, <2>5, <1>2, <1>6 DEF SaverInv, Differ
    <3> QED BY <3>1, <3>2
  <2> QED BY <2>2, <2>3, <2>4, <2>5 DEF SaverInv
<1>13. PairInv'
  <2> SUFFICES ASSUME neat', NEW q \in Plugin, plug'[q].in, Differ(q)'
               PROVE  plug'[q].text = loaded'[q] \/ \E d \in PluginClient : Cached(d, q)' /\ caller'[d].text = loaded'[q]
      BY DEF PairInv
  <2>1. CASE q = p /\ caller[c].op # "sync"
    <3>1. Cached(c, q)' /\ caller'[c].text = loaded'[q]
        BY <2>1, <1>2, <1>4, <1>61, <1>8 DEF Cached
    <3> QED BY <3>1
  <2>2. CASE ~(q = p /\ caller[c].op # "sync")
    <3>0. loaded'[q] = loaded[q] /\ contents'[q] = contents[q] /\ plug'[q] = plug[q]
        BY <2>2, <1>2, <1>6
    <3>1. plug[q].text = loaded[q] \/ \E d \in PluginClient : Cached(d, q) /\ caller[d].text = loaded[q]
        BY <3>0, <1>2 DEF PairInv, PlugIInv, Differ
    <3>2. ASSUME NEW d \in PluginClient, Cached(d, q) PROVE Cached(d, q)' /\ caller'[d] = caller[d]
        BY <3>2, <1>2, <1>8 DEF Cached
    <3> QED BY <3>0, <3>1, <3>2
  <2> QED BY <2>1, <2>2
<1>14. SeenNext
  <2>1. ASSUME NEW d \in PluginClient, Using(d)', caller'[d].at \in {"compare", "load"}
        PROVE  caller'[d].text \in meanwhile[d] \cup Current'[caller'[d].id]
      BY <1>4, <1>8, <2>1 DEF Using, SeenInv, PlugIInv
  <2>2. ASSUME neat', NEW d \in PluginClient, caller'[d].at = "compare", contents'[caller'[d].id] = caller'[d].text,
               loaded'[caller'[d].id] # None
        PROVE  loaded'[caller'[d].id] \in meanwhile[d] \cup Current'[caller'[d].id]
    <3>1. caller'[d] = caller[d] /\ d # c
        BY <1>4, <1>8, <2>2
    <3>2. CASE caller[d].id = p /\ caller[c].op # "sync"
      <4>1. caller'[c].id = p /\ caller'[c].op \in {"create", "update"} /\ caller'[c].text = t
          BY <3>2, <1>2, <1>4, <1>8
      <4>0. PICK q \in Plugin : q = p
          BY <1>2
      <4>2. t \in PlugPending(q)'
          BY <4>0, <4>1 DEF PlugPending
      <4>3. t \in Current'[q]
          BY <4>2 DEF Current
      <4> QED BY <4>0, <4>3, <3>1, <3>2, <1>61
    <3>3. CASE ~(caller[d].id = p /\ caller[c].op # "sync")
      <4>1. caller[d].id \in Plugin
          BY <3>1, <2>2, <1>1 DEF PlugTypes, CallerOK
      <4>2. loaded'[caller[d].id] = loaded[caller[d].id] /\ contents'[caller[d].id] = contents[caller[d].id]
          BY <4>1, <3>3, <1>2, <1>6
      <4> QED BY <4>2, <3>1, <2>2, <1>2 DEF SeenInv, PlugIInv, UpToDate
    <3> QED BY <3>2, <3>3
  <2> QED BY <2>1, <2>2 DEF SeenNext
<1> QED BY <1>9, <1>12, <1>13, <1>14 DEF PlugKept

\* A save writes its row.
LEMMA SaveRowKeeps ==
    ASSUME PlugIInv, NEW c \in PluginClient, save_row(c)
    PROVE  PlugKept
<1> DEFINE p == caller[c].id
<1> DEFINE t == caller[c].text
<1> DEFINE taken == caller[c].op = "create" /\ plug[p].in
<1>1. /\ PlugTypes /\ caller \in [PluginClient -> CallerRow] /\ CallerOK(caller[c])
      /\ loaded \in [Plugin -> Source \cup {None}] /\ contents \in [Plugin -> Source \cup {None}]
      /\ plug \in [Plugin -> PlugRow] /\ neat \in BOOLEAN /\ pluginFails \in 0..MaxPluginFails
      /\ \A q \in Plugin : plug[q].in => plug[q].text \in Source
    BY DEF PlugIInv, PlugTypes
<1>2. /\ caller[c].at = "save" /\ p \in Plugin /\ t \in Source \cup {None} /\ caller[c].op \in {"create", "update", "sync"}
      /\ caller[c].op # "sync" => t \in Source
      /\ loaded' = loaded /\ contents' = contents /\ neat' = neat /\ pluginCalls' = pluginCalls /\ pluginFails' = pluginFails
      /\ PlugGoes(c, IF p \in Toolkit /\ ~taken THEN "grant" ELSE "idle")
      /\ plug' = IF taken THEN plug
                 ELSE IF caller[c].op = "create" THEN insert_new_plugin(plug, p, t)
                 ELSE IF caller[c].op = "update" THEN update_content(plug, p, t) ELSE sync_rows(plug, p, t)
    BY <1>1 DEF save_row, PlugSame, CallerOK
<1>3. \A r \in PlugRow, x \in Source :
         /\ [r EXCEPT !.text = x] \in PlugRow /\ [r EXCEPT !.text = x].in = r.in /\ [r EXCEPT !.text = x].text = x
    BY DEF PlugRow
<1>4. \A x \in Source : [NoPlugin EXCEPT !.in = TRUE, !.text = x] \in PlugRow /\ [NoPlugin EXCEPT !.in = TRUE, !.text = x].text = x
    BY DEF PlugRow, NoPlugin
<1>5. NoPlugin \in PlugRow /\ ~NoPlugin.in
    BY DEF PlugRow, NoPlugin
\* Other rows stay but those of the functions that a form replaces.
<1>6. /\ plug' \in [Plugin -> PlugRow] /\ \A q \in Plugin : plug'[q].in => plug'[q].text \in Source
      /\ caller[c].op # "sync" => (\A q \in Plugin : q # p => plug'[q] = plug[q]) /\ (~taken /\ plug'[p].in => plug'[p].text = t)
      /\ caller[c].op = "sync" => \A q \in Toolkit : plug'[q] = plug[q]
  <2>1. CASE taken
      BY <2>1, <1>1, <1>2
  <2>2. CASE ~taken /\ caller[c].op = "create"
    <3>1. PICK r \in PlugRow : r = [NoPlugin EXCEPT !.in = TRUE, !.text = t] /\ r.text = t
        BY <2>2, <1>2, <1>4
    <3>2. plug' = [plug EXCEPT ![p] = r]
        BY <2>2, <3>1, <1>2 DEF insert_new_plugin
    <3> QED BY <2>2, <3>1, <3>2, <1>1, <1>2
  <2>3. CASE caller[c].op = "update" /\ plug[p].in
    <3>0. plug[p] \in PlugRow /\ t \in Source
        BY <2>3, <1>1, <1>2
    <3>1. PICK r \in PlugRow : r = [plug[p] EXCEPT !.text = t] /\ r.text = t
        BY <3>0, <1>3
    <3>2. plug' = [plug EXCEPT ![p] = r]
        BY <2>3, <3>1, <1>2 DEF update_content
    <3> QED BY <2>3, <3>1, <3>2, <1>1, <1>2
  <2>4. CASE caller[c].op = "update" /\ ~plug[p].in
    <3>1. plug' = plug
        BY <2>4, <1>2 DEF update_content
    <3> QED BY <2>4, <3>1, <1>1, <1>2
  <2>5. CASE caller[c].op = "sync"
    <3>1. plug' = [q \in Plugin |-> IF q \in Toolkit THEN plug[q]
                      ELSE IF q # p \/ t = None THEN NoPlugin
                      ELSE IF plug[q].in THEN [plug[q] EXCEPT !.text = t] ELSE [NoPlugin EXCEPT !.in = TRUE, !.text = t]]
        BY <2>5, <1>2 DEF sync_rows
    <3>2. ASSUME NEW q \in Plugin PROVE plug'[q] \in PlugRow /\ (plug'[q].in => plug'[q].text \in Source)
      <4>0. plug[q] \in PlugRow /\ (plug[q].in => plug[q].text \in Source)
          BY <1>1
      <4>1. CASE q \in Toolkit
          BY <4>0, <4>1, <3>1
      <4>2. CASE q \notin Toolkit /\ (q # p \/ t = None)
          BY <4>2, <3>1, <1>5
      <4>3. CASE q \notin Toolkit /\ ~(q # p \/ t = None) /\ plug[q].in
        <5>1. plug'[q] = [plug[q] EXCEPT !.text = t] /\ t \in Source
            BY <4>3, <3>1, <1>2
        <5> QED BY <5>1, <4>0, <1>3
      <4>4. CASE q \notin Toolkit /\ ~(q # p \/ t = None) /\ ~plug[q].in
        <5>1. plug'[q] = [NoPlugin EXCEPT !.in = TRUE, !.text = t] /\ t \in Source
            BY <4>4, <3>1, <1>2
        <5> QED BY <5>1, <1>4
      <4> QED BY <4>1, <4>2, <4>3, <4>4
    <3>3. \A q \in Toolkit : plug'[q] = plug[q]
        BY <3>1 DEF Plugin
    <3>4. plug' \in [Plugin -> PlugRow]
        BY <3>1, <3>2
    <3> QED BY <2>5, <3>2, <3>3, <3>4
  <2> QED BY <2>1, <2>2, <2>3, <2>4, <2>5, <1>2
<1>7. /\ CallerSame(c)
      /\ \/ caller'[c] = NotCalling
         \/ caller'[c].at = "grant" /\ caller'[c].op = caller[c].op /\ caller'[c].id = p /\ caller'[c].text = t /\ p \in Toolkit
  <2>1. PICK at \in {"idle", "grant"} : at = IF p \in Toolkit /\ ~taken THEN "grant" ELSE "idle"
      OBVIOUS
  <2> QED BY <2>1, <1>1, <1>2, Goes DEF Places
<1>8. CallerOK(caller'[c]) /\ caller'[c].at \in {"idle", "grant"}
  <2>1. CASE caller'[c] = NotCalling
      BY <2>1, NotCallingFacts
  <2>2. CASE caller'[c].at = "grant" /\ caller'[c].op = caller[c].op /\ caller'[c].id = p /\ caller'[c].text = t /\ p \in Toolkit
    <3>1. caller[c].op # "sync"
        BY <2>2, <1>1, PluginAssumption DEF CallerOK
    <3>2. t \in Source
        BY <3>1, <1>2
    <3> QED BY <2>2, <3>1, <3>2, <1>2 DEF CallerOK, PlugText
  <2> QED BY <2>1, <2>2, <1>7
<1>9. \A d \in PluginClient : d # c => caller'[d] = caller[d]
    BY <1>7 DEF CallerSame
<1>10. PlugTypes'
    BY <1>1, <1>2, <1>6, <1>7, <1>8, PlugTypesKept
<1>11. PlugSaving(c)
    BY <1>2 DEF PlugSaving
<1>12. \A d \in PluginClient : PlugSaving(d)' => PlugSaving(d) /\ caller'[d].id = caller[d].id /\ caller'[d].op = caller[d].op
  <2>1. PlugSaving(c)' => caller'[c] # NotCalling
      BY NotCallingFacts DEF PlugSaving
  <2> QED BY <2>1, <1>7, <1>9, <1>11 DEF PlugSaving
<1>13. SaverInv'
  <2> SUFFICES ASSUME neat' PROVE SaverInv'
      BY DEF SaverInv
  <2>1. SaverInv /\ neat
      BY <1>2 DEF PlugIInv
  <2>2. \A d, e \in PluginClient : PlugSaving(d)' /\ PlugSaving(e)' /\ d # e =>
              caller'[d].id # caller'[e].id /\ "sync" \notin {caller'[d].op, caller'[e].op}
      BY <1>12, <2>1 DEF SaverInv
  <2>3. ASSUME NEW d \in PluginClient, caller'[d].op = "create", caller'[d].at \in {"load", "save"} PROVE ~plug'[caller'[d].id].in
    <3>1. d # c /\ caller'[d] = caller[d] /\ PlugSaving(d)
        BY <2>3, <1>8, <1>9 DEF PlugSaving
    <3>2. caller[d].id \in Plugin /\ ~plug[caller[d].id].in
        BY <3>1, <2>1, <2>3, <1>1 DEF SaverInv, PlugTypes, CallerOK
    <3>3. caller[d].id # p /\ caller[c].op # "sync"
        BY <3>1, <2>1, <1>11 DEF SaverInv
    <3> QED BY <3>1, <3>2, <3>3, <1>6
  <2>4. ASSUME NEW d \in PluginClient, caller'[d].op = "sync", NEW q \in Function PROVE ~Differ(q)'
    <3>1. d # c
        BY <2>4, <1>1, <1>2, <1>8, PluginAssumption DEF CallerOK
    <3> QED BY <3>1, <2>1, <2>4, <1>2, <1>9 DEF SaverInv, Differ
  <2>5. ASSUME NEW d \in PluginClient, NEW q \in Plugin, Cached(d, q)', Differ(q)' PROVE loaded'[q] = caller'[d].text
    <3>1. d # c /\ caller'[d] = caller[d] /\ Cached(d, q) /\ Differ(q)
        BY <2>5, <1>2, <1>8, <1>9 DEF Cached, Differ
    <3> QED BY <3>1, <2>1, <1>2 DEF SaverInv
  <2> QED BY <2>2, <2>3, <2>4, <2>5 DEF SaverInv
<1>14. PairInv'
  <2> SUFFICES ASSUME neat', NEW q \in Plugin, plug'[q].in, Differ(q)'
               PROVE  plug'[q].text = loaded'[q] \/ \E d \in PluginClient : Cached(d, q)' /\ caller'[d].text = loaded'[q]
      BY DEF PairInv
  <2>1. SaverInv /\ PairInv /\ neat /\ Differ(q)
      BY <1>2 DEF PlugIInv, Differ
  <2>2. CASE caller[c].op # "sync" /\ q = p
    <3>1. Cached(c, q)
        BY <2>2, <1>2 DEF Cached
    <3>2. loaded[q] = t
        BY <3>1, <2>1 DEF SaverInv
    <3>3. ~taken
        BY <2>1, <1>2 DEF SaverInv
    <3> QED BY <2>2, <3>2, <3>3, <1>2, <1>6
  <2>3. CASE plug'[q] = plug[q] /\ ~Cached(c, q)
    <3>1. plug[q].text = loaded[q] \/ \E d \in PluginClient : Cached(d, q) /\ caller[d].text = loaded[q]
        BY <2>1, <2>3 DEF PairInv
    <3>2. ASSUME NEW d \in PluginClient, Cached(d, q) PROVE Cached(d, q)' /\ caller'[d] = caller[d]
        BY <3>2, <2>3, <1>9 DEF Cached
    <3> QED BY <3>1, <3>2, <2>3, <1>2
  <2>4. CASE caller[c].op # "sync" /\ q # p
      BY <2>3, <2>4, <1>6 DEF Cached
  <2>5. CASE caller[c].op = "sync"
    <3>1. q \notin Function
        BY <2>1, <2>5 DEF SaverInv
    <3>2. plug'[q] = plug[q] /\ ~Cached(c, q)
        BY <3>1, <2>5, <1>6 DEF Cached, Plugin
    <3> QED BY <3>2, <2>3
  <2> QED BY <2>2, <2>4, <2>5
<1>15. SeenNext
  <2>1. ASSUME NEW d \in PluginClient, Using(d)', caller'[d].at \in {"compare", "load"}
        PROVE  caller'[d].text \in meanwhile[d] \cup Current'[caller'[d].id]
      BY <1>8, <1>9, <2>1 DEF Using, SeenInv, PlugIInv
  <2>2. ASSUME neat', NEW d \in PluginClient, caller'[d].at = "compare", contents'[caller'[d].id] = caller'[d].text,
               loaded'[caller'[d].id] # None
        PROVE  loaded'[caller'[d].id] \in meanwhile[d] \cup Current'[caller'[d].id]
      BY <1>2, <1>8, <1>9, <2>2 DEF SeenInv, PlugIInv, UpToDate
  <2> QED BY <2>1, <2>2 DEF SeenNext
<1> QED BY <1>10, <1>13, <1>14, <1>15 DEF PlugKept

LEMMA PlugInitIInv == PluginInit => PlugIInv
<1> SUFFICES ASSUME PluginInit PROVE PlugIInv
    OBVIOUS
<1>1. PICK p \in Plugin, t \in Source :
        plug = [q \in Plugin |-> IF q = p THEN [NoPlugin EXCEPT !.in = TRUE, !.text = t, !.active = TRUE] ELSE NoPlugin]
    BY DEF PluginInit
<1>2. /\ loaded = [q \in Plugin |-> None] /\ contents = [q \in Plugin |-> None]
      /\ caller = [c \in PluginClient |-> NotCalling]
      /\ pluginCalls = 0 /\ pluginFails = 0 /\ neat = TRUE
    BY DEF PluginInit
<1>3. NoPlugin \in PlugRow /\ ~NoPlugin.in
    BY DEF PlugRow, NoPlugin
<1>4. PICK r \in PlugRow : r = [NoPlugin EXCEPT !.in = TRUE, !.text = t, !.active = TRUE] /\ r.text = t
  <2> DEFINE n == [NoPlugin EXCEPT !.in = TRUE, !.text = t, !.active = TRUE]
  <2>1. n \in PlugRow
      BY DEF PlugRow, NoPlugin
  <2>2. n.text = t
      BY DEF NoPlugin
  <2> QED BY <2>1, <2>2
<1>5. plug \in [Plugin -> PlugRow] /\ \A q \in Plugin : plug[q].in => plug[q].text \in Source
    BY <1>1, <1>3, <1>4
<1>6. PlugTypes
    BY <1>2, <1>5, NotCallingFacts, PluginAssumption DEF PlugTypes
<1>7. \A c \in PluginClient : caller[c].at = "idle" /\ caller[c].op \notin {"create", "update", "sync"}
    BY <1>2, NotCallingFacts, PluginAssumption
<1>8. SaverInv
    BY <1>7 DEF SaverInv, PlugSaving, Cached
<1>9. PairInv
    BY <1>2 DEF PairInv, Differ
<1>10. SeenInv
    BY <1>7 DEF SeenInv, Using
<1> QED BY <1>6, <1>8, <1>9, <1>10 DEF PlugIInv

LEMMA PlugStepsKeep == ASSUME PlugIInv, PluginSteps PROVE PlugKept
<1>1. PICK c \in PluginClient :
        \/ create_new_tools(c) \/ update_tools_by_id(c) \/ delete_tools_by_id(c) \/ update_tool_access_by_id(c)
        \/ create_new_function(c) \/ update_function_by_id(c) \/ delete_function_by_id(c) \/ sync_functions(c)
        \/ toggle_function_by_id(c) \/ toggle_global_by_id(c) \/ deactivate_all_functions(c)
        \/ get_tools(c) \/ update_tools_valves_by_id(c) \/ update_function_valves_by_id(c)
        \/ generate_function_chat_completion(c) \/ chat_action(c) \/ resolve_filter_pipeline(c) \/ dispatch_event_functions(c)
        \/ load_fails(c) \/ load_module(c) \/ save_row(c) \/ plug_refused(c) \/ grant_tools(c) \/ revoke_tools(c)
        \/ delete_plugin(c) \/ plug_pop(c) \/ write_toggle(c) \/ plug_read(c) \/ module_from_cache(c) \/ plug_runs(c) \/ module_for_stream(c)
    BY DEF PluginSteps
<1>2. CASE \/ load_fails(c) \/ plug_refused(c) \/ grant_tools(c) \/ revoke_tools(c) \/ delete_plugin(c)
           \/ plug_pop(c) \/ write_toggle(c) \/ plug_runs(c) \/ module_for_stream(c)
    BY <1>2, EndingsKeep
<1>3. CASE plug_read(c) \/ module_from_cache(c)
    BY <1>3, ReadingsKeep
<1>4. CASE load_module(c)
    BY <1>4, CallLoadsKeep, SaveLoadsKeep
<1>5. CASE save_row(c)
    BY <1>5, SaveRowKeeps
<1>6. CASE \/ create_new_tools(c) \/ update_tools_by_id(c) \/ delete_tools_by_id(c) \/ update_tool_access_by_id(c)
           \/ create_new_function(c) \/ update_function_by_id(c) \/ delete_function_by_id(c) \/ sync_functions(c)
           \/ toggle_function_by_id(c) \/ toggle_global_by_id(c) \/ deactivate_all_functions(c)
           \/ get_tools(c) \/ update_tools_valves_by_id(c) \/ update_function_valves_by_id(c)
           \/ generate_function_chat_completion(c) \/ chat_action(c) \/ resolve_filter_pipeline(c) \/ dispatch_event_functions(c)
    BY <1>6, AsksKeep
<1> QED BY <1>1, <1>2, <1>3, <1>4, <1>5, <1>6

LEMMA PlugNextIInv == PlugIInv /\ [PluginNext]_pluginVars => PlugIInv'
<1>1. ASSUME PlugIInv, PluginNext PROVE PlugIInv'
  <2>1. PlugKept
      BY <1>1, PlugStepsKeep DEF PluginNext
  <2>2. meanwhile' = [c \in PluginClient |-> IF Using(c)' THEN meanwhile[c] \cup Current'[caller'[c].id] ELSE {}]
      BY <1>1 DEF PluginNext
  <2>3. ASSUME NEW c \in PluginClient, Using(c)' PROVE meanwhile'[c] = meanwhile[c] \cup Current'[caller'[c].id]
      BY <2>2, <2>3
  <2>4. \A c \in PluginClient : caller'[c].at = "compare" => Using(c)'
      BY <2>1 DEF PlugKept, PlugTypes, CallerOK, Using
  <2>5. SeenInv'
    <3>1. ASSUME NEW c \in PluginClient, Using(c)'
          PROVE  /\ Current'[caller'[c].id] \subseteq meanwhile'[c]
                 /\ caller'[c].at \in {"compare", "load"} => caller'[c].text \in meanwhile'[c]
        BY <2>1, <2>3, <3>1 DEF PlugKept, SeenNext
    <3>2. ASSUME neat', NEW c \in PluginClient, caller'[c].at = "compare", contents'[caller'[c].id] = caller'[c].text,
                 loaded'[caller'[c].id] # None
          PROVE  loaded'[caller'[c].id] \in meanwhile'[c]
        BY <2>1, <2>3, <2>4, <3>2 DEF PlugKept, SeenNext
    <3> QED BY <3>1, <3>2 DEF SeenInv, UpToDate
  <2> QED BY <2>1, <2>5 DEF PlugKept, PlugIInv
<1>2. ASSUME PlugIInv, UNCHANGED pluginVars PROVE PlugIInv'
  <2>1. /\ plug' = plug /\ loaded' = loaded /\ contents' = contents /\ caller' = caller /\ pluginCalls' = pluginCalls
        /\ pluginFails' = pluginFails /\ neat' = neat /\ meanwhile' = meanwhile
      BY <1>2 DEF pluginVars
  <2>2. PlugTypes'
      BY <1>2, <2>1 DEF PlugIInv, PlugTypes
  <2>3. SaverInv'
      BY <1>2, <2>1 DEF PlugIInv, SaverInv, PlugSaving, Differ, Cached
  <2>4. PairInv'
      BY <1>2, <2>1 DEF PlugIInv, PairInv, Differ, Cached
  <2>5. SeenInv'
    <3>1. Current' = Current
        BY <2>1 DEF Current, PlugPending
    <3> QED BY <1>2, <2>1, <3>1 DEF PlugIInv, SeenInv, Using, UpToDate
  <2> QED BY <2>2, <2>3, <2>4, <2>5 DEF PlugIInv
<1> QED BY <1>1, <1>2

\* A call comes to run a module by loading it or by finding it in the cache.
LEMMA RunsFrom ==
    ASSUME PlugTypes, PluginSteps, NEW c \in PluginClient, caller[c].at # "run", caller'[c].at = "run"
    PROVE  load_module(c) \/ module_from_cache(c)
<1>0. caller \in [PluginClient -> CallerRow] /\ \A d \in PluginClient : caller[d] \in CallerRow
    BY DEF PlugTypes
<1>1. PICK d \in PluginClient :
        \/ create_new_tools(d) \/ update_tools_by_id(d) \/ delete_tools_by_id(d) \/ update_tool_access_by_id(d)
        \/ create_new_function(d) \/ update_function_by_id(d) \/ delete_function_by_id(d) \/ sync_functions(d)
        \/ toggle_function_by_id(d) \/ toggle_global_by_id(d) \/ deactivate_all_functions(d)
        \/ get_tools(d) \/ update_tools_valves_by_id(d) \/ update_function_valves_by_id(d)
        \/ generate_function_chat_completion(d) \/ chat_action(d) \/ resolve_filter_pipeline(d) \/ dispatch_event_functions(d)
        \/ load_fails(d) \/ load_module(d) \/ save_row(d) \/ plug_refused(d) \/ grant_tools(d) \/ revoke_tools(d)
        \/ delete_plugin(d) \/ plug_pop(d) \/ write_toggle(d) \/ plug_read(d) \/ module_from_cache(d) \/ plug_runs(d) \/ module_for_stream(d)
    BY DEF PluginSteps
<1>2. ASSUME NEW op, NEW p, NEW t, NEW at, PlugAsk(d, op, p, t, at), at # "run" PROVE FALSE
  <2>1. caller' = [caller EXCEPT ![d] = Asked(op, p, t, at)]
      BY <1>2 DEF PlugAsk, Asked
  <2>2. Asked(op, p, t, at).at # "run"
      BY <1>2 DEF Asked
  <2> QED BY <2>1, <2>2, <1>0
<1>3. ASSUME NEW at \in Places \ {"run"}, PlugGoes(d, at) PROVE FALSE
  <2>1. CallerSame(d) /\ caller'[d].at # "run"
      BY <1>0, <1>3, Goes, NotCallingFacts
  <2> QED BY <2>1 DEF CallerSame
<1>4. CASE \/ create_new_tools(d) \/ update_tools_by_id(d) \/ delete_tools_by_id(d) \/ update_tool_access_by_id(d)
           \/ create_new_function(d) \/ update_function_by_id(d) \/ delete_function_by_id(d)
    BY <1>4, <1>2 DEF create_new_tools, update_tools_by_id, delete_tools_by_id, update_tool_access_by_id,
                      create_new_function, update_function_by_id, delete_function_by_id
<1>5. CASE sync_functions(d)
  <2>1. PICK p \in Function, t \in PlugText \cup {None} : PlugAsk(d, "sync", p, t, IF t = None THEN "save" ELSE "load")
      BY <1>5 DEF sync_functions
  <2>2. PICK at \in {"save", "load"} : at = IF t = None THEN "save" ELSE "load"
      OBVIOUS
  <2> QED BY <2>1, <2>2, <1>2
<1>6. CASE toggle_function_by_id(d) \/ toggle_global_by_id(d) \/ deactivate_all_functions(d)
    BY <1>6, <1>2 DEF toggle_function_by_id, toggle_global_by_id, deactivate_all_functions
<1>7. CASE \/ get_tools(d) \/ update_tools_valves_by_id(d) \/ update_function_valves_by_id(d)
           \/ generate_function_chat_completion(d) \/ chat_action(d) \/ resolve_filter_pipeline(d) \/ dispatch_event_functions(d)
    BY <1>7, <1>2 DEF get_tools, update_tools_valves_by_id, update_function_valves_by_id,
                      generate_function_chat_completion, chat_action, resolve_filter_pipeline, dispatch_event_functions
<1>8. CASE \/ load_fails(d) \/ plug_refused(d) \/ grant_tools(d) \/ revoke_tools(d)
           \/ delete_plugin(d) \/ plug_pop(d) \/ write_toggle(d) \/ plug_runs(d) \/ module_for_stream(d)
    BY <1>8, <1>3 DEF load_fails, plug_refused, grant_tools, revoke_tools, delete_plugin, plug_pop, write_toggle, plug_runs,
                      module_for_stream, Places
<1>9. CASE save_row(d)
  <2>1. PICK at \in {"grant", "idle"} : PlugGoes(d, at)
      BY <1>9 DEF save_row
  <2> QED BY <2>1, <1>3 DEF Places
<1>10. CASE plug_read(d)
  <2>1. caller' = [caller EXCEPT ![d] = NotCalling]
        \/ caller' = [caller EXCEPT ![d] = [caller[d] EXCEPT !.text = plug[caller[d].id].text, !.at = "compare"]]
      BY <1>10 DEF plug_read
  <2>2. CASE caller' = [caller EXCEPT ![d] = NotCalling]
      BY <2>2, <1>0, NotCallingFacts
  <2>3. CASE caller' = [caller EXCEPT ![d] = [caller[d] EXCEPT !.text = plug[caller[d].id].text, !.at = "compare"]]
    <3>1. [caller[d] EXCEPT !.text = plug[caller[d].id].text, !.at = "compare"].at = "compare"
        BY <1>0 DEF CallerRow
    <3> QED BY <2>3, <3>1, <1>0
  <2> QED BY <2>1, <2>2, <2>3
<1>11. CASE load_module(d) \/ module_from_cache(d)
  <2>1. d = c
    <3>1. \A x \in PluginClient : x # d => caller'[x] = caller[x]
        BY <1>11, <1>0 DEF load_module, module_from_cache
    <3> QED BY <3>1
  <2> QED BY <2>1, <1>11
<1> QED BY <1>1, <1>4, <1>5, <1>6, <1>7, <1>8, <1>9, <1>10, <1>11

LEMMA PluginsSound == PlugIInv /\ PluginNext => PluginStep /\ PluginTypeOK'
<1> SUFFICES ASSUME PlugIInv, PluginNext PROVE PluginStep /\ PluginTypeOK'
    OBVIOUS
<1>1. PlugTypes /\ PlugTypes'
    BY PlugNextIInv DEF PlugIInv
<1>2. PluginTypeOK'
    BY <1>1 DEF PlugTypes, PluginTypeOK, PlugRow, PlugText
<1>3. ASSUME neat, NEW c \in PluginClient, caller[c].at # "run", caller'[c].at = "run" PROVE caller'[c].shown \in meanwhile[c]
  <2>3. CASE load_module(c)
    <3>1. caller[c].at = "load" /\ caller[c].op \in {"use", "filter"} /\ caller'[c].shown = caller[c].text
        BY <2>3, <1>1, <1>3 DEF load_module, PlugTypes, CallerRow
    <3> QED BY <3>1 DEF PlugIInv, SeenInv, Using
  <2>4. CASE module_from_cache(c)
    <3>1. caller[c].at = "compare" /\ UpToDate(caller[c].id, caller[c].text) /\ caller'[c].shown = loaded[caller[c].id]
        BY <2>4, <1>1, <1>3 DEF module_from_cache, PlugTypes, CallerRow
    <3> QED BY <3>1, <1>3 DEF PlugIInv, SeenInv
  <2> QED BY <2>3, <2>4, <1>1, <1>3, RunsFrom DEF PluginNext
<1>4. ASSUME neat, NEW p \in Plugin, plug[p].in, UpToDate(p, plug[p].text), \A c \in PluginClient : caller[c].id # p
      PROVE  loaded[p] = plug[p].text
  <2>1. Differ(p) => plug[p].text = loaded[p]
      BY <1>4 DEF PlugIInv, PairInv, Cached
  <2>2. plug[p].text # None
      BY <1>1, <1>4, PluginAssumption DEF PlugTypes
  <2> QED BY <2>1, <2>2, <1>4 DEF Differ, UpToDate
<1> QED BY <1>2, <1>3, <1>4 DEF PluginStep

-----------------------------------------------------------------------------
(* What the services promise                                               *)

(* utils/auth.py, utils/oauth.py: a token that was signed out or belongs to  *)
(* sessions that were ended is refused until it would have expired; a        *)
(* deleted OAuth session does not return; with a provider that does not      *)
(* rotate none is lost; and a user has at most MaxSessions of them, but for  *)
(* one more per sign-in that overlaps.                                       *)
THEOREM SignInIsSound == SignSpec => []SignInHolds
<1>1. SignInit => SignIInv
    BY SignInitIInv
<1>2. SignIInv /\ [SignNext]_signVars => SignIInv'
    BY SignNextIInv
<1>3. SignIInv => SignInHolds
    BY SignInSound DEF SignInHolds
<1> QED BY <1>1, <1>2, <1>3, PTL DEF SignSpec

(* routers/auths.py, routers/users.py, routers/scim.py and utils/oauth.py:   *)
(* whatever sign-ups, trusted headers, LDAP and OAuth sign-ins, edits by     *)
(* administrators and SCIM calls interleave, each a sequence of commits      *)
(* between which the others run, at most one of the accounts there are was   *)
(* made administrator by the rule of the first account, and no two of them   *)
(* share an email.  When no request is in progress, the credentials stored   *)
(* belong to an account and have its email, as long as no two requests on    *)
(* one account overlapped, no change of an email failed between its two      *)
(* writes and SCIM changed no account that has credentials.                  *)
THEOREM AccountsAreSound == AccountSpec => []AccountsHold
<1>1. AccountInit => AccIInv
    BY AccInitIInv
<1>2. AccIInv /\ [AccountNext]_accountVars => AccIInv'
    BY AccNextIInv
<1>3. AccIInv => AccountsHold
    BY AccountsSound DEF AccountsHold
<1> QED BY <1>1, <1>2, <1>3, PTL DEF AccountSpec

(* utils/models.py, utils/redis.py, socket/utils.py: a rewrite of the        *)
(* dictionary of models never leaves it empty while it writes, a refresh     *)
(* that nothing overtook shows what there is, and the signature that lets    *)
(* a rewrite be skipped says what is stored, unless rewrites overlap or      *)
(* Redis fails.                                                              *)
THEOREM ModelsAreSound == CacheSpec => ModelsHold
<1>1. CacheInit => CacheIInv
    BY CacheInitIInv
<1>2. CacheIInv /\ [CacheNext]_cacheVars => CacheIInv'
    BY CacheNextIInv
<1>3. CacheIInv /\ [CacheNext]_cacheVars
         => [NeverEmptied /\ RefreshTakesEffect /\ SignatureHonest' /\ CacheTypeOK']_cacheVars
    BY ModelsSound
<1> QED BY <1>1, <1>2, <1>3, PTL DEF CacheSpec, ModelsHold

(* utils/plugin.py, routers/tools.py, routers/functions.py: a call of a      *)
(* tool or function runs a text that its table held, or that a save was      *)
(* about to write, while it was made, and a module beside the text of its    *)
(* row is made of it, unless saves cross or one is refused half way.         *)
THEOREM PluginsAreSound == PluginSpec => PluginsHold
<1>1. PluginInit => PlugIInv
    BY PlugInitIInv
<1>2. PlugIInv /\ [PluginNext]_pluginVars => PlugIInv'
    BY PlugNextIInv
<1>3. PlugIInv /\ [PluginNext]_pluginVars => [PluginStep /\ PluginTypeOK']_pluginVars
    BY PluginsSound
<1> QED BY <1>1, <1>2, <1>3, PTL DEF PluginSpec, PluginsHold

=============================================================================
