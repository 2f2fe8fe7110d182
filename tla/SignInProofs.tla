---------------------------- MODULE SignInProofs ----------------------------
(***************************************************************************)
(* Theorems about Authorize and SignIn: one browser with any number of     *)
(* tabs, accounts and kinds of requests.                                   *)
(***************************************************************************)
EXTENDS SignIn, FiniteSetTheorems, WellFoundedInduction, TLAPS

-----------------------------------------------------------------------------
(* Random values are new *)

\* Where a random value can be held: by the jar (None) and by each tab, six ways.
Holder == (Request \cup {None}) \X (1..6)

Holding(h) ==
    LET cookies == IF h[1] = None THEN jar ELSE reply[h[1]].set
    IN  IF h[2] = 1 THEN cookies["session"].sid
        ELSE IF h[2] = 2 THEN cookies["proof"].sid
        ELSE IF h[2] = 3 THEN cookies["csrf"]
        ELSE IF h[2] = 4 THEN reply[h[1]].page.csrf
        ELSE IF h[2] = 5 THEN page[h[1]].csrf
        ELSE proved[h[1]]

LEMMA InUseIsHeld == ASSUME NEW i \in InUse PROVE \E h \in Holder : Holding(h) = i
<1> USE NoneAssumption DEF Holder
<1>1. ASSUME i \in Held(jar) PROVE \E h \in Holder : Holding(h) = i
  <2>1. /\ <<None, 1>> \in Holder /\ Holding(<<None, 1>>) = jar["session"].sid
        /\ <<None, 2>> \in Holder /\ Holding(<<None, 2>>) = jar["proof"].sid
        /\ <<None, 3>> \in Holder /\ Holding(<<None, 3>>) = jar["csrf"]
    BY DEF Holding
  <2>2. QED
    BY <1>1, <2>1 DEF Held
<1>2. ASSUME NEW r \in Request, i \in Held(reply[r].set) \cup {reply[r].page.csrf}
      PROVE  \E h \in Holder : Holding(h) = i
  <2>1. /\ <<r, 1>> \in Holder /\ Holding(<<r, 1>>) = reply[r].set["session"].sid
        /\ <<r, 2>> \in Holder /\ Holding(<<r, 2>>) = reply[r].set["proof"].sid
        /\ <<r, 3>> \in Holder /\ Holding(<<r, 3>>) = reply[r].set["csrf"]
        /\ <<r, 4>> \in Holder /\ Holding(<<r, 4>>) = reply[r].page.csrf
    BY DEF Holding
  <2>2. QED
    BY <1>2, <2>1 DEF Held
<1>3. ASSUME NEW r \in Request, i \in {page[r].csrf, proved[r]}
      PROVE  \E h \in Holder : Holding(h) = i
  <2>1. /\ <<r, 5>> \in Holder /\ Holding(<<r, 5>>) = page[r].csrf
        /\ <<r, 6>> \in Holder /\ Holding(<<r, 6>>) = proved[r]
    BY DEF Holding
  <2>2. QED
    BY <1>3, <2>1
<1>4. QED
  BY <1>1, <1>2, <1>3 DEF InUse

\* There are fewer places to hold a value than values.
LEMMA ValueLeft ==
    ASSUME NEW r \in Request
    PROVE  \E n \in 1..Draws : <<r, n>> \notin InUse
<1> SUFFICES ASSUME \A n \in 1..Draws : <<r, n>> \in InUse PROVE FALSE
  OBVIOUS
<1> DEFINE f == [n \in 1..Draws |-> CHOOSE h \in Holder : Holding(h) = <<r, n>>]
<1>1. /\ IsFiniteSet(Request \cup {None})
      /\ Cardinality(Request \cup {None}) = Cardinality(Request) + 1
      /\ Cardinality(Request) \in Nat
  BY DrawsAssumption, NoneAssumption, FS_AddElement, FS_CardinalityType
<1>2. IsFiniteSet(1..6) /\ Cardinality(1..6) = 6
  <2>1. 1 \in Int /\ 6 \in Int
    OBVIOUS
  <2>2. IsFiniteSet(1..6) /\ Cardinality(1..6) = IF 1 > 6 THEN 0 ELSE 6 - 1 + 1
    BY <2>1, FS_Interval, Zenon
  <2>3. QED
    BY <2>2
<1>3. IsFiniteSet(Holder) /\ Cardinality(Holder) = (Cardinality(Request) + 1) * 6
  BY <1>1, <1>2, FS_Product DEF Holder
<1>4. IsFiniteSet(1..Draws) /\ Cardinality(1..Draws) = Draws
  BY <1>1, DrawsAssumption, FS_Interval
<1>5. Cardinality(Holder) < Cardinality(1..Draws)
  BY <1>1, <1>3, <1>4, DrawsAssumption
<1>6. \A n \in 1..Draws : f[n] \in Holder /\ Holding(f[n]) = <<r, n>>
  <2> SUFFICES ASSUME NEW n \in 1..Draws
               PROVE  f[n] \in Holder /\ Holding(f[n]) = <<r, n>>
    OBVIOUS
  <2>1. \E h \in Holder : Holding(h) = <<r, n>>
    BY InUseIsHeld
  <2>2. f[n] = CHOOSE h \in Holder : Holding(h) = <<r, n>>
    OBVIOUS
  <2>3. QED
    BY <2>1, <2>2
<1>7. f \in [1..Draws -> Holder]
  BY <1>6
<1> HIDE DEF f
<1>8. PICK m, n \in 1..Draws : m # n /\ f[m] = f[n]
  BY <1>3, <1>4, <1>5, <1>7, FS_PigeonHole
<1>9. <<r, m>> = <<r, n>>
  BY <1>6, <1>8
<1>10. QED
  BY <1>8, <1>9

\* A drawn value is the tab's and nobody holds it.
LEMMA FreshIs ==
    ASSUME NEW r \in Request
    PROVE  Fresh(r) \in Id /\ Fresh(r) \notin InUse
<1> DEFINE Free == {n \in 1..Draws : <<r, n>> \notin InUse}
           Is(i) == i \notin InUse /\ \A n \in 1..Draws : n < i[2] => <<r, n>> \in InUse
<1>1. Free \subseteq Nat /\ Free # {}
  BY ValueLeft
<1>2. PICK n \in Free : \A m \in Free : ~ (<<m, n>> \in OpToRel(<, Nat))
  <2> HIDE DEF Free
  <2>1. QED
    BY <1>1, NatLessThanWellFounded, WFMin
<1>3. \A m \in Free : ~ (m < n)
  BY <1>1, <1>2 DEF OpToRel
<1>4. <<r, n>> \in {r} \X (1..Draws) /\ Is(<<r, n>>)
  BY <1>3
<1>5. Fresh(r) = CHOOSE i \in {r} \X (1..Draws) : Is(i)
  BY DEF Fresh
<1> HIDE DEF Free, Is
<1>6. Fresh(r) \in {r} \X (1..Draws) /\ Is(Fresh(r))
  BY <1>4, <1>5
<1>7. QED
  BY <1>6 DEF Id, Is

-----------------------------------------------------------------------------
(* What a handler answers *)

LEMMA Values ==
    /\ Value("session") = Session /\ Value("proof") = Proof
    /\ Value("pending") = User /\ Value("csrf") = Id
    /\ Cookie = {"session", "proof", "pending", "csrf"}
BY DEF Value, Cookie

TypedCookies(set) ==
    /\ set \in [Cookie -> CookieValue]
    /\ \A c \in Cookie : set[c] \in Value(c) \cup {None, Keep}

LEMMA TypedFour ==
    ASSUME NEW set \in [Cookie -> CookieValue],
           set["session"] \in Session \cup {None, Keep},
           set["proof"] \in Proof \cup {None, Keep},
           set["pending"] \in User \cup {None, Keep},
           set["csrf"] \in Id \cup {None, Keep}
    PROVE  TypedCookies(set)
BY Values DEF TypedCookies

\* An answer of page p and cookies `set` to tab r, as every handler gives one: what it
\* sets is typed, its random values are new, a proof of login is of this login, and a
\* consent page is shown to the account signed in.
Answering(r, p, set) ==
    /\ reply[r] = None /\ page[r].at # "idle"
    /\ p \in Page /\ p.at # "idle" /\ (p.at \in Forms <=> p.csrf # None)
    /\ TypedCookies(set)
    /\ Answer(r, p, set)
    /\ p.at = "consent" =>
         /\ set = Keeping /\ jar["session"] # None
         /\ p.csrf = jar["session"].sid /\ p.user = jar["session"].user
    /\ asked' \in [Request -> Ask \cup {None}]
    /\ \A q \in Request \ {r} : asked'[q] = asked[q]
    /\ asked'[r] = asked[r] \/ (asked'[r] = None /\ set = Keeping)
    /\ asked'[r] = None => p.at \notin InRequest
    /\ proved' \in [Request -> Id \cup {None}]
    /\ \A q \in Request \ {r} : proved'[q] = proved[q]
    /\ set["proof"] \notin {None, Keep} => set["proof"] = [sid |-> proved'[r], req |-> r]
    /\ \/ proved'[r] = proved[r]
       \/ set["proof"] # Keep
       \/ asked'[r] = None
       \/ asked'[r].prompt # "login"
    /\ set["session"] \notin {None, Keep} =>
         set["session"].sid \notin InUse /\ set["csrf"] = None
    /\ set["csrf"] \notin {None, Keep} => set["csrf"] \notin InUse
    /\ jar' = jar /\ consents' \subseteq User /\ lapses' = lapses /\ reopens' = reopens

\* The answer is there at once, or under way.
AtOnce(r, p) ==
    /\ page'[r] = p
    /\ \A q \in Request \ {r} : page'[q] = page[q]
    /\ reply' = reply
UnderWay(r, p, set) ==
    /\ page' = page
    /\ reply'[r] = [page |-> p, set |-> set] /\ reply'[r] # None
    /\ \A q \in Request \ {r} : reply'[q] = reply[q]

LEMMA AnsweredNow ==
    ASSUME TypeOK, NEW r \in Request, NEW p, NEW set, Answering(r, p, set)
    PROVE  /\ \/ set = Keeping /\ AtOnce(r, p)
              \/ set # Keeping /\ UnderWay(r, p, set)
           /\ page' \in [Request -> Page]
           /\ reply' = [q \in Request |-> reply'[q]]
<1>1. page \in [Request -> Page] /\ reply = [q \in Request |-> reply[q]] /\ p \in Page
  BY DEF TypeOK, Answering
<1>2. CASE set = Keeping
  <2>1. page' = [page EXCEPT ![r] = p] /\ reply' = reply
    BY <1>2 DEF Answering, Answer
  <2>2. QED
    BY <1>1, <1>2, <2>1 DEF AtOnce
<1>3. CASE set # Keeping
  <2>1. reply' = [reply EXCEPT ![r] = [page |-> p, set |-> set]] /\ page' = page
    BY <1>3 DEF Answering, Answer
  <2>2. [page |-> p, set |-> set] \in Reply
    BY <1>1 DEF Answering, TypedCookies, Reply
  <2>3. reply'[r] = [page |-> p, set |-> set]
    BY <1>1, <2>1
  <2>4. reply'[r] # None
    BY <2>2, <2>3, NoneAssumption
  <2>5. /\ \A q \in Request \ {r} : reply'[q] = reply[q]
        /\ reply' = [q \in Request |-> reply'[q]]
    BY <1>1, <2>1
  <2>6. QED
    BY <1>1, <1>3, <2>1, <2>3, <2>4, <2>5 DEF UnderWay
<1>4. QED
  BY <1>2, <1>3

LEMMA KeepingKeeps == \A c \in Cookie : Keeping[c] = Keep
BY DEF Keeping

\* A tab and the answer under way to it are in order after a step.
TabFine(q) ==
    /\ page'[q].at \in Forms <=> page'[q].csrf # None
    /\ page'[q].at = "idle" => reply'[q] = None
    /\ asked'[q] = None => page'[q].at \notin InRequest
    /\ reply'[q] # None =>
         /\ reply'[q].page \in Page
         /\ \A c \in Cookie : reply'[q].set[c] \in Value(c) \cup {None, Keep}
         /\ reply'[q].page.at \notin {"idle", "consent"}
         /\ reply'[q].page.at \in Forms <=> reply'[q].page.csrf # None
         /\ asked'[q] = None => reply'[q].page.at \notin InRequest

LEMMA TabStays ==
    ASSUME IInv, NEW q \in Request,
           page'[q] = page[q], reply'[q] = reply[q], asked'[q] = asked[q]
    PROVE  TabFine(q)
BY DEF TabFine, IInv, STypeOK, TypeOK, RepliesOK, RequestsOK

LEMMA TabsFine ==
    ASSUME /\ page' \in [Request -> Page] /\ reply' = [q \in Request |-> reply'[q]]
           /\ asked' \in [Request -> Ask \cup {None}]
           /\ proved' \in [Request -> Id \cup {None}]
           /\ jar' = [c \in Cookie |-> jar'[c]]
           /\ \A c \in Cookie : jar'[c] \in Value(c) \cup {None}
           /\ consents' \subseteq User
           /\ lapses' \in 0..MaxDetours /\ reopens' \in 0..MaxDetours,
           \A q \in Request : TabFine(q)
    PROVE  TypeOK' /\ RepliesOK' /\ RequestsOK'
<1>1. TypeOK'
  BY DEF TypeOK, TabFine
<1>2. RepliesOK' /\ RequestsOK'
  BY DEF RepliesOK, RequestsOK, TabFine
<1>3. QED
  BY <1>1, <1>2

LEMMA AnsweredType ==
    ASSUME IInv, NEW r \in Request, NEW p, NEW set, Answering(r, p, set)
    PROVE  TypeOK' /\ RepliesOK' /\ RequestsOK'
<1>1. /\ page' \in [Request -> Page] /\ reply' = [q \in Request |-> reply'[q]]
      /\ \/ set = Keeping /\ AtOnce(r, p)
         \/ set # Keeping /\ UnderWay(r, p, set)
  BY AnsweredNow DEF IInv, STypeOK
<1>2. \A q \in Request \ {r} :
        page'[q] = page[q] /\ reply'[q] = reply[q] /\ asked'[q] = asked[q]
  BY <1>1 DEF Answering, AtOnce, UnderWay
<1>3. \A q \in Request \ {r} : TabFine(q)
  BY <1>2, TabStays
<1>4. TabFine(r)
  <2>1. CASE set = Keeping /\ AtOnce(r, p)
    BY <2>1 DEF AtOnce, Answering, TabFine
  <2>2. CASE set # Keeping /\ UnderWay(r, p, set)
    <3>1. /\ page'[r] = page[r] /\ reply'[r].page = p /\ reply'[r].set = set
          /\ asked'[r] = asked[r] /\ p.at # "consent" /\ page[r].at # "idle"
      BY <2>2 DEF UnderWay, Answering
    <3>2. /\ page[r].at \in Forms <=> page[r].csrf # None
          /\ asked[r] = None => page[r].at \notin InRequest
      BY DEF IInv, STypeOK, TypeOK, RequestsOK
    <3>3. QED
      BY <3>1, <3>2 DEF TabFine, Answering, TypedCookies
  <2>3. QED
    BY <1>1, <2>1, <2>2
<1>5. /\ jar' = [c \in Cookie |-> jar'[c]]
      /\ \A c \in Cookie : jar'[c] \in Value(c) \cup {None}
      /\ consents' \subseteq User
      /\ lapses' \in 0..MaxDetours /\ reopens' \in 0..MaxDetours
      /\ asked' \in [Request -> Ask \cup {None}] /\ proved' \in [Request -> Id \cup {None}]
  BY DEF Answering, IInv, STypeOK, TypeOK
<1>6. QED
  BY <1>1, <1>3, <1>4, <1>5, TabsFine

\* A proof of login that an answer brings is of the login it answers.
LEMMA AnsweredProofs ==
    ASSUME IInv, NEW r \in Request, NEW p, NEW set, Answering(r, p, set)
    PROVE  ProofsOK'
<1>1. \/ set = Keeping /\ AtOnce(r, p)
      \/ set # Keeping /\ UnderWay(r, p, set)
  BY AnsweredNow DEF IInv, STypeOK
<1>2. \A q \in Request \ {r} :
        /\ page'[q] = page[q] /\ reply'[q] = reply[q]
        /\ asked'[q] = asked[q] /\ proved'[q] = proved[q]
  BY <1>1 DEF Answering, AtOnce, UnderWay
<1>3. /\ page'[r].at # "idle" /\ reply[r] = None /\ jar' = jar
      /\ reply'[r] = None \/ reply'[r].set = set
      /\ set["proof"] # Keep => reply'[r] # None /\ reply'[r].set = set
  <2>1. "proof" \in Cookie
    BY Values
  <2>2. QED
    BY <1>1, <2>1, KeepingKeeps DEF Answering, AtOnce, UnderWay
<1>4. asked'[r] # None => asked'[r] = asked[r]
  BY DEF Answering
<1>5. /\ set["proof"] \notin {None, Keep} => set["proof"] = [sid |-> proved'[r], req |-> r]
      /\ \/ proved'[r] = proved[r]
         \/ set["proof"] # Keep
         \/ asked'[r] = None
         \/ asked'[r].prompt # "login"
  BY DEF Answering
<1>6. QED
  BY <1>2, <1>3, <1>4, <1>5 DEF ProofsOK, IInv

-----------------------------------------------------------------------------
(* Sessions and CSRF tokens *)

InSetsNext(c) ==
    {jar'[c]} \cup {reply'[r].set[c] : r \in {q \in Request : reply'[q] # None}}
SessionsNext == InSetsNext("session") \ {None, Keep}
CsrfsNext    == InSetsNext("csrf") \ {None, Keep}

\* TokensOK after a step, in terms of the state before and after.
TokensNext ==
    /\ \A s, z \in SessionsNext : s.sid = z.sid => s.user = z.user
    /\ \A s \in SessionsNext : s.sid \notin CsrfsNext
    /\ \A r \in Request : page'[r].at = "consent" =>
         /\ page'[r].csrf \notin CsrfsNext
         /\ \A s \in SessionsNext : s.sid = page'[r].csrf => s.user = page'[r].user

LEMMA TokensThen == TokensNext => TokensOK'
BY DEF TokensNext, TokensOK, Sessions, SessionsNext, Csrfs, CsrfsNext, InSets, InSetsNext

\* The ids of sessions, the CSRF cookies and the tokens on pages are in use.
LEMMA Used ==
    ASSUME IInv
    PROVE  /\ \A s \in Sessions : s \in Session /\ s.sid \in InUse
           /\ \A k \in Csrfs : k \in Id /\ k \in InUse
           /\ \A r \in Request : page[r].csrf \in InUse
<1>1. TypeOK
  BY DEF IInv, STypeOK
<1>2. ASSUME NEW s \in Sessions PROVE s \in Session /\ s.sid \in InUse
  <2>1. CASE s = jar["session"]
    <3>1. s \in Session
      BY <1>1, <1>2, <2>1, Values DEF TypeOK, Sessions
    <3>2. QED
      BY <2>1, <3>1 DEF InUse, Held
  <2>2. ASSUME NEW r \in Request, reply[r] # None, s = reply[r].set["session"]
        PROVE  s \in Session /\ s.sid \in InUse
    <3>1. s \in Session
      BY <1>1, <1>2, <2>2, Values DEF TypeOK, Sessions
    <3>2. s.sid \in Held(reply[r].set)
      BY <2>2, <3>1 DEF Held
    <3>3. QED
      BY <2>2, <3>1, <3>2 DEF InUse
  <2>3. QED
    BY <1>2, <2>1, <2>2 DEF Sessions, InSets
<1>3. ASSUME NEW k \in Csrfs PROVE k \in Id /\ k \in InUse
  <2>1. CASE k = jar["csrf"]
    BY <1>1, <1>3, <2>1, Values DEF TypeOK, Csrfs, InUse, Held
  <2>2. ASSUME NEW r \in Request, reply[r] # None, k = reply[r].set["csrf"]
        PROVE  k \in Id /\ k \in InUse
    <3>1. k \in Id
      BY <1>1, <1>3, <2>2, Values DEF TypeOK, Csrfs
    <3>2. k \in Held(reply[r].set)
      BY <2>2 DEF Held
    <3>3. QED
      BY <2>2, <3>1, <3>2 DEF InUse
  <2>3. QED
    BY <1>3, <2>1, <2>2 DEF Csrfs, InSets
<1>4. \A r \in Request : page[r].csrf \in InUse
  BY DEF InUse
<1>5. QED
  BY <1>2, <1>3, <1>4

\* When nothing new comes to the browser, its tokens stay in order.
LEMMA TokensStay ==
    ASSUME IInv,
           \A s \in SessionsNext : \E z \in Sessions : z.sid = s.sid /\ z.user = s.user,
           CsrfsNext \subseteq Csrfs,
           \A r \in Request : page'[r].at = "consent" =>
             \/ page[r].at = "consent" /\ page'[r].csrf = page[r].csrf
                                       /\ page'[r].user = page[r].user
             \/ \E s \in Sessions : page'[r].csrf = s.sid /\ page'[r].user = s.user
    PROVE  TokensNext
<1>1. /\ \A s, z \in Sessions : s.sid = z.sid => s.user = z.user
      /\ \A s \in Sessions : s.sid \notin Csrfs
      /\ \A r \in Request : page[r].at = "consent" =>
           /\ page[r].csrf \notin Csrfs
           /\ \A s \in Sessions : s.sid = page[r].csrf => s.user = page[r].user
  BY DEF IInv, TokensOK
<1>2. \A s, z \in SessionsNext : s.sid = z.sid => s.user = z.user
  BY <1>1
<1>3. \A s \in SessionsNext : s.sid \notin CsrfsNext
  BY <1>1
<1>4. ASSUME NEW r \in Request, page'[r].at = "consent"
      PROVE  /\ page'[r].csrf \notin CsrfsNext
             /\ \A s \in SessionsNext : s.sid = page'[r].csrf => s.user = page'[r].user
  <2>1. CASE /\ page[r].at = "consent" /\ page'[r].csrf = page[r].csrf
             /\ page'[r].user = page[r].user
    BY <1>1, <2>1
  <2>2. CASE \E s \in Sessions : page'[r].csrf = s.sid /\ page'[r].user = s.user
    BY <1>1, <2>2
  <2>3. QED
    BY <1>4, <2>1, <2>2
<1>5. QED
  BY <1>2, <1>3, <1>4 DEF TokensNext

LEMMA AnsweredTokens ==
    ASSUME IInv, NEW r \in Request, NEW p, NEW set, Answering(r, p, set)
    PROVE  TokensOK'
<1> USE Values
<1>1. \/ set = Keeping /\ AtOnce(r, p)
      \/ set # Keeping /\ UnderWay(r, p, set)
  BY AnsweredNow DEF IInv, STypeOK
<1>2. jar' = jar
  BY DEF Answering
<1>3. CASE set = Keeping /\ AtOnce(r, p)
  <2>1. SessionsNext = Sessions /\ CsrfsNext = Csrfs
    BY <1>2, <1>3 DEF AtOnce, SessionsNext, Sessions, CsrfsNext, Csrfs, InSetsNext, InSets
  <2>2. ASSUME p.at = "consent"
        PROVE  \E s \in Sessions : p.csrf = s.sid /\ p.user = s.user
    <3>1. jar["session"] \in Session
      BY <2>2 DEF Answering, IInv, STypeOK, TypeOK
    <3>2. jar["session"] \in Sessions
      BY <3>1, NoneAssumption DEF Sessions, InSets
    <3>3. QED
      BY <2>2, <3>2 DEF Answering
  <2>3. TokensNext
    BY <1>3, <2>1, <2>2, TokensStay DEF AtOnce
  <2>4. QED
    BY <2>3, TokensThen
<1>4. CASE set # Keeping /\ UnderWay(r, p, set)
  <2>1. \A c \in Cookie : InSetsNext(c) \subseteq InSets(c) \cup {set[c]}
    <3>1. \A q \in Request : reply'[q] = reply[q] \/ (q = r /\ reply'[q].set = set)
      BY <1>4 DEF UnderWay
    <3>2. QED
      BY <1>2, <3>1 DEF InSetsNext, InSets
  <2>2. /\ SessionsNext \subseteq Sessions \cup ({set["session"]} \ {None, Keep})
        /\ CsrfsNext \subseteq Csrfs \cup ({set["csrf"]} \ {None, Keep})
    BY <2>1 DEF SessionsNext, Sessions, CsrfsNext, Csrfs
  <2>3. page' = page
    BY <1>4 DEF UnderWay
  <2>4. CASE set["session"] \in {None, Keep} /\ set["csrf"] \in {None, Keep}
    <3>1. SessionsNext \subseteq Sessions /\ CsrfsNext \subseteq Csrfs
      BY <2>2, <2>4
    <3>2. TokensNext
      BY <2>3, <3>1, TokensStay
    <3>3. QED
      BY <3>2, TokensThen
  <2>5. CASE set["session"] \notin {None, Keep}
    <3>1. set["session"].sid \notin InUse /\ set["csrf"] = None
      BY <2>5 DEF Answering
    <3>2. CsrfsNext \subseteq Csrfs
      BY <2>2, <3>1
    <3>3. /\ \A s \in Sessions : s.sid # set["session"].sid
          /\ set["session"].sid \notin Csrfs
          /\ \A q \in Request : page[q].csrf # set["session"].sid
      BY <3>1, Used
    <3>4. TokensNext
      BY <2>2, <2>3, <3>2, <3>3 DEF TokensNext, IInv, TokensOK
    <3>5. QED
      BY <3>4, TokensThen
  <2>6. CASE set["csrf"] \notin {None, Keep}
    <3>1. set["csrf"] \notin InUse /\ set["session"] \in {None, Keep}
      <4>1. set["session"] \notin {None, Keep} => set["csrf"] = None
        BY DEF Answering
      <4>2. QED
        BY <2>6, <4>1 DEF Answering
    <3>2. SessionsNext \subseteq Sessions
      BY <2>2, <3>1
    <3>3. /\ \A s \in Sessions : s.sid # set["csrf"]
          /\ \A q \in Request : page[q].csrf # set["csrf"]
      BY <3>1, Used
    <3>4. TokensNext
      BY <2>2, <2>3, <3>2, <3>3 DEF TokensNext, IInv, TokensOK
    <3>5. QED
      BY <3>4, TokensThen
  <2>7. QED
    BY <2>4, <2>5, <2>6
<1>5. QED
  BY <1>1, <1>3, <1>4

-----------------------------------------------------------------------------
(* The handlers *)

Answered(r) == \E p, set : Answering(r, p, set)

\* A page that is no form.
Place(where, u) == [at |-> where, csrf |-> None, user |-> u]

LEMMA Places ==
    ASSUME NEW where \in Gets \cup Ended, NEW u \in User \cup {None}
    PROVE  /\ Place(where, u) \in Page
           /\ Place(where, u).at = where /\ Place(where, u).csrf = None
           /\ where \notin {"idle", "login", "mfa", "consent"}
           /\ At(where) = Place(where, None)
           /\ [At(where) EXCEPT !.user = u] = Place(where, u)
BY DEF At, Place, Page, Gets, Ended

\* What a handler that answers tab r has in common with the others.
Serving(r) ==
    /\ reply[r] = None /\ page[r].at # "idle"
    /\ jar' = jar /\ consents' \subseteq User /\ lapses' = lapses /\ reopens' = reopens

LEMMA Tabs ==
    ASSUME IInv, NEW r \in Request
    PROVE  /\ asked \in [Request -> Ask \cup {None}] /\ proved \in [Request -> Id \cup {None}]
           /\ page[r] \in Page
           /\ jar["session"] \in Session \cup {None} /\ jar["proof"] \in Proof \cup {None}
           /\ jar["pending"] \in User \cup {None} /\ jar["csrf"] \in Id \cup {None}
           /\ consents \subseteq User
           /\ asked[r] = None => page[r].at \notin InRequest
BY Values DEF IInv, STypeOK, TypeOK, RequestsOK

LEMMA KeepingTyped ==
    /\ Keeping \in [Cookie -> CookieValue]
    /\ TypedCookies(Keeping)
    /\ Keeping["session"] = Keep /\ Keeping["proof"] = Keep /\ Keeping["csrf"] = Keep
BY DEF Keeping, TypedCookies, CookieValue, Cookie

\* Answers that set no cookie.
LEMMA Plain ==
    ASSUME IInv, NEW r \in Request, Serving(r),
           NEW where \in Gets \cup Ended, NEW u \in User \cup {None},
           Answer(r, Place(where, u), Keeping),
           \/ asked' = asked /\ (asked[r] = None => where \notin InRequest)
           \/ asked' = [asked EXCEPT ![r] = None] /\ where \notin InRequest,
           \/ proved' = proved
           \/ proved' = [proved EXCEPT ![r] = None] /\ asked[r].prompt # "login"
    PROVE  Answered(r)
<1> DEFINE p == Place(where, u)
<1>1. /\ p \in Page /\ p.at = where /\ p.csrf = None
      /\ where \notin {"idle", "login", "mfa", "consent"}
  BY Places
<1>2. /\ asked' \in [Request -> Ask \cup {None}] /\ proved' \in [Request -> Id \cup {None}]
      /\ \A q \in Request \ {r} : asked'[q] = asked[q] /\ proved'[q] = proved[q]
      /\ asked'[r] = asked[r] \/ asked'[r] = None
      /\ asked'[r] = None => where \notin InRequest
      /\ proved'[r] = proved[r] \/ asked'[r] = None \/ asked'[r].prompt # "login"
  BY Tabs
<1> HIDE DEF p
<1>3. Answering(r, p, Keeping)
  <2>1. Answer(r, p, Keeping)
    BY DEF p
  <2>2. QED
    BY <1>1, <1>2, <2>1, KeepingTyped, NoneAssumption DEF Answering, Serving, Forms
<1>4. QED
  BY <1>3 DEF Answered

LEMMA KeepingOne ==
    ASSUME NEW c \in Cookie, NEW v \in CookieValue
    PROVE  /\ [Keeping EXCEPT ![c] = v] \in [Cookie -> CookieValue]
           /\ [Keeping EXCEPT ![c] = v][c] = v
           /\ \A d \in Cookie \ {c} : [Keeping EXCEPT ![c] = v][d] = Keep
BY KeepingTyped, KeepingKeeps

\* Answers that take the proof of login back.
LEMMA ProofTaken ==
    ASSUME IInv, NEW r \in Request, Serving(r),
           NEW where \in Gets \cup Ended, NEW u \in User \cup {None},
           Answer(r, Place(where, u), [Keeping EXCEPT !["proof"] = None]),
           asked' = asked, asked[r] # None,
           proved' = proved \/ proved' = [proved EXCEPT ![r] = None]
    PROVE  Answered(r)
<1> DEFINE p == Place(where, u)
           set == [Keeping EXCEPT !["proof"] = None]
<1>1. None \in CookieValue /\ "proof" \in Cookie
  BY Values DEF CookieValue
<1>2. /\ set \in [Cookie -> CookieValue] /\ set["proof"] = None
      /\ \A d \in Cookie \ {"proof"} : set[d] = Keep
  BY <1>1, KeepingOne
<1>3. /\ TypedCookies(set) /\ set["session"] = Keep /\ set["csrf"] = Keep
  BY <1>2, Values DEF TypedCookies
<1>4. /\ p \in Page /\ p.at = where /\ p.csrf = None
      /\ where \notin {"idle", "login", "mfa", "consent"}
  BY Places
<1> HIDE DEF set, p
<1>5. Answering(r, p, set)
  <2>1. Answer(r, p, set)
    BY DEF set, p
  <2>2. /\ asked' \in [Request -> Ask \cup {None}] /\ proved' \in [Request -> Id \cup {None}]
        /\ \A q \in Request \ {r} : asked'[q] = asked[q] /\ proved'[q] = proved[q]
        /\ asked'[r] = asked[r]
    BY Tabs
  <2>3. QED
    BY <1>2, <1>3, <1>4, <2>1, <2>2, NoneAssumption DEF Answering, Serving, Forms
<1>6. QED
  BY <1>5 DEF Answered

\* Forms that carry the CSRF cookie's token, or the session's.
LEMMA Rendered ==
    ASSUME IInv, NEW r \in Request, Serving(r),
           NEW form \in {"login", "mfa"}, NEW u \in User \cup {None},
           NEW s \in {None, jar["session"]},
           render(r, form, s, u), asked' = asked, proved' = proved
    PROVE  Answered(r)
<1> DEFINE k == csrf_token_for(r, s)
           p == [at |-> form, csrf |-> k, user |-> u]
           v == IF s = None /\ jar["csrf"] = None THEN Fresh(r) ELSE Keep
           set == [Keeping EXCEPT !["csrf"] = v]
<1>1. /\ v \in CookieValue /\ v # None /\ "csrf" \in Cookie
      /\ v # Keep => v \in Id /\ v \notin InUse
  BY FreshIs, NoneAssumption, Values DEF CookieValue
<1>2. k \in Id
  BY FreshIs, Tabs DEF csrf_token_for, Session
<1>3. /\ set \in [Cookie -> CookieValue] /\ set["csrf"] = v
      /\ \A d \in Cookie \ {"csrf"} : set[d] = Keep
  BY <1>1, KeepingOne
<1>4. /\ TypedCookies(set) /\ set["session"] = Keep /\ set["proof"] = Keep
  BY <1>1, <1>3, Values DEF TypedCookies
<1>5. p \in Page /\ p.at = form /\ p.csrf # None
  BY <1>2, NoneAssumption DEF Page, Forms
<1>6. Answer(r, p, set)
  BY DEF render
<1> HIDE DEF set, p, v
<1>7. Answering(r, p, set)
  BY <1>1, <1>3, <1>4, <1>5, <1>6, Tabs DEF Answering, Serving, Forms, InRequest
<1>8. QED
  BY <1>7 DEF Answered

\* The consent page is shown to the account that is signed in.
LEMMA ConsentRendered ==
    ASSUME IInv, NEW r \in Request, Serving(r), jar["session"] # None, asked[r] # None,
           render(r, "consent", jar["session"], jar["session"].user),
           asked' = asked, proved' = proved
    PROVE  Answered(r)
<1> DEFINE p == [at |-> "consent", csrf |-> jar["session"].sid,
                 user |-> jar["session"].user]
<1>1. jar["session"].sid \in Id /\ jar["session"].user \in User
  BY Tabs DEF Session
<1>2. p \in Page /\ p.at = "consent" /\ p.csrf # None
  BY <1>1, NoneAssumption DEF Page, Forms
<1>3. [Keeping EXCEPT !["csrf"] = Keep] = Keeping
  BY DEF Keeping
<1>4. Answer(r, p, Keeping)
  BY <1>3 DEF render, csrf_token_for
<1>5. p.csrf = jar["session"].sid /\ p.user = jar["session"].user
  OBVIOUS
<1> HIDE DEF p
<1>6. Answering(r, p, Keeping)
  BY <1>2, <1>4, <1>5, Tabs, KeepingTyped DEF Answering, Serving, Forms
<1>7. QED
  BY <1>6 DEF Answered

\* A login makes a session with a new id, and a proof of it for the tab's request.
LEMMA SignedIn ==
    ASSUME IInv, NEW r \in Request, Serving(r), NEW u \in User, NEW factor \in BOOLEAN,
           SignsIn(r, u, factor), asked' = asked
    PROVE  Answered(r)
<1> DEFINE id == Fresh(r)
           s == [sid |-> id, user |-> u, factor |-> factor, old |-> FALSE]
           z == IF asked[r] = None THEN Keep ELSE [sid |-> s.sid, req |-> r]
           w == IF factor THEN None ELSE Keep
           where == IF asked[r] = None THEN "account" ELSE "authorize"
           set == [Keeping EXCEPT !["session"] = s, !["proof"] = z, !["csrf"] = None,
                                  !["pending"] = w]
           p == At(where)
<1>1. id \in Id /\ id \notin InUse
  BY FreshIs
<1>2. /\ s \in Session /\ s.sid = id
      /\ z = IF asked[r] = None THEN Keep ELSE [sid |-> id, req |-> r]
      /\ z \in Proof \cup {Keep}
  BY <1>1 DEF Session, Proof
<1>3. asked[r] # None => z = [sid |-> id, req |-> r] /\ z # Keep
  BY <1>1, <1>2, NoneAssumption DEF Proof
<1>4. {s, z, None, w} \subseteq CookieValue
  BY <1>2 DEF CookieValue
<1>5. /\ set["session"] = s /\ set["proof"] = z /\ set["csrf"] = None /\ set["pending"] = w
      /\ set \in [Cookie -> CookieValue]
  BY <1>4, Values, KeepingTyped
<1>6. TypedCookies(set)
  BY <1>2, <1>5, TypedFour
<1>7. /\ p \in Page /\ p.at = where /\ p.csrf = None
      /\ where \notin {"idle", "login", "mfa", "consent"}
  <2>1. where \in Gets \cup Ended
    BY DEF Gets, Ended
  <2> HIDE DEF where
  <2>2. p = Place(where, None)
    BY <2>1, Places
  <2> HIDE DEF p
  <2>3. QED
    BY <2>1, <2>2, Places
<1>8. proved' = [proved EXCEPT ![r] = id] /\ Answer(r, p, set)
  BY DEF SignsIn
<1>9. /\ proved' \in [Request -> Id \cup {None}] /\ proved'[r] = id
      /\ \A q \in Request \ {r} : proved'[q] = proved[q]
  BY <1>1, <1>8, Tabs
<1>10. where \notin InRequest \/ asked[r] # None
  BY DEF InRequest
<1> HIDE DEF id, s, z, w, where, set, p
<1>11. Answering(r, p, set)
  BY <1>1, <1>2, <1>3, <1>5, <1>6, <1>7, <1>8, <1>9, <1>10, Tabs, NoneAssumption
  DEF Answering, Serving, Forms
<1>12. QED
  BY <1>11 DEF Answered

LEMMA AuthorizeAnswers ==
    ASSUME IInv, NEW r \in Request, authorize(r) PROVE Answered(r)
<1> USE NoneAssumption
<1>1. Serving(r) /\ asked' = asked /\ asked[r] # None /\ consents' = consents
  BY Tabs DEF authorize, Serving, Sends, InRequest
<1>2. \A where \in Gets \cup Ended : At(where) = Place(where, None)
  BY Places
<1>3. ASSUME NEW where \in {"error", "toLogin"}, Redirect(r, where), proved' = proved
      PROVE  Answered(r)
  <2>1. Answer(r, Place(where, None), Keeping)
    BY <1>2, <1>3 DEF Redirect, Gets, Ended
  <2>2. QED
    BY <1>1, <1>3, <2>1, Plain DEF Gets, Ended
<1>4. CASE AskLogin(r)
  <2>1. ASSUME Answer(r, At("error"), [Keeping EXCEPT !["proof"] = None]), proved' = proved
        PROVE  Answered(r)
    <3>1. Answer(r, Place("error", None), [Keeping EXCEPT !["proof"] = None])
      BY <1>2, <2>1 DEF Ended
    <3>2. QED
      BY <1>1, <2>1, <3>1, ProofTaken DEF Ended
  <2>2. QED
    BY <1>3, <1>4, <2>1 DEF AskLogin
<1>5. CASE AskConsent(r)
  <2>1. jar["session"] # None /\ proved' = proved
    BY <1>5 DEF AskConsent, needs_login
  <2>2. QED
    BY <1>1, <1>3, <1>5, <2>1, ConsentRendered DEF AskConsent
<1>6. CASE GiveCode(r)
  <2> DEFINE u == jar["session"].user
  <2>1. jar["session"] \in Session /\ u \in User
    BY <1>6, Tabs DEF GiveCode, needs_login, Session
  <2>2. [At("code") EXCEPT !.user = u] = Place("code", u) /\ "code" \in Ended
    BY <2>1, Places DEF Ended
  <2>3. proved' = [proved EXCEPT ![r] = None]
    BY <1>6 DEF GiveCode
  <2>4. CASE completed_reauth(r)
    <3>1. Answer(r, Place("code", u), [Keeping EXCEPT !["proof"] = None])
      BY <1>6, <2>2, <2>4 DEF GiveCode
    <3>2. QED
      BY <1>1, <2>1, <2>2, <2>3, <3>1, ProofTaken
  <2>5. CASE ~completed_reauth(r)
    <3>1. asked[r].prompt # "login"
      BY <1>6, <2>5 DEF GiveCode, needs_login
    <3>2. [Keeping EXCEPT !["proof"] = Keep] = Keeping
      BY DEF Keeping
    <3>3. Answer(r, Place("code", u), Keeping)
      BY <1>6, <2>2, <2>5, <3>2 DEF GiveCode
    <3>4. QED
      BY <1>1, <2>1, <2>2, <2>3, <3>1, <3>3, Plain
  <2>6. QED
    BY <2>4, <2>5
<1>7. QED
  BY <1>4, <1>5, <1>6 DEF authorize

\* The token of a consent page is good only in the session it was made in.
LEMMA ConsentSession ==
    ASSUME IInv, NEW r \in Request, page[r].at = "consent", csrf_protect(r)
    PROVE  /\ jar["session"] \in Session /\ jar["session"].user \in User
           /\ jar["session"].user = page[r].user
<1>1. /\ page[r].csrf # None /\ page[r].csrf \notin Csrfs
      /\ \A s \in Sessions : s.sid = page[r].csrf => s.user = page[r].user
  BY DEF IInv, STypeOK, TypeOK, TokensOK, Forms
<1>2. jar["session"] # None
  <2>1. SUFFICES ASSUME jar["session"] = None PROVE FALSE
    OBVIOUS
  <2>2. page[r].csrf = jar["csrf"]
    BY <2>1 DEF csrf_protect
  <2>3. jar["csrf"] \in Csrfs
    BY <1>1, <2>2, Tabs, NoneAssumption DEF Csrfs, InSets
  <2>4. QED
    BY <1>1, <2>2, <2>3
<1>3. jar["session"] \in Session /\ jar["session"] \in Sessions
  BY <1>2, Tabs, NoneAssumption DEF Sessions, InSets
<1>4. QED
  BY <1>1, <1>2, <1>3 DEF csrf_protect, Session

LEMMA ConsentAnswers ==
    ASSUME IInv, NEW r \in Request, NEW allow \in BOOLEAN, authorize_consent(r, allow)
    PROVE  Answered(r)
<1>1. consents' \subseteq User
  <2>1. page[r].at = "consent"
    BY DEF authorize_consent, Sends
  <2>2. csrf_protect(r) => jar["session"].user \in User
    BY <2>1, ConsentSession
  <2>3. QED
    BY <2>2, Tabs DEF authorize_consent
<1>2. /\ Serving(r) /\ asked' = asked /\ proved' = proved
      /\ page[r].at = "consent" /\ asked[r] # None
  BY <1>1, Tabs DEF authorize_consent, Serving, Sends, InRequest
<1>3. PICK where \in {"error", "authorize"} : Redirect(r, where)
  BY DEF authorize_consent
<1>4. Answer(r, Place(where, None), Keeping) /\ where \in Gets \cup Ended
  BY <1>3, Places DEF Redirect, Gets, Ended
<1>5. QED
  BY <1>2, <1>4, Plain

LEMMA LoginPageAnswers ==
    ASSUME IInv, NEW r \in Request, login_page(r) PROVE Answered(r)
<1>1. Serving(r) /\ asked' = asked /\ proved' = proved
  BY Tabs DEF login_page, Serving, Sends
<1>2. CASE jar["session"] # None /\ asked[r] = None
  <2>1. Answer(r, Place("account", None), Keeping) /\ "account" \in Ended
    BY <1>2, Places DEF login_page, Redirect, Ended
  <2>2. QED
    BY <1>1, <2>1, Plain DEF InRequest
<1>3. CASE ~(jar["session"] # None /\ asked[r] = None)
  BY <1>1, <1>3, Rendered DEF login_page
<1>4. QED
  BY <1>2, <1>3

LEMMA LoginAnswers ==
    ASSUME IInv, NEW r \in Request, NEW u \in User, login_submit(r, u) PROVE Answered(r)
<1>1. Serving(r) /\ asked' = asked
  BY Tabs DEF login_submit, Serving, Sends
<1>2. ASSUME Redirect(r, "toLogin"), proved' = proved PROVE Answered(r)
  <2>1. Answer(r, Place("toLogin", None), Keeping) /\ "toLogin" \in Gets
    BY <1>2, Places DEF Redirect, Gets
  <2>2. QED
    BY <1>1, <1>2, <2>1, Plain DEF InRequest
<1>3. ASSUME Answer(r, At("toMfa"), [Keeping EXCEPT !["pending"] = u, !["session"] = None]),
             proved' = proved
      PROVE  Answered(r)
  <2> DEFINE set == [Keeping EXCEPT !["pending"] = u, !["session"] = None]
             p == Place("toMfa", None)
  <2>1. u \in CookieValue /\ None \in CookieValue
    BY DEF CookieValue
  <2>2. /\ set \in [Cookie -> CookieValue] /\ set["session"] = None /\ set["proof"] = Keep
        /\ set["pending"] = u /\ set["csrf"] = Keep
    BY <2>1, Values, KeepingTyped
  <2>3. TypedCookies(set)
    BY <2>2, TypedFour
  <2>4. /\ p \in Page /\ p.at = "toMfa" /\ p.csrf = None /\ At("toMfa") = p
    BY Places DEF Gets
  <2> HIDE DEF set, p
  <2>5. Answer(r, p, set)
    BY <1>3, <2>4 DEF set
  <2>6. Answering(r, p, set)
    BY <1>1, <1>3, <2>2, <2>3, <2>4, <2>5, Tabs, NoneAssumption
    DEF Answering, Serving, Forms, InRequest
  <2>7. QED
    BY <2>6 DEF Answered
<1>4. ASSUME SignsIn(r, u, FALSE) PROVE Answered(r)
  BY <1>1, <1>4, SignedIn
<1>5. QED
  BY <1>2, <1>3, <1>4 DEF login_submit

LEMMA StartedOver ==
    ASSUME IInv, NEW r \in Request, Serving(r), StartOver(r), proved' = proved
    PROVE  Answered(r)
<1>1. Answer(r, Place("toLogin", None), Keeping) /\ "toLogin" \in Gets
  BY Places DEF StartOver, Redirect, Gets
<1>2. asked' = [asked EXCEPT ![r] = None] /\ "toLogin" \notin InRequest
  BY DEF StartOver, InRequest
<1>3. QED
  BY <1>1, <1>2, Plain

LEMMA SecondStepAnswers ==
    ASSUME IInv, NEW r \in Request, mfa_page(r) \/ mfa_submit(r) PROVE Answered(r)
<1>1. Serving(r)
  BY Tabs DEF mfa_page, mfa_submit, Serving, Sends
<1>2. CASE mfa_page(r)
  <2>1. ASSUME jar["pending"] # None, render(r, "mfa", None, jar["pending"]), asked' = asked
        PROVE  Answered(r)
    <3>1. proved' = proved /\ jar["pending"] \in User \cup {None}
      BY <1>2, Tabs DEF mfa_page
    <3>2. QED
      BY <1>1, <2>1, <3>1, Rendered
  <2>2. QED
    BY <1>1, <1>2, <2>1, StartedOver DEF mfa_page
<1>3. CASE mfa_submit(r)
  <2>1. ASSUME Redirect(r, "toMfa"), asked' = asked, proved' = proved PROVE Answered(r)
    <3>1. Answer(r, Place("toMfa", None), Keeping) /\ "toMfa" \in Gets
      BY <2>1, Places DEF Redirect, Gets
    <3>2. QED
      BY <1>1, <2>1, <3>1, Plain DEF InRequest
  <2>2. ASSUME jar["pending"] # None, SignsIn(r, jar["pending"], TRUE), asked' = asked
        PROVE  Answered(r)
    <3>1. jar["pending"] \in User
      BY <2>2, Tabs
    <3>2. QED
      BY <1>1, <2>2, <3>1, SignedIn
  <2>3. QED
    BY <1>1, <1>3, <2>1, <2>2, StartedOver DEF mfa_submit
<1>4. QED
  BY <1>2, <1>3

-----------------------------------------------------------------------------
(* The steps that are no handler's *)

\* The web state is in order after a step, and no tab is as new as before it was used.
WebNext ==
    /\ TypeOK' /\ RepliesOK' /\ RequestsOK' /\ ProofsOK' /\ TokensOK'
    /\ \A q \in Request : page'[q].at = "idle" => page[q].at = "idle"

LEMMA AnsweredSafe == ASSUME IInv, NEW r \in Request, Answered(r) PROVE WebNext
<1>1. PICK p, set : Answering(r, p, set)
  BY DEF Answered
<1>2. \A q \in Request : page'[q].at = "idle" => page[q].at = "idle"
  <2>1. p.at # "idle" /\ (AtOnce(r, p) \/ UnderWay(r, p, set))
    BY <1>1, AnsweredNow DEF IInv, STypeOK, Answering
  <2>2. QED
    BY <2>1 DEF AtOnce, UnderWay
<1>3. QED
  BY <1>1, <1>2, AnsweredType, AnsweredProofs, AnsweredTokens DEF WebNext

\* A step that changes nothing but where tabs are, and what they follow.
LEMMA TabMoves ==
    ASSUME IInv, NEW r \in Request, NEW where \in Gets \cup Ended, NEW ask \in Ask \cup {None},
           page' = [page EXCEPT ![r] = At(where)], asked' = [asked EXCEPT ![r] = ask],
           ask = asked[r] \/ page[r].at = "idle",
           ask = None => where \notin InRequest,
           reopens' \in 0..MaxDetours,
           UNCHANGED <<reply, jar, consents, proved, lapses>>
    PROVE  WebNext
<1>1. /\ page' \in [Request -> Page] /\ page'[r] = Place(where, None)
      /\ \A q \in Request \ {r} : page'[q] = page[q]
  BY Places DEF IInv, STypeOK, TypeOK
<1>2. page'[r].at = where /\ page'[r].csrf = None /\ where \notin Forms \cup {"idle"}
  BY <1>1, Places DEF Forms
<1>3. /\ asked' \in [Request -> Ask \cup {None}] /\ asked'[r] = ask
      /\ \A q \in Request \ {r} : asked'[q] = asked[q]
  BY DEF IInv, STypeOK, TypeOK
<1>4. reply[r] # None => ask = asked[r]
  BY DEF IInv, RepliesOK
<1>5. TypeOK' /\ RepliesOK' /\ RequestsOK'
  <2>1. \A q \in Request \ {r} : TabFine(q)
    BY <1>1, <1>3, TabStays
  <2>2. TabFine(r)
    BY <1>2, <1>3, <1>4 DEF TabFine, IInv, STypeOK, TypeOK, RepliesOK, RequestsOK, Forms
  <2>3. /\ reply' = [q \in Request |-> reply'[q]] /\ jar' = [c \in Cookie |-> jar'[c]]
        /\ \A c \in Cookie : jar'[c] \in Value(c) \cup {None}
        /\ proved' \in [Request -> Id \cup {None}] /\ consents' \subseteq User
        /\ lapses' \in 0..MaxDetours
    BY DEF IInv, STypeOK, TypeOK
  <2>4. QED
    BY <1>1, <1>3, <2>1, <2>2, <2>3, TabsFine
<1>6. ProofsOK'
  <2>1. page[r].at = "idle" => ~(jar["proof"] # None /\ jar["proof"].req = r)
    BY DEF IInv, ProofsOK
  <2>2. QED
    BY <1>1, <1>2, <1>3, <2>1 DEF IInv, ProofsOK
<1>7. TokensOK'
  <2>1. SessionsNext = Sessions /\ CsrfsNext = Csrfs
    BY DEF SessionsNext, Sessions, CsrfsNext, Csrfs, InSetsNext, InSets
  <2>2. \A q \in Request : page'[q].at = "consent" => page'[q] = page[q]
    BY <1>1, <1>2 DEF Forms
  <2>3. TokensNext
    BY <2>1, <2>2, TokensStay
  <2>4. QED
    BY <2>3, TokensThen
<1>8. \A q \in Request : page'[q].at = "idle" => page[q].at = "idle"
  BY <1>1, <1>2
<1>9. QED
  BY <1>5, <1>6, <1>7, <1>8 DEF WebNext

\* A step that takes a cookie out of the jar, or lets its session grow old.
LEMMA JarMoves ==
    ASSUME IInv, jar' = [c \in Cookie |-> jar'[c]],
           \A c \in Cookie : jar'[c] \in Value(c) \cup {None},
           \/ jar'["session"] \in {jar["session"], None}
           \/ /\ jar["session"] # None
              /\ jar'["session"].sid = jar["session"].sid
              /\ jar'["session"].user = jar["session"].user,
           jar'["proof"] \in {jar["proof"], None}, jar'["csrf"] = jar["csrf"],
           lapses' \in 0..MaxDetours,
           UNCHANGED <<asked, page, reply, consents, proved, reopens>>
    PROVE  WebNext
<1>1. TypeOK' /\ RepliesOK' /\ RequestsOK'
  <2>1. \A q \in Request : TabFine(q)
    BY TabStays
  <2>2. /\ page' \in [Request -> Page] /\ reply' = [q \in Request |-> reply'[q]]
        /\ asked' \in [Request -> Ask \cup {None}] /\ proved' \in [Request -> Id \cup {None}]
        /\ consents' \subseteq User /\ reopens' \in 0..MaxDetours
    BY DEF IInv, STypeOK, TypeOK
  <2>3. QED
    BY <2>1, <2>2, TabsFine
<1>2. ProofsOK'
  BY DEF IInv, ProofsOK
<1>3. TokensOK'
  <2>1. CsrfsNext = Csrfs
    BY DEF CsrfsNext, Csrfs, InSetsNext, InSets
  <2>2. ASSUME NEW s \in SessionsNext PROVE \E z \in Sessions : z.sid = s.sid /\ z.user = s.user
    <3>1. CASE \E r \in Request : reply[r] # None /\ s = reply[r].set["session"]
      <4>1. s \in Sessions
        BY <2>2, <3>1 DEF SessionsNext, Sessions, InSets
      <4>2. QED
        BY <4>1
    <3>2. CASE s = jar'["session"]
      <4>1. s # None /\ s # Keep
        BY <2>2 DEF SessionsNext
      <4>2. jar["session"] # None /\ jar["session"] # Keep
        BY <3>2, <4>1, Tabs, Values, NoneAssumption DEF IInv, STypeOK, TypeOK
      <4>3. jar["session"] \in Sessions
        BY <4>2 DEF Sessions, InSets
      <4>4. QED
        BY <3>2, <4>1, <4>3
    <3>3. QED
      BY <2>2, <3>1, <3>2 DEF SessionsNext, InSetsNext
  <2>3. TokensNext
    BY <2>1, <2>2, TokensStay
  <2>4. QED
    BY <2>3, TokensThen
<1>4. QED
  BY <1>1, <1>2, <1>3 DEF WebNext

LEMMA ArriveSafe == ASSUME IInv, NEW r \in Request, Arrive(r) PROVE WebNext
<1>1. /\ reply[r] # None /\ reply[r].page \in Page
      /\ \A c \in Cookie : reply[r].set[c] \in Value(c) \cup {None, Keep}
      /\ reply[r].page.at \notin {"idle", "consent"}
      /\ reply[r].page.at \in Forms <=> reply[r].page.csrf # None
      /\ asked[r] = None => reply[r].page.at \notin InRequest
  BY DEF Arrive, IInv, STypeOK, TypeOK, RepliesOK, RequestsOK
<1>2. /\ page' \in [Request -> Page] /\ page'[r] = reply[r].page
      /\ \A q \in Request \ {r} : page'[q] = page[q]
  BY <1>1 DEF Arrive, IInv, STypeOK, TypeOK
<1>3. /\ reply' = [q \in Request |-> reply'[q]] /\ reply'[r] = None
      /\ \A q \in Request \ {r} : reply'[q] = reply[q]
  BY DEF Arrive, IInv, STypeOK, TypeOK
<1>4. /\ jar' = [c \in Cookie |-> jar'[c]]
      /\ \A c \in Cookie : jar'[c] = IF reply[r].set[c] = Keep THEN jar[c] ELSE reply[r].set[c]
  BY DEF Arrive
<1>5. TypeOK' /\ RepliesOK' /\ RequestsOK'
  <2>1. \A q \in Request \ {r} : TabFine(q)
    BY <1>2, <1>3, TabStays DEF Arrive
  <2>2. TabFine(r)
    BY <1>1, <1>2, <1>3 DEF TabFine, Arrive
  <2>3. \A c \in Cookie : jar'[c] \in Value(c) \cup {None}
    BY <1>1, <1>4 DEF IInv, STypeOK, TypeOK
  <2>4. /\ asked' \in [Request -> Ask \cup {None}] /\ proved' \in [Request -> Id \cup {None}]
        /\ consents' \subseteq User /\ lapses' \in 0..MaxDetours /\ reopens' \in 0..MaxDetours
    BY DEF Arrive, IInv, STypeOK, TypeOK
  <2>5. QED
    BY <1>2, <1>3, <1>4, <2>1, <2>2, <2>3, <2>4, TabsFine
<1>6. ProofsOK'
  <2> DEFINE z == reply[r].set["proof"]
  <2>1. /\ asked' = asked /\ proved' = proved
        /\ jar'["proof"] = IF z = Keep THEN jar["proof"] ELSE z
    BY <1>4, Values DEF Arrive
  <2>2. z \notin {None, Keep} => z.req = r /\ z.sid = proved[r]
    <3>1. z \notin {None, Keep} => z = [sid |-> proved[r], req |-> r]
      BY <1>1 DEF IInv, ProofsOK
    <3> HIDE DEF z
    <3>2. QED
      BY <3>1
  <2> HIDE DEF z
  <2>3. ASSUME NEW q \in Request, jar'["proof"] # None, jar'["proof"].req = q
        PROVE  /\ page'[q].at # "idle"
               /\ asked[q] # None /\ asked[q].prompt = "login" =>
                    \/ jar'["proof"].sid = proved[q]
                    \/ reply'[q] # None /\ reply'[q].set["proof"] # Keep
    <3>1. CASE z = Keep
      BY <1>1, <1>2, <1>3, <2>1, <2>3, <3>1 DEF z, IInv, ProofsOK
    <3>2. CASE z # Keep
      BY <1>1, <1>2, <2>1, <2>2, <2>3, <3>2
    <3>3. QED
      BY <3>1, <3>2
  <2>4. ASSUME NEW q \in Request, reply'[q] # None, reply'[q].set["proof"] \notin {None, Keep}
        PROVE  reply'[q].set["proof"] = [sid |-> proved[q], req |-> q]
    BY <1>3, <2>4 DEF IInv, ProofsOK
  <2>5. QED
    BY <2>1, <2>3, <2>4 DEF ProofsOK
<1>7. TokensOK'
  <2>1. \A c \in Cookie : InSetsNext(c) \subseteq InSets(c)
    BY <1>1, <1>3, <1>4 DEF InSetsNext, InSets
  <2>2. SessionsNext \subseteq Sessions /\ CsrfsNext \subseteq Csrfs
    BY <2>1, Values DEF SessionsNext, Sessions, CsrfsNext, Csrfs
  <2>3. \A q \in Request : page'[q].at = "consent" => page'[q] = page[q]
    BY <1>1, <1>2
  <2>4. TokensNext
    BY <2>2, <2>3, TokensStay
  <2>5. QED
    BY <2>4, TokensThen
<1>8. \A q \in Request : page'[q].at = "idle" => page[q].at = "idle"
  BY <1>1, <1>2
<1>9. QED
  BY <1>5, <1>6, <1>7, <1>8 DEF WebNext

LEMMA OpenSafe ==
    ASSUME IInv, NEW r \in Request, NEW ask \in Ask \cup {None}, Open(r, ask) PROVE WebNext
<1>1. PICK where \in {"toLogin", "authorize"} :
        /\ page' = [page EXCEPT ![r] = At(where)]
        /\ ask = None => where = "toLogin"
  BY DEF Open
<1>2. page[r].at = "idle" /\ reopens' \in 0..MaxDetours
  BY DEF Open, IInv, STypeOK, TypeOK
<1>3. where \in Gets \cup Ended /\ (ask = None => where \notin InRequest)
  BY <1>1 DEF Gets, InRequest
<1>4. QED
  BY <1>1, <1>2, <1>3, TabMoves DEF Open

LEMMA ReopenSafe == ASSUME IInv, NEW r \in Request, Reopen(r) PROVE WebNext
<1>1. asked[r] # None /\ asked' = [asked EXCEPT ![r] = asked[r]]
  BY Tabs DEF Reopen, InRequest
<1>2. reopens' \in 0..MaxDetours
  BY BoundsAssumption DEF Reopen, IInv, STypeOK, TypeOK
<1>3. "authorize" \in Gets \cup Ended /\ asked[r] \in Ask \cup {None}
  BY Tabs DEF Gets
<1>4. QED
  BY <1>1, <1>2, <1>3, TabMoves DEF Reopen

LEMMA LandsSafe == ASSUME IInv, NEW r \in Request, Lands(r) PROVE WebNext
<1>1. asked[r] # None /\ asked' = [asked EXCEPT ![r] = asked[r]]
  BY Tabs DEF Lands, Sends, InRequest
<1>2. "app" \in Gets \cup Ended /\ asked[r] \in Ask \cup {None} /\ reopens' \in 0..MaxDetours
  BY Tabs DEF Ended, Lands, IInv, STypeOK, TypeOK
<1>3. QED
  BY <1>1, <1>2, TabMoves DEF Lands

\* Taking a cookie out of the jar.
LEMMA Emptied ==
    ASSUME IInv, NEW c \in {"session", "proof", "pending"},
           jar' = [jar EXCEPT ![c] = None] \/ jar' = jar, lapses' \in 0..MaxDetours,
           UNCHANGED <<asked, page, reply, consents, proved, reopens>>
    PROVE  WebNext
<1>1. /\ jar = [d \in Cookie |-> jar[d]] /\ c \in Cookie
      /\ \A d \in Cookie : jar[d] \in Value(d) \cup {None}
  BY Values DEF IInv, STypeOK, TypeOK
<1>2. /\ jar' = [d \in Cookie |-> jar'[d]]
      /\ \A d \in Cookie : jar'[d] = jar[d] \/ (d = c /\ jar'[d] = None)
  BY <1>1
<1>3. /\ \A d \in Cookie : jar'[d] \in Value(d) \cup {None}
      /\ jar'["session"] \in {jar["session"], None}
      /\ jar'["proof"] \in {jar["proof"], None} /\ jar'["csrf"] = jar["csrf"]
  BY <1>1, <1>2, Values
<1>4. QED
  BY <1>2, <1>3, JarMoves

LEMMA AgeSafe == ASSUME IInv, Age PROVE WebNext
<1>1. /\ jar = [d \in Cookie |-> jar[d]]
      /\ \A d \in Cookie : jar[d] \in Value(d) \cup {None}
      /\ jar["session"] \in Session
  BY Values DEF Age, IInv, STypeOK, TypeOK
<1>2. jar' = [jar EXCEPT !["session"] = [jar["session"] EXCEPT !.old = TRUE]]
  BY DEF Age
<1>3. /\ jar' = [d \in Cookie |-> jar'[d]]
      /\ jar'["session"] = [jar["session"] EXCEPT !.old = TRUE]
      /\ \A d \in Cookie \ {"session"} : jar'[d] = jar[d]
  BY <1>1, <1>2, Values
<1>4. /\ jar'["session"] \in Session
      /\ jar'["session"].sid = jar["session"].sid
      /\ jar'["session"].user = jar["session"].user
  BY <1>1, <1>3 DEF Session
<1>5. /\ \A d \in Cookie : jar'[d] \in Value(d) \cup {None}
      /\ jar'["proof"] = jar["proof"] /\ jar'["csrf"] = jar["csrf"]
  BY <1>1, <1>3, <1>4, Values
<1>6. jar["session"] # None /\ lapses' \in 0..MaxDetours
  BY DEF Age, IInv, STypeOK, TypeOK
<1>7. QED
  BY <1>3, <1>4, <1>5, <1>6, JarMoves DEF Age

LEMMA ServerSafe == ASSUME IInv, ServerStep PROVE WebNext
<1>1. CASE \E r \in Request : Open(r, None) \/ Continue(r) \/ Reopen(r)
  <2>1. PICK r \in Request : Open(r, None) \/ Continue(r) \/ Reopen(r)
    BY <1>1
  <2>2. CASE Open(r, None)
    BY <2>2, OpenSafe
  <2>3. CASE Reopen(r)
    BY <2>3, ReopenSafe
  <2>4. CASE Continue(r)
    <3>1. Arrive(r) => WebNext
      BY ArriveSafe
    <3>2. authorize(r) \/ login_page(r) \/ mfa_page(r) \/ mfa_submit(r) => Answered(r)
      BY AuthorizeAnswers, LoginPageAnswers, SecondStepAnswers
    <3>3. (\E u \in User : login_submit(r, u)) => Answered(r)
      BY LoginAnswers
    <3>4. (\E allow \in BOOLEAN : authorize_consent(r, allow)) => Answered(r)
      BY ConsentAnswers
    <3>5. Answered(r) => WebNext
      BY AnsweredSafe
    <3>6. QED
      BY <2>4, <3>1, <3>2, <3>3, <3>4, <3>5 DEF Continue
  <2>5. QED
    BY <2>1, <2>2, <2>3, <2>4
<1>2. CASE Lapse("session") \/ Lapse("proof")
  <2>1. PICK c \in {"session", "proof"} : Lapse(c)
    BY <1>2
  <2>2. lapses' \in 0..MaxDetours
    BY <2>1, BoundsAssumption DEF Lapse, IInv, STypeOK, TypeOK
  <2>3. QED
    BY <2>1, <2>2, Emptied DEF Lapse
<1>3. CASE PendingExpires
  <2>1. lapses' \in 0..MaxDetours
    BY <1>3 DEF PendingExpires, IInv, STypeOK, TypeOK
  <2>2. QED
    BY <1>3, <2>1, Emptied DEF PendingExpires
<1>4. QED
  BY <1>1, <1>2, <1>3, AgeSafe DEF ServerStep

(***************************************************************************)
(* The steps of the application, and the theorems.                         *)
(***************************************************************************)
AppNext ==
    /\ flow' \in Request \cup {None} /\ latest' \in Request \cup {None}
    /\ local' \in User \cup {None}
    /\ calling' \in [Call -> CallJob \cup {None}]
    /\ signIns' \in [Request -> Nat]
    /\ FlowOK'

\* FlowOK, callback by callback
LEMMA Flows ==
    ASSUME IInv
    PROVE  /\ flow \in Request \cup {None} /\ latest \in Request \cup {None}
           /\ local \in User \cup {None}
           /\ calling \in [Call -> CallJob \cup {None}]
           /\ signIns \in [Request -> Nat]
           /\ flow # None => latest = flow /\ signIns[flow] = 0
           /\ \A c \in Call : calling[c] # None =>
                /\ calling[c] \in CallJob
                /\ calling[c].session = "same" =>
                     latest = calling[c].req /\ signIns[calling[c].req] = 0
                /\ page[calling[c].req].at # "idle"
           /\ \A r \in Request : page[r].at = "idle" => signIns[r] = 0
<1>1. /\ flow \in Request \cup {None} /\ latest \in Request \cup {None}
      /\ local \in User \cup {None}
      /\ calling \in [Call -> CallJob \cup {None}]
      /\ signIns \in [Request -> Nat]
      /\ FlowOK
  BY DEF IInv, STypeOK
<1>2. ASSUME NEW c \in Call, calling[c] # None
      PROVE  /\ calling[c] \in CallJob
             /\ calling[c].session = "same" =>
                  latest = calling[c].req /\ signIns[calling[c].req] = 0
             /\ page[calling[c].req].at # "idle"
  <2>1. calling[c] \in CallJob /\ calling[c].req \in Request
    BY <1>1, <1>2 DEF CallJob
  <2>2. c \in Calls(calling[c].req)
    BY <1>2, <2>1 DEF Calls, Under
  <2>3. QED
    BY <1>1, <1>2, <2>1, <2>2 DEF FlowOK, Under
<1>3. QED
  BY <1>1, <1>2 DEF FlowOK

LEMMA FlowsNext ==
    ASSUME flow' # None => latest' = flow' /\ signIns'[flow'] = 0,
           \A c \in Call : calling'[c] # None =>
             /\ calling'[c].session = "same" =>
                  latest' = calling'[c].req /\ signIns'[calling'[c].req] = 0
             /\ page'[calling'[c].req].at # "idle",
           \A r \in Request : page'[r].at = "idle" => signIns'[r] = 0
    PROVE  FlowOK'
BY DEF FlowOK, Under, Calls

\* Nothing new: the flow stays or is used up, a callback goes on or ends.
LEMMA AppShrinks ==
    ASSUME IInv, UNCHANGED <<local, latest, signIns>>, flow' \in {flow, None},
           calling' \in [Call -> CallJob \cup {None}],
           \A c \in Call : calling'[c] \in {calling[c], None},
           \A q \in Request : page'[q].at = "idle" => page[q].at = "idle"
    PROVE  AppNext
<1>1. \A c \in Call : calling'[c] # None =>
        /\ calling'[c] = calling[c] /\ calling[c] \in CallJob
        /\ calling[c].req \in Request
  BY Flows DEF CallJob
<1>2. FlowOK'
  BY <1>1, Flows, FlowsNext
<1>3. QED
  BY <1>2, Flows DEF AppNext

\* The session is replaced under the callbacks under way; only a request that has left
\* "idle" may have signed in.
LEMMA AppOrphans ==
    ASSUME IInv, flow' = None, latest' \in Request \cup {None}, local' \in User \cup {None},
           calling' \in [Call -> CallJob \cup {None}],
           \A c \in Call : calling'[c] = None \/ calling'[c] = Orphaned[c],
           signIns' \in [Request -> Nat],
           \A q \in Request : page'[q].at = "idle" => page[q].at = "idle",
           \A q \in Request : signIns'[q] = signIns[q] \/ page[q].at # "idle"
    PROVE  AppNext
<1>1. ASSUME NEW c \in Call, calling'[c] # None
      PROVE  /\ calling[c] \in CallJob /\ calling'[c].session = "gone"
             /\ calling'[c].req = calling[c].req /\ calling[c].req \in Request
             /\ calling[c] # None
  <2>1. calling[c] # None /\ calling'[c] = [calling[c] EXCEPT !.session = "gone"]
    BY <1>1 DEF Orphaned, Under
  <2>2. calling[c] \in CallJob
    BY <2>1, Flows
  <2>3. QED
    BY <2>1, <2>2 DEF CallJob
<1>2. FlowOK'
  BY <1>1, Flows, FlowsNext
<1>3. QED
  BY <1>2 DEF AppNext

LEMMA AppStays ==
    ASSUME IInv, UNCHANGED app,
           \A q \in Request : page'[q].at = "idle" => page[q].at = "idle"
    PROVE  AppNext
BY AppShrinks, Flows DEF app

LEMMA OrphanedTyped ==
    ASSUME IInv
    PROVE  Orphaned \in [Call -> CallJob \cup {None}]
<1>1. ASSUME NEW c \in Call, calling[c] # None
      PROVE  [calling[c] EXCEPT !.session = "gone"] \in CallJob
  BY <1>1, Flows DEF CallJob
<1>2. QED
  BY <1>1 DEF Orphaned, Under

LEMMA StartSafe ==
    ASSUME IInv, NEW r \in Request, NEW ask \in Ask, Start(r, ask)
    PROVE  WebNext /\ AppNext
<1>1. WebNext
  BY OpenSafe DEF Start
<1>2. page[r].at = "idle" /\ signIns[r] = 0
  BY Flows DEF Start, Open
<1>3. /\ flow' = r /\ latest' = r /\ local' = local /\ signIns' = signIns
      /\ calling' = Overtaken
  BY DEF Start
<1>4. ASSUME NEW c \in Call
      PROVE  /\ calling'[c] \in CallJob \cup {None}
             /\ calling'[c] # None =>
                  /\ calling[c] # None /\ calling[c] \in CallJob
                  /\ calling'[c].session # "same" /\ calling'[c].req = calling[c].req
                  /\ calling[c].req \in Request
  <2>1. calling'[c] = IF calling[c] # None /\ calling[c].session = "same"
                      THEN [calling[c] EXCEPT !.session = "changed"] ELSE calling[c]
    BY <1>3 DEF Overtaken, Under
  <2>2. calling[c] # None => calling[c] \in CallJob
    BY Flows
  <2>3. QED
    BY <2>1, <2>2, CallAssumption DEF CallJob
<1>5. FlowOK'
  <2>1. \A q \in Request : page'[q].at = "idle" => page[q].at = "idle"
    BY <1>1 DEF WebNext
  <2>2. QED
    BY <1>2, <1>3, <1>4, <2>1, Flows, FlowsNext
<1>6. calling' \in [Call -> CallJob \cup {None}]
  BY <1>3, <1>4 DEF Overtaken
<1>7. QED
  BY <1>1, <1>3, <1>5, <1>6, Flows DEF AppNext

LEMMA CallbackSafe ==
    ASSUME IInv, NEW r \in Request, Callback(r)
    PROVE  WebNext /\ AppNext
<1>1. WebNext
  BY LandsSafe DEF Callback, CallbackBegins, CallbackRejects
<1>2. \A q \in Request : page'[q].at = "idle" => page[q].at = "idle"
  BY <1>1 DEF WebNext
<1>3. CASE CallbackRejects(r)
  BY <1>1, <1>2, <1>3, AppShrinks, Flows DEF CallbackRejects
<1>4. ASSUME NEW c \in Call, CallbackBegins(r, c) PROVE AppNext
  <2> DEFINE job == [req |-> r, user |-> page[r].user, session |-> "same"]
  <2>1. job \in CallJob /\ job.req = r
    BY Tabs DEF CallJob, Page
  <2> HIDE DEF job
  <2>2. /\ calling' = [calling EXCEPT ![c] = job]
        /\ flow = r /\ r # None /\ page[r].at # "idle"
        /\ UNCHANGED <<flow, local, latest, signIns>>
    BY <1>4, NoneAssumption DEF CallbackBegins, job
  <2>3. calling' \in [Call -> CallJob \cup {None}]
    BY <2>1, <2>2, Flows
  <2>4. /\ calling'[c] = job
        /\ \A d \in Call \ {c} : calling'[d] = calling[d]
    BY <2>2, Flows
  <2>5. ASSUME NEW d \in Call, calling'[d] # None
        PROVE  /\ calling'[d].session = "same" =>
                    latest' = calling'[d].req /\ signIns'[calling'[d].req] = 0
               /\ page'[calling'[d].req].at # "idle"
    <3>1. CASE d = c
      BY <1>2, <2>1, <2>2, <2>4, <3>1, Flows
    <3>2. CASE d # c
      <4>1. calling'[d] = calling[d] /\ calling[d] \in CallJob /\ calling[d].req \in Request
        BY <2>4, <2>5, <3>2, Flows DEF CallJob
      <4>2. QED
        BY <1>2, <2>2, <2>5, <4>1, Flows
    <3>3. QED
      BY <3>1, <3>2
  <2>6. FlowOK'
    BY <1>2, <2>2, <2>5, Flows, FlowsNext
  <2>7. QED
    BY <2>2, <2>3, <2>6, Flows DEF AppNext
<1>5. QED
  BY <1>1, <1>3, <1>4 DEF Callback

\* What a callback does after its exchange leaves the service alone.
LEMMA WebStays == ASSUME IInv, UNCHANGED web PROVE WebNext
<1>1. lapses' \in 0..MaxDetours
  BY DEF web, IInv, STypeOK, TypeOK
<1>2. QED
  BY <1>1, Emptied DEF web

LEMMA ReturnsSafe ==
    ASSUME IInv, NEW c \in Call, Returns(c)
    PROVE  WebNext /\ AppNext
<1>1. WebNext
  BY WebStays DEF Returns, CallbackSignsIn, CallbackFails
<1>2. \A q \in Request : page'[q].at = "idle" => page[q].at = "idle"
  BY <1>1 DEF WebNext
<1>3. calling[c] # None
  BY DEF Returns, CallbackSignsIn, CallbackFails, Under
<1>4. calling[c] \in CallJob /\ page[calling[c].req].at # "idle"
  BY <1>3, Flows
<1>5. CASE CallbackSignsIn(c)
  <2>1. /\ flow' = None /\ latest' = latest /\ local' = calling[c].user
        /\ calling' = [Orphaned EXCEPT ![c] = None]
        /\ signIns' = [signIns EXCEPT ![calling[c].req] = @ + 1]
    BY <1>5 DEF CallbackSignsIn
  <2>2. /\ calling' \in [Call -> CallJob \cup {None}]
        /\ \A d \in Call : calling'[d] = None \/ calling'[d] = Orphaned[d]
    BY <2>1, OrphanedTyped
  <2>3. local' \in User \cup {None} /\ calling[c].req \in Request
    BY <1>4, <2>1 DEF CallJob
  <2>4. /\ signIns' \in [Request -> Nat]
        /\ \A q \in Request : signIns'[q] = signIns[q] \/ q = calling[c].req
    BY <2>1, <2>3, Flows
  <2>5. QED
    BY <1>1, <1>2, <1>4, <2>1, <2>2, <2>3, <2>4, AppOrphans, Flows
<1>6. CASE CallbackFails(c)
  <2>1. /\ calling' = [calling EXCEPT ![c] = None] /\ flow' \in {flow, None}
        /\ UNCHANGED <<local, latest, signIns>>
    BY <1>6 DEF CallbackFails
  <2>2. /\ calling' \in [Call -> CallJob \cup {None}]
        /\ \A d \in Call : calling'[d] \in {calling[d], None}
    BY <2>1, Flows
  <2>3. QED
    BY <1>1, <1>2, <2>1, <2>2, AppShrinks
<1>7. QED
  BY <1>5, <1>6 DEF Returns

LEMMA LogoutSafe ==
    ASSUME IInv, NEW global \in BOOLEAN, Logout(global)
    PROVE  WebNext /\ AppNext
<1>1. lapses' \in 0..MaxDetours
  BY DEF Logout, IInv, STypeOK, TypeOK
<1>2. WebNext
  BY <1>1, Emptied DEF Logout
<1>3. AppNext
  BY <1>2, AppOrphans, OrphanedTyped, Flows DEF Logout, WebNext
<1>4. QED
  BY <1>2, <1>3

LEMMA StepSafe == ASSUME IInv, SNext \/ UNCHANGED vars PROVE IInv'
<1>1. WebNext /\ AppNext
  <2>1. CASE ServerStep /\ UNCHANGED app
    BY <2>1, ServerSafe, AppStays DEF WebNext
  <2>2. CASE \E r \in Request : (\E ask \in Ask : Start(r, ask)) \/ Callback(r)
    BY <2>2, StartSafe, CallbackSafe
  <2>3. CASE \E c \in Call : Returns(c)
    BY <2>3, ReturnsSafe
  <2>4. CASE \E global \in BOOLEAN : Logout(global)
    BY <2>4, LogoutSafe
  <2>5. CASE UNCHANGED vars
    BY <2>5, WebStays, AppStays DEF vars, WebNext
  <2>6. QED
    BY <2>1, <2>2, <2>3, <2>4, <2>5 DEF SNext
<1>2. STypeOK'
  BY <1>1 DEF WebNext, AppNext, STypeOK
<1>3. QED
  BY <1>1, <1>2 DEF WebNext, AppNext, IInv

LEMMA InitSafe == SInit => IInv
<1>1. SUFFICES ASSUME SInit PROVE IInv
  OBVIOUS
<1>2. /\ \A r \in Request : asked[r] = None /\ page[r] = At("idle") /\ reply[r] = None
                             /\ proved[r] = None /\ signIns[r] = 0
      /\ \A c \in Cookie : jar[c] = None
      /\ asked \in [Request -> {None}] /\ page \in [Request -> {At("idle")}]
      /\ reply = [r \in Request |-> reply[r]] /\ jar = [c \in Cookie |-> jar[c]]
      /\ proved \in [Request -> {None}] /\ signIns \in [Request -> {0}]
      /\ consents = {} /\ lapses = 0 /\ reopens = 0
      /\ flow = None /\ local = None /\ latest = None
      /\ calling \in [Call -> {None}] /\ Under = {}
  BY <1>1 DEF SInit, Init, NoCookies, Under
<1>3. /\ At("idle") \in Page /\ At("idle").at = "idle" /\ At("idle").csrf = None
      /\ "idle" \notin Forms /\ "idle" \notin InRequest
  BY DEF At, Page, Forms, InRequest
<1>4. TypeOK
  <2>1. page \in [Request -> Page] /\ asked \in [Request -> Ask \cup {None}]
        /\ proved \in [Request -> Id \cup {None}]
    BY <1>2, <1>3
  <2>2. 0 \in 0..MaxDetours /\ 0 \in 0..MaxDetours
    BY BoundsAssumption
  <2>3. QED
    BY <1>2, <1>3, <2>1, <2>2 DEF TypeOK
<1>5. STypeOK
  BY <1>2, <1>4 DEF STypeOK
<1>6. RequestsOK /\ RepliesOK
  BY <1>2, <1>3 DEF RequestsOK, RepliesOK
<1>7. ProofsOK
  BY <1>2, Values DEF ProofsOK
<1>8. TokensOK
  <2>1. Sessions = {}
    BY <1>2, Values DEF Sessions, InSets
  <2>2. QED
    BY <1>2, <1>3, <2>1 DEF TokensOK
<1>9. FlowOK
  BY <1>2 DEF FlowOK, Calls
<1>10. QED
  BY <1>5, <1>6, <1>7, <1>8, <1>9 DEF IInv

\* The inductive invariant: cookies, pages and answers under way agree on which login
\* a proof stands for, which session a form was rendered in and whose session it is,
\* and the application's flow is the one started last.
THEOREM Invariance == SSpec => []IInv
<1>1. SInit => IInv
  BY InitSafe
<1>2. IInv /\ [SNext]_vars => IInv'
  BY StepSafe
<1>3. QED
  BY <1>1, <1>2, PTL DEF SSpec

\* What the browser, its tabs, the service and the application hold is of its type.
THEOREM TypeCorrect == SSpec => []STypeOK
<1>1. IInv => STypeOK
  BY DEF IInv
<1>2. QED
  BY <1>1, Invariance, PTL

\* An answer to one tab leaves the others alone.
LEMMA AnswerElsewhere ==
    ASSUME IInv, NEW r \in Request, NEW q \in Request \ {r}, NEW p, NEW set,
           Answer(q, p, set)
    PROVE  page'[r] = page[r] /\ reply'[r] = reply[r]
<1>1. page \in [Request -> Page] /\ reply = [x \in Request |-> reply[x]]
  BY DEF IInv, STypeOK, TypeOK
<1>2. QED
  BY <1>1 DEF Answer

\* Only the authorize endpoint answers a tab that waits for it.
LEMMA OthersStay ==
    ASSUME IInv, NEW r \in Request, Sends(r, "authorize"), SNext, ~authorize(r)
    PROVE  page'[r] = page[r] /\ reply'[r] = reply[r]
<1> DEFINE Stays == page'[r] = page[r] /\ reply'[r] = reply[r]
<1>1. page \in [Request -> Page] /\ reply = [x \in Request |-> reply[x]]
      /\ page[r].at = "authorize" /\ reply[r] = None
  BY DEF IInv, STypeOK, TypeOK, Sends
<1>2. ASSUME NEW q \in Request, Continue(q) PROVE Stays
  <2>1. CASE q = r
    BY <1>1, <1>2, <2>1 DEF Continue, login_page, mfa_page, mfa_submit, login_submit,
         authorize_consent, Arrive, Sends
  <2>2. ASSUME q # r, Arrive(q) PROVE Stays
    BY <1>1, <2>2 DEF Arrive
  <2>3. ASSUME q # r, authorize(q) PROVE Stays
    BY <2>3, AnswerElsewhere
       DEF authorize, AskLogin, AskConsent, GiveCode, Redirect, render
  <2>4. ASSUME q # r, login_page(q) \/ mfa_page(q) PROVE Stays
    BY <2>4, AnswerElsewhere DEF login_page, mfa_page, StartOver, Redirect, render
  <2>5. ASSUME q # r, mfa_submit(q) PROVE Stays
    BY <2>5, AnswerElsewhere DEF mfa_submit, StartOver, Redirect, SignsIn
  <2>6. ASSUME q # r, NEW u \in User, login_submit(q, u) PROVE Stays
    BY <2>6, AnswerElsewhere DEF login_submit, Redirect, SignsIn
  <2>7. ASSUME q # r, NEW allow \in BOOLEAN, authorize_consent(q, allow) PROVE Stays
    BY <2>7, AnswerElsewhere DEF authorize_consent, Redirect
  <2>8. QED
    BY <1>2, <2>1, <2>2, <2>3, <2>4, <2>5, <2>6, <2>7 DEF Continue
<1>3. ASSUME NEW q \in Request, NEW ask, Open(q, ask) PROVE Stays
  BY <1>1, <1>3 DEF Open
<1>4. ASSUME NEW q \in Request, Reopen(q) \/ Lands(q) PROVE Stays
  BY <1>1, <1>4 DEF Reopen, Lands, Sends
<1>5. ASSUME UNCHANGED <<page, reply>> PROVE Stays
  BY <1>5
<1>6. Lapse("session") \/ Lapse("proof") \/ Age \/ PendingExpires
        \/ (\E global \in BOOLEAN : Logout(global)) \/ (\E c \in Call : Returns(c))
          => UNCHANGED <<page, reply>>
  BY DEF Lapse, Age, PendingExpires, Logout, Returns, CallbackSignsIn, CallbackFails, web
<1>7. ServerStep => Stays
  BY <1>2, <1>3, <1>4, <1>5, <1>6 DEF ServerStep
<1>8. ASSUME NEW q \in Request, (\E ask \in Ask : Start(q, ask)) \/ Callback(q) PROVE Stays
  BY <1>3, <1>4, <1>8 DEF Start, Callback, CallbackBegins, CallbackRejects
<1>9. QED
  BY <1>5, <1>6, <1>7, <1>8 DEF SNext

LEMMA AnsweredByLogin ==
    ASSUME IInv, NEW r \in Request, SNext, Answers(r), asked[r].prompt = "login"
    PROVE  jar["session"].sid = proved[r]
<1>1. /\ Sends(r, "authorize") /\ page[r].at = "authorize" /\ reply[r] = None
      /\ page \in [Request -> Page] /\ reply = [x \in Request |-> reply[x]]
      /\ asked[r] # None
  BY DEF Answers, Sends, InRequest, IInv, STypeOK, TypeOK, RequestsOK
<1>2. authorize(r)
  BY <1>1, OthersStay DEF Answers
<1>3. GiveCode(r)
  <2>1. ASSUME NEW where \in {"error", "toLogin"}, NEW set, Answer(r, At(where), set)
        PROVE FALSE
    BY <1>1, <2>1 DEF Answer, At, Answers
  <2>2. ~AskLogin(r)
    BY <2>1 DEF AskLogin, Redirect
  <2>3. ASSUME NEW p, NEW set, p.at = "consent", Answer(r, p, set) PROVE FALSE
    BY <1>1, <2>3 DEF Answer, Answers
  <2>4. ~AskConsent(r)
    BY <2>1, <2>3 DEF AskConsent, Redirect, render
  <2>5. QED
    BY <1>2, <2>2, <2>4 DEF authorize
<1>4. completed_reauth(r) /\ jar["session"] # None
  BY <1>3 DEF GiveCode, needs_login
<1>5. jar["session"] \in Session /\ None \notin Proof
  BY <1>4, Tabs, NoneAssumption
<1>6. /\ jar["proof"] = [sid |-> jar["session"].sid, req |-> r]
      /\ jar["proof"] \in Proof
  BY <1>4, <1>5 DEF completed_reauth, Session, Proof
<1>7. jar["proof"] # None /\ jar["proof"].req = r /\ jar["proof"].sid = jar["session"].sid
  BY <1>5, <1>6
<1>8. QED
  BY <1>1, <1>7 DEF IInv, ProofsOK

\* A code for a request with prompt=login is given in the session that the last login
\* for that very request made.
THEOREM LoginIsFresh == SSpec => FreshLogin
<1>1. IInv /\ [SNext]_vars =>
        [\A r \in Request :
           Answers(r) /\ asked[r].prompt = "login" => jar["session"].sid = proved[r]]_web
  BY AnsweredByLogin DEF vars, web
<1>2. QED
  BY <1>1, Invariance, PTL DEF SSpec, FreshLogin

LEMMA ConsentByItsPage ==
    ASSUME IInv, SNext, NEW u \in consents' \ consents
    PROVE  \E r \in Request : Sends(r, "consent") /\ page[r].user = u
<1>1. consents' # consents
  OBVIOUS
<1>2. PICK r \in Request, allow \in BOOLEAN : authorize_consent(r, allow)
  <2>1. ASSUME NEW r \in Request, Callback(r) \/ (\E ask \in Ask : Start(r, ask)) PROVE FALSE
    BY <1>1, <2>1 DEF Callback, CallbackBegins, CallbackRejects, Lands, Start, Open
  <2>2. ~(\E global \in BOOLEAN : Logout(global)) /\ ~(\E c \in Call : Returns(c))
    BY <1>1 DEF Logout, Returns, CallbackSignsIn, CallbackFails, web
  <2>3. PICK r \in Request : Continue(r)
    BY <1>1, <2>1, <2>2 DEF SNext, ServerStep, Open, Reopen, Lapse, Age, PendingExpires
  <2>4. QED
    BY <1>1, <2>3 DEF Continue, authorize, login_page, mfa_page, mfa_submit, login_submit,
         Arrive
<1>3. csrf_protect(r) /\ u = jar["session"].user /\ Sends(r, "consent")
  BY <1>2 DEF authorize_consent
<1>4. page[r].user = u
  BY <1>3, ConsentSession DEF Sends
<1>5. QED
  BY <1>3, <1>4

\* Consent is recorded for the account whose consent page was answered.
THEOREM ConsentIsAnswered == SSpec => ConsentWasShown
<1>1. IInv /\ [SNext]_vars =>
        [\A u \in consents' \ consents :
           \E r \in Request : Sends(r, "consent") /\ page[r].user = u]_web
  BY ConsentByItsPage DEF vars, web
<1>2. QED
  BY <1>1, Invariance, PTL DEF SSpec, ConsentWasShown

LEMMA SignedInByTheLatest ==
    ASSUME IInv, SNext, NEW r \in Request, signIns'[r] > signIns[r]
    PROVE  \/ latest = r /\ signIns[r] = 0
           \/ \E c \in Calls(r) : calling'[c] = None /\ calling[c].session # "same"
<1>1. signIns' # signIns /\ signIns \in [Request -> Nat]
  BY Flows
<1>2. PICK c \in Call : CallbackSignsIn(c)
  BY <1>1 DEF SNext, app, Start, Callback, CallbackBegins, CallbackRejects, Returns,
       CallbackFails, Logout
<1>3. c \in Under /\ calling[c] # None /\ calling[c] \in CallJob
  BY <1>2, Flows DEF CallbackSignsIn, Under
<1>4. r = calling[c].req
  <2>1. signIns' = [signIns EXCEPT ![calling[c].req] = @ + 1]
    BY <1>2 DEF CallbackSignsIn
  <2>2. QED
    BY <1>1, <2>1
<1>5. calling'[c] = None
  <2>1. calling' = [Orphaned EXCEPT ![c] = None]
    BY <1>2 DEF CallbackSignsIn
  <2>2. QED
    BY <2>1, OrphanedTyped
<1>6. c \in Calls(r)
  BY <1>3, <1>4 DEF Calls
<1>7. CASE calling[c].session = "same"
  BY <1>3, <1>4, <1>7, Flows
<1>8. QED
  BY <1>5, <1>6, <1>7

\* A callback signs somebody in for the request started last, and for it only once;
\* the exception is a callback whose session has got another flow or was replaced, by
\* a start, a sign-out or another callback, since it took its flow out.
THEOREM LatestSignsInOnce == SSpec => SignsInLatestOnce
<1>1. IInv /\ [SNext]_vars =>
        [\A r \in Request : signIns'[r] > signIns[r] =>
           \/ latest = r /\ signIns[r] = 0
           \/ \E c \in Calls(r) : calling'[c] = None /\ calling[c].session # "same"]_vars
  BY SignedInByTheLatest
<1>2. QED
  BY <1>1, Invariance, PTL DEF SSpec, SignsInLatestOnce
=============================================================================
