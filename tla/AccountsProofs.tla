---------------------------- MODULE AccountsProofs ----------------------------
(* Theorems about Accounts, for any requests, names, addresses, clients,    *)
(* limits and clocks.                                                       *)
EXTENDS Accounts, FiniteSetTheorems, TLAPS

----------------------------------------------------------------------------
(* Confirmation links *)

Places == Names \cup {"new", "created", "undone", "lost"}

(* The parts of the type invariant the links rest on *)
LinkTypes ==
    /\ rows \in [Keys -> Row \cup {None}]
    /\ signup \in [Signups -> Places]
    /\ spent \in [Signups -> Nat]

Made(k, r) == rows[k] # None /\ rows[k].maker = r

(* A request makes one row, under the name it then holds, and none that     *)
(* outlives its 503.                                                        *)
OneRowEach ==
    \A r \in Signups, k \in Keys :
        Made(k, r) =>
            /\ signup[r] \notin {"new", "undone"}
            /\ signup[r] \in Names => signup[r] = k
            /\ \A j \in Keys : Made(j, r) => j = k

(* A row waits for the link of its own maker, unopened, or was opened once. *)
LinkIsItsOwn ==
    \A k \in Keys :
        rows[k] # None =>
            \/ /\ rows[k].link = rows[k].maker /\ spent[rows[k].maker] = 0
               /\ ~rows[k].verified
            \/ rows[k].link = None /\ spent[rows[k].maker] = 1

OpenedOnce ==
    \A r \in Signups : spent[r] <= 1 /\ (signup[r] = "new" => spent[r] = 0)

LinkInv == LinkTypes /\ OneRowEach /\ LinkIsItsOwn /\ OpenedOnce

linkVars == <<rows, signup, spent>>

LEMMA InitLinkInv == Init => LinkInv
BY DEF Init, LinkInv, LinkTypes, OneRowEach, LinkIsItsOwn, OpenedOnce, Made, Places

(* The name a request registers is free, so its row is the only one it has. *)
LEMMA RegisterKeepsLinks ==
    ASSUME LinkInv, NEW r \in Signups, NEW c \in Clients, NEW n \in Names,
           NEW a \in Addresses, Register(r, c, n, a)
    PROVE  LinkInv'
<1> DEFINE k == Lower[n]
           row == [maker |-> r, email |-> a, verified |-> FALSE,
                   disabled |-> FALSE, link |-> r]
<1>1. /\ k \in Names /\ k \in Keys /\ signup[r] = "new" /\ rows[k] = None
      /\ k \notin {"new", "undone"}
    BY AccountsAssumption DEF Register, Taken, Keys
<1>2. rows' = [rows EXCEPT ![k] = row] /\ signup' = [signup EXCEPT ![r] = k]
      /\ spent' = spent
    BY DEF Register, Create
<1>3. row \in Row /\ row.maker = r /\ row.link = r /\ row.verified = FALSE
    BY DEF Row
<1> HIDE DEF row, k
<1>4. LinkTypes'
    BY <1>1, <1>2, <1>3 DEF LinkInv, LinkTypes, Places
<1>5. spent[r] = 0 /\ \A j \in Keys : ~Made(j, r)
    BY <1>1 DEF LinkInv, OpenedOnce, OneRowEach
<1>6. /\ rows'[k] = row /\ signup'[r] = k
      /\ \A j \in Keys \ {k} : rows'[j] = rows[j]
      /\ \A q \in Signups \ {r} : signup'[q] = signup[q]
    BY <1>1, <1>2 DEF LinkInv, LinkTypes
<1>7. OneRowEach'
  <2> SUFFICES ASSUME NEW q \in Signups, NEW j \in Keys, Made(j, q)'
               PROVE  /\ signup'[q] \notin {"new", "undone"}
                      /\ signup'[q] \in Names => signup'[q] = j
                      /\ \A i \in Keys : Made(i, q)' => i = j
      BY DEF OneRowEach
  <2>1. CASE q = r
      BY <2>1, <1>1, <1>3, <1>5, <1>6 DEF Made
  <2>2. CASE q # r
    <3>1. j # k /\ Made(j, q) /\ \A i \in Keys : Made(i, q)' => Made(i, q)
        BY <2>2, <1>3, <1>6 DEF Made
    <3> QED
        BY <3>1, <2>2, <1>6 DEF LinkInv, OneRowEach
  <2> QED
      BY <2>1, <2>2
<1>8. LinkIsItsOwn'
    BY <1>2, <1>3, <1>5, <1>6 DEF LinkInv, LinkIsItsOwn
<1>9. OpenedOnce'
    BY <1>1, <1>2, <1>6 DEF LinkInv, OpenedOnce
<1> QED
    BY <1>4, <1>7, <1>8, <1>9 DEF LinkInv

(* A row that goes takes nothing with it. *)
LEMMA DeletingKeepsLinks ==
    ASSUME LinkInv, NEW k \in Keys, Delete(k), spent' = spent,
           signup' \in [Signups -> Places],
           \A r \in Signups :
              \/ signup'[r] = signup[r]
              \/ signup'[r] \notin Names \cup {"new", "undone"}
              \/ signup'[r] = "undone" /\ \A j \in Keys : Made(j, r) => j = k
    PROVE  LinkInv'
<1>1. LinkTypes'
    BY DEF LinkInv, LinkTypes, Delete
<1>2. \A j \in Keys : rows'[j] # None => j # k /\ rows'[j] = rows[j]
    BY DEF LinkInv, LinkTypes, Delete
<1>3. OneRowEach'
  <2> SUFFICES ASSUME NEW q \in Signups, NEW j \in Keys, Made(j, q)'
               PROVE  /\ signup'[q] \notin {"new", "undone"}
                      /\ signup'[q] \in Names => signup'[q] = j
                      /\ \A i \in Keys : Made(i, q)' => i = j
      BY DEF OneRowEach
  <2>1. j # k /\ Made(j, q) /\ \A i \in Keys : Made(i, q)' => Made(i, q)
      BY <1>2 DEF Made
  <2> QED
      BY <2>1 DEF LinkInv, OneRowEach
<1>4. LinkIsItsOwn'
    BY <1>2 DEF LinkInv, LinkIsItsOwn
<1>5. OpenedOnce'
    BY DEF LinkInv, OpenedOnce
<1> QED
    BY <1>1, <1>3, <1>4, <1>5 DEF LinkInv

(* The steps of a request after it has made its row, and its loss *)
LEMMA AnsweringKeepsLinks ==
    ASSUME LinkInv, UNCHANGED <<rows, spent>>, signup' \in [Signups -> Places],
           \A r \in Signups :
              signup'[r] = signup[r] \/ signup'[r] \notin Names \cup {"new", "undone"}
    PROVE  LinkInv'
<1>1. LinkTypes' /\ LinkIsItsOwn'
    BY DEF LinkInv, LinkTypes, LinkIsItsOwn
<1>2. OneRowEach'
    BY DEF LinkInv, OneRowEach, Made
<1>3. OpenedOnce'
    BY DEF LinkInv, OpenedOnce
<1> QED
    BY <1>1, <1>2, <1>3 DEF LinkInv

(* The row whose link is opened is its maker's, and the link is gone then. *)
LEMMA OpenLinkKeepsLinks ==
    ASSUME LinkInv, NEW r \in Signups, OpenLink(r)
    PROVE  LinkInv'
<1>1. PICK k \in Keys :
          /\ rows[k] # None /\ rows[k].link = r
          /\ rows' = [rows EXCEPT ![k].verified = TRUE, ![k].link = None]
    BY DEF OpenLink, VerifyEmailToken
<1>2. spent' = [spent EXCEPT ![r] = @ + 1] /\ signup' = signup
    BY DEF OpenLink
<1>3. rows[k] \in Row /\ spent[r] \in Nat /\ r # None
    BY <1>1, AccountsAssumption DEF LinkInv, LinkTypes
<1>4. rows[k].maker = r /\ spent[r] = 0
    BY <1>1, <1>3 DEF LinkInv, LinkIsItsOwn
<1> DEFINE row == [rows[k] EXCEPT !.verified = TRUE, !.link = None]
<1>5. row \in Row /\ row.maker = r /\ row.link = None
    BY <1>3, <1>4 DEF Row
<1>6. rows' = [rows EXCEPT ![k] = row]
    BY <1>1 DEF LinkInv, LinkTypes
<1> HIDE DEF row
<1>7. rows'[k] = row /\ (\A j \in Keys \ {k} : rows'[j] = rows[j])
      /\ spent'[r] = 1 /\ (\A q \in Signups \ {r} : spent'[q] = spent[q])
    BY <1>2, <1>3, <1>4, <1>6 DEF LinkInv, LinkTypes
<1>8. LinkTypes'
    BY <1>2, <1>3, <1>5, <1>6 DEF LinkInv, LinkTypes
<1>9. \A j \in Keys, q \in Signups : Made(j, q)' => Made(j, q)
    BY ZenonT(60), <1>1, <1>4, <1>5, <1>7 DEF Made
<1>10. OneRowEach'
    BY <1>2, <1>9 DEF LinkInv, OneRowEach
<1>11. LinkIsItsOwn'
  <2> SUFFICES ASSUME NEW j \in Keys, rows'[j] # None, j # k
               PROVE  rows'[j].maker # r
      BY <1>5, <1>7 DEF LinkInv, LinkIsItsOwn, LinkTypes, Row
  <2>1. rows[j] # None /\ rows'[j] = rows[j]
      BY <1>7
  <2>2. Made(k, r)
      BY <1>1, <1>4 DEF Made
  <2>3. ~Made(j, r)
      BY <2>2 DEF LinkInv, OneRowEach
  <2> QED
      BY <2>1, <2>3 DEF Made
<1>12. OpenedOnce'
    BY <1>1, <1>2, <1>4, <1>7 DEF LinkInv, OpenedOnce, OneRowEach, Made
<1> QED
    BY <1>8, <1>10, <1>11, <1>12 DEF LinkInv

LEMMA MarkKeepsLinks ==
    ASSUME LinkInv, NEW k \in Keys, NEW flag \in BOOLEAN, Mark(k, flag),
           UNCHANGED <<signup, spent>>
    PROVE  LinkInv'
<1> DEFINE row == [rows[k] EXCEPT !.disabled = flag]
<1>1. rows[k] # None /\ rows' = [rows EXCEPT ![k] = row]
    BY DEF Mark, LinkInv, LinkTypes
<1>2. row \in Row /\ row.maker = rows[k].maker /\ row.link = rows[k].link
      /\ row.verified = rows[k].verified
    BY <1>1 DEF LinkInv, LinkTypes, Row
<1> HIDE DEF row
<1>3. rows'[k] = row /\ \A j \in Keys \ {k} : rows'[j] = rows[j]
    BY <1>1 DEF LinkInv, LinkTypes
<1>4. LinkTypes'
    BY <1>1, <1>2 DEF LinkInv, LinkTypes
<1>5. \A j \in Keys, q \in Signups : Made(j, q)' => Made(j, q)
    BY <1>1, <1>2, <1>3 DEF Made
<1>6. OneRowEach'
    BY <1>5 DEF LinkInv, OneRowEach
<1>7. LinkIsItsOwn' /\ OpenedOnce'
    BY <1>1, <1>2, <1>3 DEF LinkInv, LinkIsItsOwn, OpenedOnce
<1> QED
    BY <1>4, <1>6, <1>7 DEF LinkInv

LEMMA LinkInvIsInductive ==
    ASSUME LinkInv, [Next]_vars
    PROVE  LinkInv'
<1>0. signup \in [Signups -> Places] /\ rows \in [Keys -> Row \cup {None}]
      /\ Names \subseteq Keys
    BY DEF LinkInv, LinkTypes, Keys
<1>1. ASSUME UNCHANGED linkVars PROVE LinkInv'
    BY <1>1, <1>0, AnsweringKeepsLinks DEF linkVars
<1>2. ASSUME NEW r \in Signups, Signup(r) PROVE LinkInv'
  <2>1. CASE \E c \in Clients, n \in Names, a \in Addresses : Register(r, c, n, a)
      BY <2>1, RegisterKeepsLinks
  <2>2. CASE MailArrives(r)
      BY <2>2, <1>1 DEF MailArrives, storeVars, linkVars
  <2>3. CASE MailSent(r)
    <3>1. UNCHANGED <<rows, spent>> /\ signup' = [signup EXCEPT ![r] = "created"]
        BY <2>3 DEF MailSent, storeVars
    <3>2. "created" \notin Names
        BY AccountsAssumption
    <3>3. signup' \in [Signups -> Places]
        BY <3>1, <1>0 DEF Places
    <3> QED
        BY <3>1, <3>2, <3>3, <1>0, AnsweringKeepsLinks
  <2>4. CASE MailFails(r)
    <3>1. /\ Delete(signup[r]) /\ signup[r] \in Keys /\ spent' = spent
          /\ signup[r] \in Names /\ signup' = [signup EXCEPT ![r] = "undone"]
        BY <2>4, <1>0 DEF MailFails, Mailing
    <3>2. signup' \in [Signups -> Places]
        BY <3>1, <1>0 DEF Places
    <3>3. \A j \in Keys : Made(j, r) => j = signup[r]
        BY <3>1 DEF LinkInv, OneRowEach
    <3> QED
        BY <3>1, <3>2, <3>3, <1>0, DeletingKeepsLinks
  <2>5. CASE OpenLink(r)
      BY <2>5, OpenLinkKeepsLinks
  <2> QED
      BY <1>2, <2>1, <2>2, <2>3, <2>4, <2>5 DEF Signup
<1>3. ASSUME NEW k \in Keys, NEW flag \in BOOLEAN, SetDisabled(k, flag) PROVE LinkInv'
    BY <1>3, MarkKeepsLinks DEF SetDisabled, mailVars
<1>4. ASSUME NEW k \in Keys, DeleteUser(k) PROVE LinkInv'
    BY <1>4, <1>0, DeletingKeepsLinks DEF DeleteUser
<1>5. CASE Restart
  <2>1. UNCHANGED <<rows, spent>> /\ signup' =
            [r \in Signups |-> IF Mailing(r) THEN "lost" ELSE signup[r]]
      BY <1>5 DEF Restart, storeVars
  <2>2. "lost" \notin Names
      BY AccountsAssumption
  <2>3. signup' \in [Signups -> Places]
      BY <2>1, <1>0 DEF Places
  <2> QED
      BY <2>1, <2>2, <2>3, AnsweringKeepsLinks
<1>6. ASSUME NEW b \in Browsers, Browser(b) PROVE UNCHANGED linkVars
    BY <1>6 DEF Browser, SignIn, SignOut, GoogleStart, GoogleCallback, GoogleFails,
       GoogleReturns, GoogleSignup, storeVars, mailVars, linkVars
<1>7. CASE Tick \/ (\E c \in Clients : RefuseSignup(c)) \/ UNCHANGED vars
    BY <1>7, <1>1 DEF Tick, RefuseSignup, vars, storeVars, mailVars, linkVars
<1> QED
    BY <1>1, <1>2, <1>3, <1>4, <1>5, <1>6, <1>7 DEF Next, Administrator

(* However signups, lost and failed mails, clicks, deletions and restarts   *)
(* interleave, a confirmed account is one whose own link was opened, once,  *)
(* and whose signup was not answered 503 (auth/store.py: verify_email_token,*)
(* api/auth_router.py: register).                                           *)
THEOREM LinksAlwaysConfirmTheirOwn == Spec => []LinksConfirmTheirOwn
<1>1. LinkInv => LinksConfirmTheirOwn
  <2> SUFFICES ASSUME LinkInv, NEW k \in Keys, rows[k] # None, rows[k].verified
               PROVE  spent[rows[k].maker] = 1 /\ signup[rows[k].maker] # "undone"
      BY DEF LinksConfirmTheirOwn, LinkInv, OpenedOnce
  <2>1. rows[k].maker \in Signups /\ Made(k, rows[k].maker)
      BY DEF LinkInv, LinkTypes, Row, Made
  <2> QED
      BY <2>1 DEF LinkInv, LinkIsItsOwn, OneRowEach
<1> QED
    BY <1>1, InitLinkInv, LinkInvIsInductive, PTL DEF Spec

----------------------------------------------------------------------------
(* The throttle *)

(* It remembers every attempt it admitted in the window that ends now.      *)
Remembers ==
    \A c \in Clients : \A x \in admitted[c] : x > now - Window => x \in attempts[c]

ThrottleTypes ==
    /\ now \in 0 .. MaxTime
    /\ attempts \in [Clients -> SUBSET (0 .. now)]
    /\ admitted \in [Clients -> SUBSET (0 .. now)]

ThrottleInv == ThrottleTypes /\ Remembers /\ ThrottleHolds

InWindow(stamps, t) == {x \in stamps : t - Window < x /\ x <= t}

LEMMA InitThrottleInv == Init => ThrottleInv
<1> SUFFICES ASSUME Init PROVE ThrottleInv
    OBVIOUS
<1>1. ThrottleTypes /\ Remembers
    BY AccountsAssumption DEF Init, ThrottleTypes, Remembers
<1>2. ASSUME NEW c \in Clients, NEW t \in 0 .. MaxTime
      PROVE  Cardinality({x \in admitted[c] : t - Window < x /\ x <= t}) <= Limit
  <2>1. {x \in admitted[c] : t - Window < x /\ x <= t} = {}
      BY DEF Init
  <2>2. Cardinality({}) = 0 /\ 0 <= Limit
      BY FS_EmptySet, AccountsAssumption
  <2> QED
      BY <2>1, <2>2
<1> QED
    BY <1>1, <1>2 DEF ThrottleInv, ThrottleHolds

(* What the window holds after an attempt is the attempt and what the       *)
(* throttle remembered, of which there were fewer than Limit.               *)
LEMMA AttemptKeepsThrottle ==
    ASSUME ThrottleInv, NEW c \in Clients, Attempt(c), now' = now
    PROVE  ThrottleInv'
<1>0. now \in Nat /\ Window \in Nat /\ Limit \in Nat /\ MaxTime \in Nat /\ now <= MaxTime
    BY AccountsAssumption DEF ThrottleInv, ThrottleTypes
<1> DEFINE remembered == Live(attempts[c])
<1>1. /\ remembered \subseteq 0 .. now /\ Cardinality(remembered) < Limit
      /\ now \notin attempts[c]
      /\ attempts' = [d \in Clients |->
                        IF d = c THEN remembered \cup {now}
                        ELSE IF Live(attempts[d]) = {} THEN {} ELSE attempts[d]]
      /\ admitted' = [admitted EXCEPT ![c] = @ \cup {now}]
    BY DEF Attempt, Live, ThrottleInv, ThrottleTypes
<1>2. ThrottleTypes'
    BY <1>0, <1>1 DEF ThrottleInv, ThrottleTypes
<1>3. /\ admitted'[c] = admitted[c] \cup {now}
      /\ \A d \in Clients \ {c} : admitted'[d] = admitted[d]
    BY <1>1 DEF ThrottleInv, ThrottleTypes
<1>4. \A d \in Clients : admitted[d] \subseteq 0 .. now
    BY DEF ThrottleInv, ThrottleTypes
<1>5. Remembers'
  <2> SUFFICES ASSUME NEW d \in Clients, NEW x \in admitted'[d], x > now - Window
               PROVE  x \in attempts'[d]
      BY DEF Remembers
  <2>1. CASE x \in admitted[d]
    <3>1. x \in Live(attempts[d])
        BY <2>1 DEF ThrottleInv, Remembers, Live
    <3> QED
        BY <1>1, <3>1 DEF Live
  <2>2. CASE x \notin admitted[d]
      BY <2>2, <1>1, <1>3
  <2> QED
      BY <2>1, <2>2
<1>6. IsFiniteSet(remembered \cup {now}) /\ Cardinality(remembered \cup {now}) <= Limit
  <2>1. IsFiniteSet(0 .. now)
      BY <1>0, FS_Interval
  <2>2. IsFiniteSet(remembered)
      BY <1>1, <2>1, FS_Subset
  <2>3. now \notin remembered
      BY <1>1 DEF Live
  <2>4. Cardinality(remembered \cup {now}) = Cardinality(remembered) + 1
        /\ IsFiniteSet(remembered \cup {now})
      BY <2>2, <2>3, FS_AddElement
  <2> QED
      BY <2>2, <2>4, <1>0, <1>1, FS_CardinalityType
<1>7. ASSUME NEW d \in Clients, NEW t \in 0 .. MaxTime
      PROVE  Cardinality(InWindow(admitted'[d], t)) <= Limit
  <2>1. CASE d # c
    <3>1. InWindow(admitted'[d], t) = {x \in admitted[d] : t - Window < x /\ x <= t}
        BY <2>1, <1>3 DEF InWindow
    <3> QED
        BY <3>1 DEF ThrottleInv, ThrottleHolds
  <2>2. CASE d = c /\ t < now
    <3>1. InWindow(admitted'[d], t) = {x \in admitted[d] : t - Window < x /\ x <= t}
        BY <2>2, <1>0, <1>3 DEF InWindow
    <3> QED
        BY <3>1 DEF ThrottleInv, ThrottleHolds
  <2>3. CASE d = c /\ t >= now
    <3>1. ASSUME NEW x \in InWindow(admitted'[d], t)
          PROVE  x \in remembered \cup {now}
      <4>1. CASE x = now
          BY <4>1
      <4>2. CASE x # now
        <5>1. x \in admitted[c] /\ x \in 0 .. now /\ t - Window < x
            BY <3>1, <4>2, <2>3, <1>3, <1>4 DEF InWindow
        <5>2. x > now - Window
            BY <5>1, <2>3, <1>0
        <5> QED
            BY <5>1, <5>2 DEF ThrottleInv, Remembers, Live
      <4> QED
          BY <4>1, <4>2
    <3>2. Cardinality(InWindow(admitted'[d], t)) <= Cardinality(remembered \cup {now})
          /\ IsFiniteSet(InWindow(admitted'[d], t))
        BY <3>1, <1>6, FS_Subset
    <3> QED
        BY <3>2, <1>0, <1>6, FS_CardinalityType
  <2> QED
      BY <2>1, <2>2, <2>3, <1>0
<1>8. ThrottleHolds'
    BY <1>7 DEF ThrottleHolds, InWindow
<1> QED
    BY <1>2, <1>5, <1>8 DEF ThrottleInv

LEMMA ThrottleInvIsInductive ==
    ASSUME ThrottleInv, [Next]_vars
    PROVE  ThrottleInv'
<1>1. CASE Tick
  <2>1. now' = now + 1 /\ now < MaxTime /\ UNCHANGED <<attempts, admitted>>
      BY <1>1 DEF Tick
  <2>2. ThrottleTypes'
      BY <2>1, AccountsAssumption DEF ThrottleInv, ThrottleTypes
  <2>3. Remembers'
    <3> SUFFICES ASSUME NEW c \in Clients, NEW x \in admitted'[c], x > now' - Window
                 PROVE  x \in attempts'[c]
        BY DEF Remembers
    <3>1. x \in admitted[c] /\ x \in 0 .. now /\ now \in Nat /\ Window \in Nat
        BY <2>1, AccountsAssumption DEF ThrottleInv, ThrottleTypes
    <3>2. x > now - Window
        BY <2>1, <3>1
    <3> QED
        BY <2>1, <3>1, <3>2 DEF ThrottleInv, Remembers
  <2>4. ThrottleHolds'
      BY <2>1 DEF ThrottleInv, ThrottleHolds
  <2> QED
      BY <2>2, <2>3, <2>4 DEF ThrottleInv
<1>2. CASE Restart
  <2>1. now' = now /\ attempts' = [c \in Clients |-> {}] /\ admitted' = [c \in Clients |-> {}]
      BY <1>2 DEF Restart
  <2>2. ThrottleTypes' /\ Remembers'
      BY <2>1 DEF ThrottleInv, ThrottleTypes, Remembers
  <2>3. ASSUME NEW c \in Clients, NEW t \in 0 .. MaxTime
        PROVE  Cardinality({x \in admitted'[c] : t - Window < x /\ x <= t}) <= Limit
    <3>1. {x \in admitted'[c] : t - Window < x /\ x <= t} = {}
        BY <2>1
    <3>2. Cardinality({}) = 0 /\ 0 <= Limit
        BY FS_EmptySet, AccountsAssumption
    <3> QED
        BY <3>1, <3>2
  <2>4. ThrottleHolds'
      BY <2>3 DEF ThrottleHolds
  <2> QED
      BY <2>2, <2>4 DEF ThrottleInv
<1>3. ASSUME NEW c \in Clients, RefuseSignup(c) PROVE ThrottleInv'
    BY <1>3, AttemptKeepsThrottle DEF RefuseSignup
<1>4. ASSUME NEW r \in Signups, NEW c \in Clients, NEW n \in Names,
             NEW a \in Addresses, Register(r, c, n, a)
      PROVE  ThrottleInv'
    BY <1>4, AttemptKeepsThrottle DEF Register
<1>5. ASSUME UNCHANGED throttleVars PROVE ThrottleInv'
    BY <1>5 DEF throttleVars, ThrottleInv, ThrottleTypes, Remembers, ThrottleHolds
<1>6. ASSUME NEW r \in Signups,
             MailArrives(r) \/ MailSent(r) \/ MailFails(r) \/ OpenLink(r)
      PROVE  ThrottleInv'
    BY <1>5, <1>6 DEF MailArrives, MailSent, MailFails, OpenLink
<1>7. ASSUME NEW b \in Browsers, Browser(b) PROVE UNCHANGED throttleVars
    BY <1>7 DEF Browser, SignIn, SignOut, GoogleStart, GoogleCallback, GoogleFails, GoogleReturns
<1>8. CASE Administrator \/ UNCHANGED vars
    BY <1>5, <1>8 DEF Administrator, SetDisabled, DeleteUser, vars
<1> QED
    BY <1>1, <1>2, <1>3, <1>4, <1>5, <1>6, <1>7, <1>8 DEF Next, Signup

(* However a client spreads its attempts and whoever else registers, no     *)
(* window of the clock holds more admitted attempts than the limit          *)
(* (auth/store.py: allow_registration_attempt).                      *)
THEOREM ThrottleAlwaysHolds == Spec => []ThrottleHolds
<1>1. ThrottleInv => ThrottleHolds
    BY DEF ThrottleInv
<1> QED
    BY <1>1, InitThrottleInv, ThrottleInvIsInductive, PTL DEF Spec

----------------------------------------------------------------------------
(* Signing in *)

(* A row under a username has the lowercased one. *)
RowsAreLowered == \A n \in Names : rows[n] # None => Lower[n] = n

DoorTypes ==
    /\ session = [b \in Browsers |-> session[b]]
    /\ links \in [Subjects -> Addresses \cup {None}]
    /\ htpasswd \in Files

DoorInv == LinkInv /\ RowsAreLowered /\ DoorTypes

(* A step that makes no row but under the lowercased name of a signup *)
LEMMA LoweredStays ==
    ASSUME DoorInv,
           \A n \in Names : rows'[n] # None => rows[n] # None \/ Lower[n] = n
    PROVE  RowsAreLowered'
BY DEF DoorInv, RowsAreLowered

(* What the steps do to the ways into a vault *)
LEMMA RowsChange ==
    ASSUME DoorInv, [Next]_vars
    PROVE  \/ rows' = rows
           \/ \A k \in Keys : rows'[k] # None => rows[k] # None
           \/ \E r \in Signups, n \in Names :
                 /\ rows[Lower[n]] = None /\ ~Taken(Lower[n]) /\ links' = links
                 /\ \A k \in Keys : rows'[k] # None => rows[k] # None \/ k = Lower[n]
<1>0. rows \in [Keys -> Row \cup {None}]
    BY DEF DoorInv, LinkInv, LinkTypes
<1> DEFINE Goal == \A k \in Keys : rows'[k] # None => rows[k] # None
<1>1. ASSUME NEW k \in Keys, Delete(k) PROVE Goal
    BY <1>1, <1>0 DEF Delete
<1>2. ASSUME NEW r \in Signups, OpenLink(r) PROVE Goal
    BY <1>2, <1>0 DEF OpenLink, VerifyEmailToken
<1>3. ASSUME NEW k \in Keys, NEW flag \in BOOLEAN, SetDisabled(k, flag) PROVE Goal
    BY <1>3, <1>0 DEF SetDisabled, Mark
<1>4. ASSUME NEW k \in Keys, DeleteUser(k) PROVE Goal
    BY <1>1, <1>4 DEF DeleteUser
<1>5. ASSUME NEW r \in Signups, MailFails(r) PROVE Goal
  <2>1. signup[r] \in Keys /\ Delete(signup[r])
      BY <1>5 DEF MailFails, Mailing, Keys
  <2> QED
      BY <2>1, <1>1
<1>6. ASSUME NEW r \in Signups, NEW c \in Clients, NEW n \in Names,
             NEW a \in Addresses, Register(r, c, n, a)
      PROVE  /\ rows[Lower[n]] = None /\ ~Taken(Lower[n]) /\ links' = links
             /\ \A k \in Keys : rows'[k] # None => rows[k] # None \/ k = Lower[n]
    BY <1>6, <1>0 DEF Register, Create, Taken
<1>7. ASSUME NEW r \in Signups, MailArrives(r) \/ MailSent(r) PROVE rows' = rows
    BY <1>7 DEF MailArrives, MailSent, storeVars
<1>8. ASSUME NEW b \in Browsers, Browser(b) PROVE rows' = rows
    BY <1>8 DEF Browser, SignIn, SignOut, GoogleStart, GoogleCallback, GoogleFails,
       GoogleReturns, storeVars
<1>9. CASE Tick \/ (\E c \in Clients : RefuseSignup(c)) \/ Restart \/ UNCHANGED vars
    BY <1>9 DEF Tick, RefuseSignup, Restart, vars, storeVars
<1> HIDE DEF Goal
<1>10. CASE \E r \in Signups : Signup(r)
  <2> PICK r \in Signups : Signup(r)
      BY <1>10
  <2>1. CASE \E c \in Clients, n \in Names, a \in Addresses : Register(r, c, n, a)
      BY <2>1, <1>6
  <2> QED
      BY <2>1, <1>2, <1>5, <1>7 DEF Signup, Goal
<1> QED
    BY <1>3, <1>4, <1>8, <1>9, <1>10 DEF Next, Administrator, Goal

LEMMA LinksChange ==
    ASSUME DoorInv, [Next]_vars
    PROVE  \/ links' = links
           \/ \E k \in Keys : Unlink(k)
           \/ \E s \in Subjects, a \in Addresses : GoogleSignup(s, a) /\ rows' = rows
<1>1. ASSUME NEW r \in Signups, Signup(r) PROVE links' = links
    BY <1>1 DEF Signup, Register, MailArrives, MailSent, MailFails, OpenLink, storeVars
<1>2. ASSUME NEW b \in Browsers, NEW s \in Subjects, NEW a \in Addresses,
             GoogleReturns(b, s, a)
      PROVE  links' = links \/ (GoogleSignup(s, a) /\ rows' = rows)
    BY <1>2 DEF GoogleReturns
<1>3. ASSUME NEW b \in Browsers, Browser(b),
             ~\E s \in Subjects, a \in Addresses : GoogleReturns(b, s, a)
      PROVE  links' = links
    BY <1>3 DEF Browser, SignIn, SignOut, GoogleStart, GoogleCallback, GoogleFails, storeVars
<1>4. ASSUME NEW k \in Keys, NEW flag \in BOOLEAN, SetDisabled(k, flag) PROVE links' = links
    BY <1>4 DEF SetDisabled
<1>5. ASSUME NEW k \in Keys, DeleteUser(k) PROVE Unlink(k)
    BY <1>5 DEF DeleteUser
<1>6. CASE Tick \/ (\E c \in Clients : RefuseSignup(c)) \/ Restart \/ UNCHANGED vars
    BY <1>6 DEF Tick, RefuseSignup, Restart, vars, storeVars
<1> QED
    BY <1>1, <1>2, <1>3, <1>4, <1>5, <1>6 DEF Next, Administrator

LEMMA OthersKeepSessions ==
    ASSUME \/ \E r \in Signups : Signup(r)
           \/ Administrator \/ Tick \/ \E c \in Clients : RefuseSignup(c)
           \/ UNCHANGED vars
    PROVE  UNCHANGED <<session, htpasswd>>
<1>1. ASSUME NEW r \in Signups, NEW c \in Clients, NEW n \in Names,
             NEW a \in Addresses, Register(r, c, n, a)
      PROVE  UNCHANGED <<session, htpasswd>>
    BY <1>1 DEF Register
<1>2. ASSUME NEW r \in Signups, MailArrives(r) PROVE UNCHANGED <<session, htpasswd>>
    BY <1>2 DEF MailArrives
<1>3. ASSUME NEW r \in Signups, MailSent(r) PROVE UNCHANGED <<session, htpasswd>>
    BY <1>3 DEF MailSent
<1>4. ASSUME NEW r \in Signups, MailFails(r) PROVE UNCHANGED <<session, htpasswd>>
    BY <1>4 DEF MailFails
<1>5. ASSUME NEW r \in Signups, OpenLink(r) PROVE UNCHANGED <<session, htpasswd>>
    BY <1>5 DEF OpenLink
<1>6. ASSUME NEW k \in Keys, DeleteUser(k) PROVE UNCHANGED <<session, htpasswd>>
    BY <1>6 DEF DeleteUser
<1>7. ASSUME NEW k \in Keys, NEW flag \in BOOLEAN, SetDisabled(k, flag)
      PROVE  UNCHANGED <<session, htpasswd>>
    BY <1>7 DEF SetDisabled
<1>8. CASE Tick
    BY <1>8 DEF Tick
<1>9. CASE UNCHANGED vars
    BY <1>9 DEF vars
<1>10. ASSUME NEW c \in Clients, RefuseSignup(c) PROVE UNCHANGED <<session, htpasswd>>
    BY <1>10 DEF RefuseSignup
<1> QED
    BY <1>1, <1>2, <1>3, <1>4, <1>5, <1>6, <1>7, <1>8, <1>9, <1>10
    DEF Signup, Administrator

LEMMA DoorInvIsInductive ==
    ASSUME DoorInv, [Next]_vars
    PROVE  DoorInv'
<1>1. LinkInv'
    BY LinkInvIsInductive DEF DoorInv
<1>2. RowsAreLowered'
  <2>1. \A n \in Names : Lower[n] \in Names /\ n \in Keys /\ Lower[Lower[n]] = Lower[n]
      BY AccountsAssumption DEF Keys
  <2> QED
      BY <2>1, RowsChange, LoweredStays
<1>3. links' \in [Subjects -> Addresses \cup {None}]
    BY LinksChange DEF DoorInv, DoorTypes, Unlink, GoogleSignup, Link
<1>4. session' = [b \in Browsers |-> session'[b]]
  <2>1. ASSUME NEW b \in Browsers, Browser(b) PROVE \E v : session' = [session EXCEPT ![b] = v]
    <3>1. session = [session EXCEPT ![b] = session[b]]
        BY DEF DoorInv, DoorTypes
    <3>2. CASE \E n \in Names, p \in Passwords : SignIn(b, n, p)
        BY <3>2 DEF SignIn
    <3>3. CASE SignOut(b)
        BY <3>3 DEF SignOut
    <3>4. CASE GoogleStart(b) \/ GoogleCallback(b)
        BY <3>4, <3>1 DEF GoogleStart, GoogleCallback
    <3>5. CASE GoogleFails(b)
        BY <3>5 DEF GoogleFails
    <3>6. CASE \E s \in Subjects, a \in Addresses : GoogleReturns(b, s, a)
        BY <3>6 DEF GoogleReturns
    <3> QED
        BY <2>1, <3>2, <3>3, <3>4, <3>5, <3>6 DEF Browser
  <2>2. Restart => session' = session
      BY DEF Restart
  <2>3. session' = session \/ \E b \in Browsers : \E v : session' = [session EXCEPT ![b] = v]
      BY <2>1, <2>2, OthersKeepSessions DEF Next
  <2> QED
      BY <2>3 DEF DoorInv, DoorTypes
<1>5. htpasswd' \in Files
  <2>1. ASSUME NEW b \in Browsers, Browser(b) PROVE htpasswd' = htpasswd
      BY <2>1 DEF Browser, SignIn, SignOut, GoogleStart, GoogleCallback, GoogleFails, GoogleReturns
  <2>2. Restart => htpasswd' \in Files
      BY DEF Restart
  <2> QED
      BY <2>1, <2>2, OthersKeepSessions DEF Next, DoorInv, DoorTypes
<1> QED
    BY <1>1, <1>2, <1>3, <1>4, <1>5 DEF DoorInv, DoorTypes

LEMMA InitDoorInv == Init => DoorInv
<1> SUFFICES ASSUME Init PROVE DoorInv
    OBVIOUS
<1>1. RowsAreLowered
    BY DEF Init, RowsAreLowered, Keys
<1>2. DoorTypes
    BY DEF Init, DoorTypes
<1> QED
    BY <1>1, <1>2, InitLinkInv DEF DoorInv

(* What a password is accepted for *)
LEMMA AcceptsIsEntitled ==
    ASSUME DoorInv, NEW n \in Names, NEW p \in Passwords, Accepts(n, p) # None
    PROVE  LET k == Accepts(n, p) IN
           /\ IF p = None THEN k \in htpasswd ELSE rows[k] # None /\ rows[k].maker = p
           /\ \A m \in {n, Lower[n]} :
                 rows[m] # None => rows[m].verified /\ ~rows[m].disabled
<1>1. n \in Keys /\ Lower[n] \in Keys /\ rows \in [Keys -> Row \cup {None}]
      /\ (rows[n] # None => Lower[n] = n) /\ None \notin Signups
    BY AccountsAssumption DEF Keys, DoorInv, RowsAreLowered, LinkInv, LinkTypes
<1>2. \A k \in Keys : Matches(k, p) => p # None /\ rows[k] # None /\ rows[k].maker = p
                                       /\ ~Refused(k)
    BY <1>1 DEF Matches, Row
<1>3. \A k \in Keys : ~Refused(k) => (rows[k] # None => rows[k].verified /\ ~rows[k].disabled)
    BY DEF Refused
<1>4. CASE Matches(n, p)
  <2>1. Accepts(n, p) = n
      BY <1>4 DEF Accepts
  <2>2. p # None /\ rows[n] # None /\ rows[n].maker = p /\ ~Refused(n) /\ Lower[n] = n
      BY <1>1, <1>2, <1>4
  <2>3. rows[n].verified /\ ~rows[n].disabled
      BY <1>1, <1>3, <2>2
  <2>4. \A m \in {n, Lower[n]} : m = n
      BY <2>2
  <2>5. \A m \in {n, Lower[n]} : rows[m] # None => rows[m].verified /\ ~rows[m].disabled
      BY <2>3, <2>4
  <2>6. IF p = None THEN Accepts(n, p) \in htpasswd
        ELSE rows[Accepts(n, p)] # None /\ rows[Accepts(n, p)].maker = p
      BY <2>1, <2>2
  <2> QED
      BY <2>5, <2>6
<1>5. CASE ~Matches(n, p) /\ ~Refused(n) /\ Matches(Lower[n], p)
  <2>1. Accepts(n, p) = Lower[n]
      BY <1>1, <1>2, <1>5 DEF Accepts
  <2>2. p # None /\ rows[Lower[n]] # None /\ rows[Lower[n]].maker = p /\ ~Refused(Lower[n])
      BY <1>1, <1>2, <1>5
  <2>3. \A m \in {n, Lower[n]} : rows[m] # None => rows[m].verified /\ ~rows[m].disabled
      BY <1>1, <1>3, <1>5, <2>2
  <2> QED
      BY <2>1, <2>2, <2>3
<1>6. CASE ~Matches(n, p) /\ ~(~Refused(n) /\ Matches(Lower[n], p))
  <2>1. Accepts(n, p) = n /\ n \in htpasswd /\ p = None /\ ~Refused(n) /\ ~Refused(Lower[n])
      BY <1>6 DEF Accepts
  <2> QED
      BY <2>1, <1>1, <1>3
<1> QED
    BY <1>4, <1>5, <1>6

(* A password opens the vault of the account it was chosen for and nothing  *)
(* else, and never one that is disabled or unconfirmed under the typed or   *)
(* the lowercased name (api/auth_router.py: _verify_account).                *)
THEOREM SignInsAreAlwaysEntitled == Spec => SignInsAreEntitled
<1> DEFINE Entitled ==
      \A b \in Browsers, n \in Names, p \in Passwords :
          SignIn(b, n, p) =>
              LET k == session'[b] IN
              /\ IF p = None THEN k \in htpasswd
                 ELSE rows[k] # None /\ rows[k].maker = p
              /\ \A m \in {n, Lower[n]} :
                    rows[m] # None => rows[m].verified /\ ~rows[m].disabled
<1>1. ASSUME DoorInv PROVE Entitled
  <2> SUFFICES ASSUME NEW b \in Browsers, NEW n \in Names, NEW p \in Passwords,
                      SignIn(b, n, p)
               PROVE  LET k == session'[b] IN
                      /\ IF p = None THEN k \in htpasswd
                         ELSE rows[k] # None /\ rows[k].maker = p
                      /\ \A m \in {n, Lower[n]} :
                            rows[m] # None => rows[m].verified /\ ~rows[m].disabled
      OBVIOUS
  <2>1. Accepts(n, p) # None /\ session'[b] = Accepts(n, p)
      BY <1>1 DEF SignIn, DoorInv, DoorTypes
  <2> QED
      BY <1>1, <2>1, AcceptsIsEntitled
<1>2. DoorInv /\ [Next]_vars => [Entitled]_vars
    BY <1>1
<1> QED
    BY <1>2, InitDoorInv, DoorInvIsInductive, PTL DEF Spec, SignInsAreEntitled

(* Only an edit of the operator's file adds a way into a vault that has one *)
(* (auth/store.py: user_id_taken, asked by both ways of signing up).        *)
THEOREM NoDoorIsAdded == Spec => NoSecondDoor
<1> DEFINE Kept == htpasswd' = htpasswd =>
                      \A k \in Keys : Doors(k) # {} => Doors(k)' \subseteq Doors(k)
<1>1. ASSUME DoorInv, [Next]_vars PROVE Kept
  <2> SUFFICES ASSUME htpasswd' = htpasswd, NEW k \in Keys, Doors(k) # {}
               PROVE  Doors(k)' \subseteq Doors(k)
      OBVIOUS
  <2>1. Taken(k) \/ (k \in Names /\ Lower[k] # k)
    <3>1. CASE \E h \in htpasswd : h = k
        BY <3>1 DEF Taken
    <3>2. CASE rows[k] # None \/ \E s \in Subjects : links[s] = k
        BY <3>2 DEF Taken
    <3> QED
        BY <3>1, <3>2 DEF Doors
  <2>2. \A n \in Names : Lower[n] = k => ~(k \in Names /\ Lower[k] # k)
      BY AccountsAssumption
  <2>3. rows'[k] # None => rows[k] # None
      BY <1>1, <2>1, <2>2, RowsChange
  <2>4. \A s \in Subjects : links'[s] = k => links[s] = k
    <3>1. k # None /\ \A a \in Addresses : a = k => k \notin Names
        BY AccountsAssumption
    <3>2. CASE links' = links \/ \E j \in Keys : Unlink(j)
        BY <3>1, <3>2 DEF Unlink
    <3>3. CASE \E s \in Subjects, a \in Addresses : GoogleSignup(s, a)
        BY <2>1, <3>1, <3>3 DEF GoogleSignup, Link, DoorInv, DoorTypes
    <3> QED
        BY <1>1, <3>2, <3>3, LinksChange
  <2> QED
      BY <2>3, <2>4 DEF Doors
<1>2. DoorInv /\ [Next]_vars => [Kept]_vars
    BY <1>1
<1> QED
    BY <1>2, InitDoorInv, DoorInvIsInductive, PTL DEF Spec, NoSecondDoor
=============================================================================
