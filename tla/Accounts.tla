------------------------------ MODULE Accounts ------------------------------
(***************************************************************************)
(* Who may sign in: asr_mcp/auth (the credentials and Google identities),  *)
(* the registration and login routes, and the administrator's routes.      *)
(*                                                                         *)
(* A vault is named by its key: a lowercased username, an address (Google) *)
(* or an htpasswd name.  The store's methods run on the event loop without *)
(* an await, so a method is part of one action; a route is split at its    *)
(* awaits, where the mail server and Google are asked in a thread.         *)
(***************************************************************************)
EXTENDS Integers, FiniteSets

CONSTANTS
    Signups,    \* POST /auth/register requests
    Names,      \* usernames as they can be typed
    Lower,      \* [Names -> Names], str.lower
    Addresses,  \* normalised mail addresses
    Subjects,   \* Google's stable account ids
    Browsers,   \* one session cookie each
    Clients,    \* network addresses, as _signup_client sees them
    Admin,      \* TRANSCRIBE_ADMIN_USER, a name of the operator's file
    Files,      \* bound: the contents the operator's file may have
    Limit,      \* REGISTRATION_ATTEMPT_LIMIT
    Window,     \* REGISTRATION_ATTEMPT_WINDOW, in ticks
    MaxTime,    \* bound: ticks of the clock
    None

Keys == Names \cup Addresses

ASSUME AccountsAssumption ==
    /\ Lower \in [Names -> Names]
    /\ \A n \in Names : Lower[Lower[n]] = Lower[n]
    /\ Names \cap Addresses = {}     \* normalise_username admits no @
    /\ None \notin Signups \cup Keys \cup Subjects \cup {Admin}
    /\ Names \cap {"new", "created", "undone", "lost"} = {}
    /\ Files \subseteq SUBSET (Names \cup {Admin})
    /\ Limit \in Nat \ {0} /\ Window \in Nat /\ MaxTime \in Nat

VARIABLES
    now,       \* time.time()
    open,      \* registration is enabled, with mail and Google configured
    htpasswd,  \* the names of the operator's file, parsed at startup
    attempts,  \* _ATTEMPTS: what the throttle remembers, by client
    admitted,  \* history: the times at which it let an attempt through
    rows,      \* the credentials table, by vault key
    links,     \* the google_identities table: the vault of a subject
    signup,    \* where a registration request stands
    inbox,     \* confirmation mails that were delivered
    spent,     \* history: how often a request's link has confirmed a row
    dropped,   \* history: requests whose row the administrator deleted
    session,   \* the user of a browser's session
    flow       \* a browser's Google sign-in, and the user it began with

storeVars == <<rows, links>>
throttleVars == <<now, attempts, admitted>>
mailVars == <<signup, inbox, spent, dropped>>
vars == <<throttleVars, open, htpasswd, storeVars, mailVars, session, flow>>

(* A credentials row.  `maker` is the registration that made it: its       *)
(* password is what that request chose; `link` is the verification token,  *)
(* named by the request that mailed it.                                    *)
Row == [maker : Signups, email : Addresses, verified : BOOLEAN,
        disabled : BOOLEAN, link : Signups \cup {None}]

(* The password p = None stands for the operator's. *)
Passwords == Signups \cup {None}

NoFlow == [at |-> "none", user |-> None]

----------------------------------------------------------------------------
(* The throttle *)

(* Mutant of Live: the window is cut short. *)
LiveNow(stamps) == {t \in stamps : t >= now}

(* The stamps inside the sliding window *)
Live(stamps) == {t \in stamps : t > now - Window}

(* allow_registration_attempt, when it allows.  A refused attempt is not   *)
(* recorded; two attempts of one client have different time stamps.        *)
Attempt(c) ==
    /\ Cardinality(Live(attempts[c])) < Limit
    /\ now \notin attempts[c]
    /\ attempts' = [d \in Clients |->
                      IF d = c THEN Live(attempts[c]) \cup {now}
                      ELSE IF Live(attempts[d]) = {} THEN {} ELSE attempts[d]]
    /\ admitted' = [admitted EXCEPT ![c] = @ \cup {now}]

Tick ==
    /\ now < MaxTime
    /\ now' = now + 1
    /\ UNCHANGED <<attempts, admitted, open, htpasswd, storeVars, mailVars,
                   session, flow>>

----------------------------------------------------------------------------
(* The store *)

(* Mutant of Taken: the Google table is not asked. *)
TakenIgnoringGoogle(k) == rows[k] # None \/ k \in htpasswd

(* user_id_taken: in any of the three stores, the operator's names compared *)
(* lowercased.                                                              *)
Taken(k) ==
    \/ rows[k] # None
    \/ \E s \in Subjects : links[s] = k
    \/ \E h \in htpasswd : k = IF h \in Names THEN Lower[h] ELSE h

(* email_taken *)
EmailTaken(a) == \E k \in Keys : rows[k] # None /\ rows[k].email = a

(* check_login, for a password that is the one request p chose *)
Refused(k) == rows[k] # None /\ (rows[k].disabled \/ ~rows[k].verified)
Matches(k, p) == rows[k] # None /\ ~Refused(k) /\ rows[k].maker = p

(* Mutant of Accepts: a refusal does not stop the search. *)
AcceptsFallsThrough(n, p) ==
    CASE Matches(n, p) -> n
      [] ~Matches(n, p) /\ Matches(Lower[n], p) -> Lower[n]
      [] OTHER -> IF n \in htpasswd /\ p = None THEN n ELSE None

(* _verify_account: the typed spelling, the lowercased one, then the file. *)
Accepts(n, p) ==
    CASE Matches(n, p) -> n
      [] ~Matches(n, p) /\ ~Refused(n) /\ Matches(Lower[n], p) -> Lower[n]
      [] n \in htpasswd /\ p = None /\ ~Refused(n) /\ ~Refused(Lower[n]) -> n
      [] OTHER -> None

(* create and issue_verification_token: unverified, with a fresh link. *)
Create(k, r, a) ==
    rows' = [rows EXCEPT ![k] =
               [maker |-> r, email |-> a, verified |-> FALSE,
                disabled |-> FALSE, link |-> r]]

(* delete: whatever row has that key *)
Delete(k) == rows' = [rows EXCEPT ![k] = None]

(* Mutant of VerifyEmailToken: the token is not cleared. *)
VerifyEmailTokenAgain(r) ==
    \E k \in Keys :
        /\ rows[k] # None /\ rows[k].link = r /\ ~rows[k].disabled
        /\ rows' = [rows EXCEPT ![k].verified = TRUE]

(* verify_email_token, when it finds a row *)
VerifyEmailToken(r) ==
    \E k \in Keys :
        /\ rows[k] # None /\ rows[k].link = r /\ ~rows[k].disabled
        /\ rows' = [rows EXCEPT ![k].verified = TRUE, ![k].link = None]

(* disable and enable *)
Mark(k, flag) ==
    /\ rows[k] # None /\ rows[k].disabled # flag
    /\ rows' = [rows EXCEPT ![k].disabled = flag]

(* link_google_identity, for a subject that has no link *)
Link(s, k) == links' = [links EXCEPT ![s] = k]

(* delete_google_identities *)
Unlink(k) ==
    links' = [s \in Subjects |-> IF links[s] = k THEN None ELSE links[s]]

----------------------------------------------------------------------------
(* POST /auth/register *)

(* 404 or 400: nothing is left of the request but its attempt.  (A 429     *)
(* leaves nothing; an account without an address is deleted at once.)      *)
RefuseSignup(c) ==
    /\ Attempt(c)
    /\ UNCHANGED <<now, open, htpasswd, storeVars, mailVars, session, flow>>

(* The row is made, unverified, its link minted and the mail handed to a    *)
(* thread, with no await in between.                                        *)
Register(r, c, n, a) ==
    /\ signup[r] = "new"
    /\ Attempt(c)
    /\ open
    /\ ~Taken(Lower[n])
    /\ ~EmailTaken(a)
    /\ Create(Lower[n], r, a)
    /\ signup' = [signup EXCEPT ![r] = Lower[n]]
    /\ UNCHANGED <<now, open, htpasswd, links, inbox, spent, dropped, session, flow>>

Mailing(r) == signup[r] \in Names

(* The server takes the message; its answer may still be lost. *)
MailArrives(r) ==
    /\ Mailing(r)
    /\ inbox' = inbox \cup {r}
    /\ UNCHANGED <<throttleVars, open, htpasswd, storeVars, signup, spent, dropped,
                   session, flow>>

(* send_mail returns: 201 *)
MailSent(r) ==
    /\ Mailing(r)
    /\ r \in inbox
    /\ signup' = [signup EXCEPT ![r] = "created"]
    /\ UNCHANGED <<throttleVars, open, htpasswd, storeVars, inbox, spent, dropped,
                   session, flow>>

(* send_mail raises: 503, and the account of that NAME is deleted. *)
MailFails(r) ==
    /\ Mailing(r)
    /\ Delete(signup[r])
    /\ signup' = [signup EXCEPT ![r] = "undone"]
    /\ UNCHANGED <<throttleVars, open, htpasswd, links, inbox, spent, dropped,
                   session, flow>>

(* GET /auth/verify with the link of request r; any other click is a miss. *)
OpenLink(r) ==
    /\ r \in inbox
    /\ VerifyEmailToken(r)
    /\ spent' = [spent EXCEPT ![r] = @ + 1]
    /\ UNCHANGED <<throttleVars, open, htpasswd, links, signup, inbox, dropped,
                   session, flow>>

----------------------------------------------------------------------------
(* Sessions *)

(* POST /auth/login and /auth/login/session; a failed one changes nothing. *)
SignIn(b, n, p) ==
    /\ Accepts(n, p) # None
    /\ session' = [session EXCEPT ![b] = Accepts(n, p)]
    /\ flow' = [flow EXCEPT ![b] = IF @.at = "consent" THEN NoFlow ELSE @]
    /\ UNCHANGED <<throttleVars, open, htpasswd, storeVars, mailVars>>

(* GET and POST /auth/logout *)
SignOut(b) ==
    /\ session[b] # None
    /\ session' = [session EXCEPT ![b] = None]
    /\ UNCHANGED <<throttleVars, open, htpasswd, storeVars, mailVars, flow>>

(* GET /auth/google/start: the state goes into the session. *)
GoogleStart(b) ==
    /\ flow[b].at = "none"
    /\ flow' = [flow EXCEPT ![b] = [at |-> "consent", user |-> None]]
    /\ UNCHANGED <<throttleVars, open, htpasswd, storeVars, mailVars, session>>

(* GET /auth/google/callback up to its await: the state is consumed, the    *)
(* session it was loaded with is what the answer will write back.           *)
GoogleCallback(b) ==
    /\ flow[b].at = "consent"
    /\ flow' = [flow EXCEPT ![b] = [at |-> "redeeming", user |-> session[b]]]
    /\ UNCHANGED <<throttleVars, open, htpasswd, storeVars, mailVars, session>>

(* The consent is declined; or Google refuses the code, cannot be reached,  *)
(* or knows somebody who may not sign up here.                              *)
GoogleFails(b) ==
    /\ flow[b].at # "none"
    /\ session' = [session EXCEPT ![b] =
                      IF flow[b].at = "consent" THEN @ ELSE flow[b].user]
    /\ flow' = [flow EXCEPT ![b] = NoFlow]
    /\ UNCHANGED <<throttleVars, open, htpasswd, storeVars, mailVars>>

(* _google_signup: an unknown subject opens a vault under its address if    *)
(* registration is open and no store has that key.                          *)
GoogleSignup(s, a) ==
    /\ open
    /\ ~Taken(a)
    /\ Link(s, a)

(* Google names subject s, whose verified address is now a: a linked        *)
(* subject enters its vault whatever its address.                           *)
GoogleReturns(b, s, a) ==
    /\ flow[b].at = "redeeming"
    /\ IF links[s] # None THEN UNCHANGED links ELSE GoogleSignup(s, a)
    /\ session' = [session EXCEPT ![b] = links'[s]]
    /\ flow' = [flow EXCEPT ![b] = NoFlow]
    /\ UNCHANGED <<throttleVars, open, htpasswd, rows, mailVars>>

----------------------------------------------------------------------------
(* The administrator's routes, and the process *)

SetDisabled(k, flag) ==
    /\ Mark(k, flag)
    /\ UNCHANGED <<throttleVars, open, htpasswd, links, mailVars, session, flow>>

(* DELETE /admin/users/{id}: the row and every Google link of the vault.    *)
(* (API tokens, and with purge the recordings, go too.)                     *)
DeleteUser(k) ==
    /\ k # Admin
    /\ rows[k] # None \/ \E s \in Subjects : links[s] = k
    /\ Delete(k)
    /\ Unlink(k)
    /\ dropped' = dropped \cup
                     IF rows[k] = None THEN {} ELSE {rows[k].maker}
    /\ UNCHANGED <<throttleVars, open, htpasswd, signup, inbox, spent, session,
                   flow>>

(* The process restarts, perhaps with other settings and another htpasswd   *)
(* file: the throttle and the requests in flight are lost, cookies and the  *)
(* database stay.                                                           *)
Restart ==
    /\ open' \in BOOLEAN
    /\ htpasswd' \in Files
    /\ attempts' = [c \in Clients |-> {}]
    /\ admitted' = [c \in Clients |-> {}]
    /\ signup' = [r \in Signups |-> IF Mailing(r) THEN "lost" ELSE signup[r]]
    /\ flow' = [b \in Browsers |->
                  IF flow[b].at = "redeeming" THEN NoFlow ELSE flow[b]]
    /\ UNCHANGED <<now, storeVars, inbox, spent, dropped, session>>

Init ==
    /\ now = 0
    /\ open = TRUE
    /\ htpasswd \in Files
    /\ attempts = [c \in Clients |-> {}]
    /\ admitted = [c \in Clients |-> {}]
    /\ rows = [k \in Keys |-> None]
    /\ links = [s \in Subjects |-> None]
    /\ signup = [r \in Signups |-> "new"]
    /\ inbox = {}
    /\ spent = [r \in Signups |-> 0]
    /\ dropped = {}
    /\ session = [b \in Browsers |-> None]
    /\ flow = [b \in Browsers |-> NoFlow]

Signup(r) ==
    \/ \E c \in Clients, n \in Names, a \in Addresses : Register(r, c, n, a)
    \/ MailArrives(r)
    \/ MailSent(r)
    \/ MailFails(r)
    \/ OpenLink(r)

Browser(b) ==
    \/ \E n \in Names, p \in Passwords : SignIn(b, n, p)
    \/ SignOut(b)
    \/ GoogleStart(b)
    \/ GoogleCallback(b)
    \/ GoogleFails(b)
    \/ \E s \in Subjects, a \in Addresses : GoogleReturns(b, s, a)

Administrator ==
    \E k \in Keys : \/ \E flag \in BOOLEAN : SetDisabled(k, flag)
                   \/ DeleteUser(k)

Next ==
    \/ Tick
    \/ \E c \in Clients : RefuseSignup(c)
    \/ \E r \in Signups : Signup(r)
    \/ \E b \in Browsers : Browser(b)
    \/ Administrator
    \/ Restart

Spec == Init /\ [][Next]_vars

----------------------------------------------------------------------------
AccountsTypeOK ==
    /\ now \in 0 .. MaxTime
    /\ open \in BOOLEAN
    /\ htpasswd \in Files
    /\ attempts \in [Clients -> SUBSET (0 .. now)]
    /\ admitted \in [Clients -> SUBSET (0 .. now)]
    /\ rows \in [Keys -> Row \cup {None}]
    /\ links \in [Subjects -> Addresses \cup {None}]
    /\ signup \in [Signups -> Names \cup {"new", "created", "undone", "lost"}]
    /\ inbox \in SUBSET Signups
    /\ spent \in [Signups -> Nat]
    /\ dropped \in SUBSET Signups
    /\ session \in [Browsers -> Keys \cup {Admin, None}]
    /\ flow \in [Browsers -> [at : {"none", "consent", "redeeming"},
                             user : Keys \cup {Admin, None}]]

(* "it stops a script": however a client spreads its attempts over the     *)
(* clock and whoever else registers, no stretch of Window holds more than  *)
(* Limit of them.                                                          *)
ThrottleHolds ==
    \A c \in Clients, t \in 0 .. MaxTime :
        Cardinality({x \in admitted[c] : t - Window < x /\ x <= t}) <= Limit

(* A confirmed account is one whose own link was opened, once: neither an  *)
(* old link to a name that was deleted and registered again, nor a second  *)
(* click, nor the link of a signup that was answered 503 confirms anything.*)
LinksConfirmTheirOwn ==
    /\ \A r \in Signups : spent[r] <= 1
    /\ \A k \in Keys :
          rows[k] # None /\ rows[k].verified =>
              /\ spent[rows[k].maker] = 1
              /\ signup[rows[k].maker] # "undone"

(* The ways into a vault: a password row, Google subjects, the file. *)
Doors(k) == (IF rows[k] = None THEN {} ELSE {"row"})
            \cup {s \in Subjects : links[s] = k}
            \cup {h \in htpasswd : h = k}

(* Signing up never opens a second way into a vault that has one, however  *)
(* registrations, Google sign-ins and deletions interleave.  (The operator *)
(* may, by editing the file.)                                              *)
NoSecondDoor ==
    [][htpasswd' = htpasswd =>
          \A k \in Keys : Doors(k) # {} => Doors(k)' \subseteq Doors(k)]_vars

(* A password opens the vault of the account it was chosen for, and the    *)
(* operator's a name of the file; but nothing opens, by either, for a name *)
(* with a row, in the typed or the lowercased spelling, that is disabled   *)
(* or unconfirmed.                                                         *)
SignInsAreEntitled ==
    [][\A b \in Browsers, n \in Names, p \in Passwords :
          SignIn(b, n, p) =>
              LET k == session'[b] IN
              /\ IF p = None THEN k \in htpasswd
                 ELSE rows[k] # None /\ rows[k].maker = p
              /\ \A m \in {n, Lower[n]} :
                    rows[m] # None => rows[m].verified /\ ~rows[m].disabled]_vars

(* "A failed confirmation email deletes the account it just made": an      *)
(* account whose signup was answered 201 is there until somebody with the  *)
(* authority deletes it.                                                   *)
AnsweredSignupsLast ==
    \A r \in Signups :
        signup[r] = "created" =>
            r \in dropped \/ \E k \in Keys : rows[k] # None /\ rows[k].maker = r
=============================================================================
