-------------------------------- MODULE Sessions --------------------------------
(***************************************************************************)
(* Who is signed in where.  A browser holds a session cookie and may hold  *)
(* one that outlasts it; both name a user and a digest of the e-mail       *)
(* address and the password of the user, which every request compares      *)
(* with the row.  A change of either ends all sessions but the one that    *)
(* made it, which gets new cookies.  Every response sends the session it   *)
(* was asked with again, so that responses that overtake each other count. *)
(***************************************************************************)
EXTENDS Naturals

CONSTANTS
    Holders,       \* users
    Founder,       \* the one there is initially, an administrator
    Home,          \* the e-mail address of the founder
    Spellings,     \* e-mail addresses as they are typed
    Lower,         \* [Spellings -> Spellings], in lower case
    Domestic,      \* addresses of the domains the organization admits
    Providers,     \* identity providers that are enabled
    Browsers,
    Requests,      \* processes that handle requests
    MaxChanges      \* bound: passwords and addresses set; each password has a salt of its own

Addresses == { Lower[s] : s \in Spellings }

ASSUME AddressesAssumption ==
    /\ Lower \in [Spellings -> Spellings]
    /\ \A s \in Spellings : Lower[Lower[s]] = Lower[s]
    /\ Founder \in Holders /\ Home \in Addresses
    /\ Providers \subseteq {"google", "saml", "ldap", "remote_user", "jwt"}
    /\ "none" \notin Holders \cup Browsers
    /\ MaxChanges \in Nat \ {0}

VARIABLES
    account,       \* the row of each user
    changes,       \* how often passwords and addresses have been set
    cookie,        \* the session in each browser
    remembered,    \* the cookie that outlasts the session
    flight,        \* the request each process has in hand, until the browser has the response
    expected,      \* history: whom each browser has last signed in, if no one changed that since
    muddled,       \* history: browsers whose requests overlapped, see below
    respelled      \* history: browsers in which users have changed their own address, in capitals

sessionVars == <<account, changes, cookie, remembered, flight, expected, muddled, respelled>>

NoAccount == [email |-> "none"]
Deleted == [email |-> "deleted"]
NoOne == [holder |-> "none"]
NoFlight == [kind |-> "none"]
Keep == [holder |-> "keep"]

Row(e, p) == [address |-> e, password |-> p, disabled |-> FALSE]
HasAccount(h) == account[h] \notin {NoAccount, Deleted}
WithAddress(e) == { h \in Holders : HasAccount(h) /\ account[h].address = e }

SessionInit ==
    /\ account = [h \in Holders |-> IF h = Founder THEN Row(Home, 1) ELSE NoAccount]
    /\ changes = 1
    /\ cookie = [b \in Browsers |-> NoOne]
    /\ remembered = [b \in Browsers |-> NoOne]
    /\ flight = [r \in Requests |-> NoFlight]
    /\ expected = [b \in Browsers |-> NoOne]
    /\ muddled = {}
    /\ respelled = {}
-----------------------------------------------------------------------------
\* User.get_id; the address as the object in memory spells it
Identity(h, s, p) == [holder |-> h, address |-> s, password |-> p]
OwnIdentity(h) == Identity(h, account[h].address, account[h].password)

\* An identity is not compared
AnyIdentity(c) == c # NoOne /\ HasAccount(c.holder) /\ ~account[c.holder].disabled

\* load_user
Loads(c) ==
    c # NoOne /\ HasAccount(c.holder) /\ c = OwnIdentity(c.holder) /\ ~account[c.holder].disabled

\* The session, or what outlasts it, which the session then takes over
Loaded(b) ==
    IF Loads(cookie[b]) \/ ~Loads(remembered[b]) THEN cookie[b] ELSE remembered[b]

\* The user a request of browser b is served as
ServedAs(b) == IF Loads(Loaded(b)) THEN Loaded(b).holder ELSE "none"

FlightsOf(b) == { r \in Requests : flight[r] # NoFlight /\ flight[r].browser = b }

\* Requests about a user, which give the browser other cookies than it has, as does a logout
Signing == {"edit", "link", "login", "vouched"}

\* A process is free to serve the browser, about which there still is something to say
Ready(r, b) == flight[r] = NoFlight /\ b \notin muddled \cup respelled

(***************************************************************************)
(* The browser sends its cookies; the server loads the user they name and  *)
(* the row the request is about, which may be the same object.             *)
(***************************************************************************)
Send(r, b, request) ==
    /\ Ready(r, b)
    /\ flight' = [flight EXCEPT ![r] = request]
    /\ muddled' = IF \E q \in FlightsOf(b) : {request.kind, flight[q].kind} # {"visit"}
                  THEN muddled \cup {b} ELSE muddled
    /\ UNCHANGED <<account, changes, cookie, remembered, expected, respelled>>

\* Any other page, polls included, while signed in
Visit(r, b) ==
    /\ ServedAs(b) # "none"
    /\ Send(r, b, [kind |-> "visit", browser |-> b, session |-> Loaded(b)])

\* UserResource.post, by the user or an administrator, who know the password
BeginEdit(r, b, h) ==
    /\ HasAccount(h)
    /\ ServedAs(b) \in {h, Founder}
    /\ Send(r, b, [kind |-> "edit", browser |-> b, user |-> ServedAs(b), session |-> Loaded(b),
                   target |-> h, read |-> OwnIdentity(h)])

\* render_token_login_page: a new password, by a link, which anyone may have been sent
FollowLink(r, b, h) ==
    /\ HasAccount(h)
    /\ Send(r, b, [kind |-> "link", browser |-> b, target |-> h, read |-> OwnIdentity(h)])

\* login, with the password
SubmitLogin(r, b, h) ==
    /\ ServedAs(b) = "none"
    /\ HasAccount(h) /\ ~account[h].disabled /\ account[h].password > 0
    /\ Send(r, b, [kind |-> "login", browser |-> b, target |-> h, read |-> OwnIdentity(h)])

Logout(r, b) == ServedAs(b) # "none" /\ Send(r, b, [kind |-> "logout", browser |-> b])

\* verify_profile: a public organization admits all domains
VerifyProfile(e) == e \in Domestic \/ WithAddress(e) # {}

\* Whom the providers vouch for
GoogleAdmits(b, e) == VerifyProfile(e)
SamlAdmits(b, e) == TRUE
LdapAdmits(b, e) == ServedAs(b) = "none"
RemoteUserAdmits(b, e) == TRUE

\* Looked for only when no cookie names a user, and then signed in if not yet known
JwtAdmits(b, e) == ServedAs(b) = "none" /\ WithAddress(e) = {}

\* create_and_login_user looks for the user
Vouch(r, b, provider, h, e) ==
    /\ Ready(r, b)
    /\ CASE provider = "google"      -> GoogleAdmits(b, e)
         [] provider = "saml"        -> SamlAdmits(b, e)
         [] provider = "ldap"        -> LdapAdmits(b, e)
         [] provider = "remote_user" -> RemoteUserAdmits(b, e)
         [] provider = "jwt"         -> JwtAdmits(b, e)
    /\ \/ /\ WithAddress(e) = {h}
          /\ Send(r, b, [kind |-> "vouched", browser |-> b, target |-> h,
                         read |-> IF account[h].disabled THEN NoOne ELSE OwnIdentity(h)])
       \/ /\ WithAddress(e) = {} /\ account[h] = NoAccount
          /\ Send(r, b, [kind |-> "vouched", browser |-> b, target |-> h, address |-> e])
-----------------------------------------------------------------------------
(***************************************************************************)
(* What the handlers do.  The response reaches the browser with the commit *)
(* at the latest, as a bound; responses still overtake each other.         *)
(***************************************************************************)
InFlight(r, kinds) == flight[r].kind \in kinds

(***************************************************************************)
(* The browser takes the cookies of the response: the session, which each  *)
(* one carries, and the other one if there is one.                         *)
(***************************************************************************)
Answer(r, session, keeps) ==
    LET b == flight[r].browser
    IN  /\ cookie' = [cookie EXCEPT ![b] = session]
        /\ remembered' = [remembered EXCEPT ![b] = IF keeps = Keep THEN @ ELSE keeps]
        /\ flight' = [flight EXCEPT ![r] = NoFlight]

\* Whoever signs in without being remembered may hide another user's cookie
Hiding(b, keeps, h) == keeps = Keep /\ remembered[b] \notin {NoOne, Keep} /\ remembered[b].holder # h

\* h is signed in by the response
Decide(r, keeps, h, others) ==
    LET b == flight[r].browser
    IN  /\ expected' = [others EXCEPT ![b] = [holder |-> h]]
        /\ muddled' = IF Hiding(b, keeps, h) THEN muddled \cup {b} ELSE muddled

\* A visit, whose response carries the session as it was loaded
EndVisit(r) ==
    /\ InFlight(r, {"visit"})
    /\ Answer(r, flight[r].session, Keep)
    /\ UNCHANGED <<account, changes, expected, muddled, respelled>>

\* Browsers whose requests have read the row of h
ReadBy(h) == { flight[r].browser : r \in { x \in Requests :
    flight[x].kind \in Signing /\ flight[x].target = h } }

\* The same without the request r
ReadByOthers(r, h) == { flight[q].browser : q \in { x \in Requests \ {r} :
    flight[x].kind \in Signing /\ flight[x].target = h } }

\* Browsers with cookies that name an identity, dead or alive
Naming(i) == { b \in Browsers :
    i \in {cookie[b], remembered[b]} \/ \E q \in FlightsOf(b) :
        flight[q].kind \in {"visit", "edit"} /\ flight[q].session = i }

(***************************************************************************)
(* The identity of h becomes i in the database: the end of all sessions of *)
(* h but the user's own, if it is the user who changes it.  What crosses   *)
(* that, or comes back with a former address, is muddled.                  *)
(***************************************************************************)
Reidentify(h, i) ==
    account' = [account EXCEPT ![h].address = i.address, ![h].password = i.password]

Ended(h, i, own) == [b \in Browsers |->
    IF i # OwnIdentity(h) /\ b # own /\ expected[b] = [holder |-> h] THEN NoOne ELSE expected[b]]

Muddled(r, h, i) ==
    IF i = OwnIdentity(h) THEN muddled
    ELSE muddled \cup ReadByOthers(r, h) \cup (Naming(i) \ {flight[r].browser})

(***************************************************************************)
(* UserResource.post writes what it changes.  Who changes the own record   *)
(* is signed in by the object in memory, where the address is spelled as   *)
(* it was typed; the column has it in lower case.                          *)
(***************************************************************************)
MayEdit(r, s, rehash) ==
    /\ InFlight(r, {"edit"})
    /\ HasAccount(flight[r].target)
    /\ rehash => flight[r].read.password > 0
    /\ changes < MaxChanges
    /\ s # flight[r].read.address => WithAddress(Lower[s]) \subseteq {flight[r].target}

\* The identity in the database, and in memory
Written(r, s, rehash) ==
    LET h == flight[r].target
    IN  Identity(h, IF s = flight[r].read.address THEN account[h].address ELSE Lower[s],
                 IF rehash THEN changes + 1 ELSE account[h].password)
InMemory(r, s, rehash) ==
    Identity(flight[r].target, s, IF rehash THEN changes + 1 ELSE flight[r].read.password)

\* The user is not signed in anew
EditOnly(r, s, rehash) ==
    LET h == flight[r].target
        i == Written(r, s, rehash)
        own == IF flight[r].user = h THEN flight[r].browser ELSE "none"
    IN  /\ MayEdit(r, s, rehash)
        /\ Reidentify(h, i)
        /\ changes' = changes + 1
        /\ Answer(r, flight[r].session, Keep)
        /\ expected' = Ended(h, i, own)
        /\ muddled' = Muddled(r, h, i)
        /\ UNCHANGED respelled

Edit(r, s, rehash) ==
    LET h == flight[r].target
        i == Written(r, s, rehash)
        m == InMemory(r, s, rehash)
        self == flight[r].user = h
        own == IF self THEN flight[r].browser ELSE "none"
    IN  /\ MayEdit(r, s, rehash)
        /\ Reidentify(h, i)
        /\ changes' = changes + 1
        /\ IF self THEN Answer(r, m, m) ELSE Answer(r, flight[r].session, Keep)
        /\ expected' = Ended(h, i, own)
        /\ muddled' = Muddled(r, h, i)
        /\ respelled' = IF self /\ s # Lower[s] THEN respelled \cup {own} ELSE respelled

\* render_token_login_page signs in whom the link names, for the session
SetPassword(r) ==
    LET h == flight[r].target
        b == flight[r].browser
        i == Identity(h, account[h].address, changes + 1)
    IN  /\ InFlight(r, {"link"})
        /\ HasAccount(h)
        /\ changes < MaxChanges
        /\ Reidentify(h, i)
        /\ changes' = changes + 1
        /\ Answer(r, Identity(h, flight[r].read.address, changes + 1), Keep)
        /\ expected' = [Ended(h, i, b) EXCEPT ![b] = [holder |-> h]]
        /\ muddled' = Muddled(r, h, i) \cup (IF Hiding(b, Keep, h) THEN {b} ELSE {})
        /\ UNCHANGED respelled

\* login_user
SignIn(r, remember) ==
    LET i == flight[r].read
        keeps == IF remember THEN i ELSE Keep
    IN  /\ InFlight(r, {"login"})
        /\ Answer(r, i, keeps)
        /\ Decide(r, keeps, i.holder, expected)
        /\ UNCHANGED <<account, changes, respelled>>

\* create_and_login_user, of a user it has found
SignInKnown(r) ==
    LET i == flight[r].read
    IN  /\ InFlight(r, {"vouched"})
        /\ "read" \in DOMAIN flight[r] /\ i # NoOne
        /\ Answer(r, i, i)
        /\ Decide(r, i, i.holder, expected)
        /\ UNCHANGED <<account, changes, respelled>>

\* create_and_login_user, of one it has not, unless the address is taken by then
SignInNew(r) ==
    LET i == Identity(flight[r].target, flight[r].address, 0)
    IN  /\ InFlight(r, {"vouched"})
        /\ "address" \in DOMAIN flight[r]
        /\ account[i.holder] = NoAccount /\ WithAddress(i.address) = {}
        /\ account' = [account EXCEPT ![i.holder] = Row(i.address, 0)]
        /\ Answer(r, i, i)
        /\ Decide(r, i, i.holder, expected)
        /\ UNCHANGED <<changes, respelled>>

\* logout, or logout_and_redirect_to_index for a disabled user
LogsOut(r) ==
    \/ InFlight(r, {"logout"})
    \/ InFlight(r, {"vouched"}) /\ "read" \in DOMAIN flight[r] /\ flight[r].read = NoOne

\* The session only
LeaveSession(r) ==
    /\ LogsOut(r)
    /\ Answer(r, NoOne, Keep)
    /\ expected' = [expected EXCEPT ![flight[r].browser] = NoOne]
    /\ UNCHANGED <<account, changes, muddled, respelled>>

\* logout_user forgets both cookies
SignOut(r) ==
    /\ LogsOut(r)
    /\ Answer(r, NoOne, NoOne)
    /\ expected' = [expected EXCEPT ![flight[r].browser] = NoOne]
    /\ UNCHANGED <<account, changes, muddled, respelled>>

\* An address is taken, the old password is wrong, Postgres refuses, or the process dies
Refuse(r) ==
    /\ flight[r] # NoFlight
    /\ flight' = [flight EXCEPT ![r] = NoFlight]
    /\ UNCHANGED <<account, changes, cookie, remembered, expected, muddled, respelled>>
-----------------------------------------------------------------------------
(***************************************************************************)
(* What administrators do, in the browser and by commands on the server    *)
(***************************************************************************)
\* UserListResource.post invites a new user
CreateUser(b, h, e) ==
    /\ ServedAs(b) = Founder
    /\ account[h] = NoAccount /\ WithAddress(e) = {}
    /\ account' = [account EXCEPT ![h] = Row(e, 0)]
    /\ UNCHANGED <<changes, cookie, remembered, flight, expected, muddled, respelled>>

\* A user is disabled or enabled, which no session forgets
SetDisabled(b, h, disabled) ==
    /\ ServedAs(b) = Founder
    /\ HasAccount(h)
    /\ disabled => h # Founder
    /\ account' = [account EXCEPT ![h].disabled = disabled]
    /\ UNCHANGED <<changes, cookie, remembered, flight, expected, muddled, respelled>>

(***************************************************************************)
(* The row of h is deleted, and who is signed in as h is nobody.  An       *)
(* administrator may delete who has not accepted the invitation yet, and   *)
(* the command whom no other row refers to, unlike the founder.            *)
(***************************************************************************)
Delete(h) ==
    /\ account' = [account EXCEPT ![h] = Deleted]
    /\ expected' = [b \in Browsers |->
                      IF expected[b] = [holder |-> h] THEN NoOne ELSE expected[b]]
    /\ muddled' = muddled \cup ReadBy(h)
    /\ UNCHANGED <<changes, cookie, remembered, flight, respelled>>

DeleteUser(b, h) ==
    /\ ServedAs(b) = Founder
    /\ h # Founder /\ HasAccount(h) /\ account[h].password = 0
    /\ Delete(h)

\* The command "users delete"
CommandDelete(h) == HasAccount(h) /\ h # Founder /\ Delete(h)

\* The commands "users create" and "users invite": with a password or, for Google, none
CommandCreate(h, e, withPassword) ==
    /\ account[h] = NoAccount /\ WithAddress(e) = {}
    /\ changes < MaxChanges
    /\ account' = [account EXCEPT ![h] = Row(e, IF withPassword THEN changes + 1 ELSE 0)]
    /\ changes' = changes + 1
    /\ UNCHANGED <<cookie, remembered, flight, expected, muddled, respelled>>

\* The command "users password", which no session survives
CommandPassword(h) ==
    LET i == Identity(h, account[h].address, changes + 1)
    IN  /\ HasAccount(h)
        /\ changes < MaxChanges
        /\ Reidentify(h, i)
        /\ changes' = changes + 1
        /\ expected' = Ended(h, i, "none")
        /\ muddled' = muddled \cup ReadBy(h)
        /\ UNCHANGED <<cookie, remembered, flight, respelled>>

SessionNext ==
    \/ \E r \in Requests, b \in Browsers :
        \/ Visit(r, b) \/ Logout(r, b)
        \/ \E h \in Holders :
            \/ BeginEdit(r, b, h) \/ FollowLink(r, b, h) \/ SubmitLogin(r, b, h)
            \/ \E provider \in Providers, e \in Addresses : Vouch(r, b, provider, h, e)
    \/ \E r \in Requests :
        \/ EndVisit(r) \/ SetPassword(r) \/ SignInKnown(r) \/ SignInNew(r)
        \/ SignOut(r) \/ Refuse(r)
        \/ \E s \in Spellings, rehash \in BOOLEAN : Edit(r, s, rehash)
        \/ \E remember \in BOOLEAN : SignIn(r, remember)
    \/ \E h \in Holders, b \in Browsers :
        \/ \E e \in Addresses : CreateUser(b, h, e)
        \/ \E disabled \in BOOLEAN : SetDisabled(b, h, disabled)
        \/ DeleteUser(b, h)
    \/ \E h \in Holders :
        \/ CommandDelete(h) \/ CommandPassword(h)
        \/ \E e \in Addresses, withPassword \in BOOLEAN : CommandCreate(h, e, withPassword)

SessionSpec == SessionInit /\ [][SessionNext]_sessionVars
-----------------------------------------------------------------------------
Identities == [holder : Holders, address : Spellings, password : 0..MaxChanges]

SessionTypeOK ==
    /\ account \in [Holders -> {NoAccount, Deleted} \cup
          [address : Addresses, password : 0..MaxChanges, disabled : BOOLEAN]]
    /\ changes \in 0..MaxChanges
    /\ cookie \in [Browsers -> {NoOne} \cup Identities]
    /\ remembered \in [Browsers -> {NoOne} \cup Identities]
    /\ \A r \in Requests : flight[r] # NoFlight =>
          /\ flight[r].browser \in Browsers
          /\ flight[r].kind \in Signing \cup {"visit", "logout"}
    /\ expected \in [Browsers -> {NoOne} \cup [holder : Holders]]
    /\ muddled \cup respelled \subseteq Browsers

\* Whom the browser last signed in, if no one else has changed that and the user is enabled
AsDecided(b) ==
    ServedAs(b) = IF expected[b] # NoOne /\ ~account[expected[b].holder].disabled
                  THEN expected[b].holder ELSE "none"

(***************************************************************************)
(* A browser without requests in flight is signed in exactly as was last   *)
(* decided: by who signed in or out there, by who changed the user's       *)
(* address or password elsewhere, which ends the session, and by who       *)
(* disabled the user.  A user who changes the own record stays signed in   *)
(* (users.py:281-285).  Excluded are browsers whose responses may have     *)
(* overtaken each other, those whose user was changed in between, those to *)
(* which a former address came back, those with another user's cookie      *)
(* beneath the session, and those of ThisSessionStays.                     *)
(***************************************************************************)
SignedInAsDecided ==
    \A b \in Browsers \ (muddled \cup respelled) : FlightsOf(b) = {} => AsDecided(b)

(***************************************************************************)
(* "we don't want to force _this_ session to have to go through login      *)
(* again" (handlers/users.py:282), which is what happens to users who      *)
(* change their own address to one with capitals.                          *)
(***************************************************************************)
ThisSessionStays ==
    \A b \in respelled \ muddled : FlightsOf(b) = {} => AsDecided(b)
=============================================================================
