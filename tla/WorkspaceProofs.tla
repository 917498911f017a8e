-------------------------- MODULE WorkspaceProofs ---------------------------
(***************************************************************************)
(* Proofs about Sessions, for every number of users, spellings, browsers,  *)
(* providers and requests in flight, Editing, for every number of clients, *)
(* columns and values, Archiving, for every number of queries,             *)
(* visualizations, widgets, alerts and concurrent requests, and Listings,  *)
(* for every table, every request and every size of pages; and about these *)
(* components side by side.                                                *)
(***************************************************************************)
EXTENDS MCWorkspace, FiniteSetTheorems, FunctionTheorems, TLAPS

-----------------------------------------------------------------------------
(* Sessions: what the cookies of one browser may name *)

AccountRows == [address : Addresses, password : Nat, disabled : BOOLEAN]
Signed(h) == [holder |-> h]

\* There is a row of h in acc, and what identifies h then
HasIn(acc, h) == acc[h] \notin {NoAccount, Deleted}
OwnIn(acc, h) == Identity(h, acc[h].address, acc[h].password)

\* A request there may be
FlightShape(f) ==
    /\ f.browser \in Browsers
    /\ \/ f.kind = "visit" /\ f.session \in Identities
       \/ /\ f.kind = "edit" /\ f.session \in Identities /\ f.target \in Holders /\ f.read \in Identities
          /\ f.read.holder = f.target /\ f.user = f.session.holder
          /\ f.user = f.target => f.session = f.read
          /\ f.read.address \in Addresses
       \/ f.kind \in {"link", "login"} /\ f.target \in Holders /\ f.read \in Identities /\ f.read.holder = f.target
       \/ /\ f.kind = "vouched" /\ f.target \in Holders
          /\ "read" \in DOMAIN f => f.read = NoOne \/ (f.read \in Identities /\ f.read.holder = f.target)
          /\ "address" \in DOMAIN f => f.address \in Addresses
       \/ f.kind = "logout"

\* Requests of b in fl
Of(fl, b) == { q \in Requests : fl[q] # NoFlight /\ fl[q].browser = b }

\* The identities b has been given, in its cookies or in requests that will send them back
Held(fl, b, ck, rm) ==
    ({ck, rm} \cup { fl[q].session : q \in { p \in Of(fl, b) : fl[p].kind \in {"visit", "edit"} } }) \ {NoOne}

\* Requests other than visits have no company.
Alone(fl, b) == \A p, q \in Of(fl, b) : p # q => fl[p].kind = "visit" /\ fl[q].kind = "visit"

\* The identities of a browser are of one user, and only those of who is expected there are alive.
OneUser(acc, fl, b, ck, rm, ex, ch) ==
    \A x \in Held(fl, b, ck, rm) :
        /\ x \in Identities /\ x.password <= ch /\ acc[x.holder] # NoAccount
        /\ ex # NoOne => ex = Signed(x.holder)
        /\ HasIn(acc, x.holder) /\ x = OwnIn(acc, x.holder) => ex = Signed(x.holder)
        /\ \A y \in Held(fl, b, ck, rm) : y.holder = x.holder

\* Who is expected has a row, which a cookie names, and so does every request.
StillSigned(acc, fl, b, ck, rm, ex) ==
    \A h \in Holders : ex = Signed(h) =>
        /\ HasIn(acc, h) /\ OwnIn(acc, h) \in {ck, rm}
        /\ \A q \in Of(fl, b) : fl[q].kind \in {"visit", "edit"} => fl[q].session = OwnIn(acc, h)

\* What requests about a user have read is still so.
Reads(f) == f.kind \in {"edit", "link", "login"} \/ (f.kind = "vouched" /\ "read" \in DOMAIN f /\ f.read # NoOne)
ReadsCurrent(acc, fl, b) ==
    \A q \in Of(fl, b) : Reads(fl[q]) =>
        HasIn(acc, fl[q].target) /\ fl[q].read = OwnIn(acc, fl[q].target)

BrowserGood(acc, fl, b, ck, rm, ex, ch) ==
    /\ ex \in {NoOne} \cup [holder : Holders]
    /\ Alone(fl, b)
    /\ OneUser(acc, fl, b, ck, rm, ex, ch)
    /\ StillSigned(acc, fl, b, ck, rm, ex)
    /\ ReadsCurrent(acc, fl, b)

Clear == Browsers \ (muddled \cup respelled)

SessionTypes ==
    /\ account \in [Holders -> {NoAccount, Deleted} \cup AccountRows]
    /\ \A h \in Holders : HasAccount(h) => account[h].password <= changes
    /\ changes \in 0..MaxChanges
    /\ cookie \in [Browsers -> {NoOne} \cup Identities]
    /\ remembered \in [Browsers -> {NoOne} \cup Identities]
    /\ DOMAIN flight = Requests /\ flight = [r \in Requests |-> flight[r]]
    /\ \A r \in Requests : flight[r] # NoFlight => FlightShape(flight[r])
    /\ expected \in [Browsers -> {NoOne} \cup [holder : Holders]]
    /\ muddled \subseteq Browsers /\ respelled \subseteq Browsers

SessionInv ==
    /\ SessionTypes
    /\ \A b \in Clear : BrowserGood(account, flight, b, cookie[b], remembered[b], expected[b], changes)

\* Users are somebody, and a row is not the lack of one.
LEMMA SomeoneIsSomeone ==
    /\ \A h \in Holders : Signed(h) # NoOne /\ h # "none"
    /\ \A h, k \in Holders : Signed(h) = Signed(k) => h = k
    /\ \A x \in Identities : x # NoOne /\ x # Keep
    /\ \A x \in AccountRows : x # NoAccount /\ x # Deleted
    /\ NoAccount # Deleted
    /\ "none" \notin Browsers
    /\ NoFlight.kind = "none"
  <1>1. \A h \in Holders : Signed(h).holder = h /\ h # "none"
    BY AddressesAssumption DEF Signed
  <1>2. NoOne.holder = "none"
    BY DEF NoOne
  <1>3. \A x \in Identities : x.address \in Spellings /\ DOMAIN x = {"holder", "address", "password"}
    BY DEF Identities
  <1>4. DOMAIN NoOne = {"holder"} /\ DOMAIN Keep = {"holder"}
    BY DEF NoOne, Keep
  <1>5. \A x \in Identities : x # NoOne /\ x # Keep
    BY <1>3, <1>4
  <1>6. \A x \in AccountRows : DOMAIN x = {"address", "password", "disabled"}
    BY DEF AccountRows
  <1>7. DOMAIN NoAccount = {"email"} /\ DOMAIN Deleted = {"email"} /\ NoAccount.email # Deleted.email
    BY DEF NoAccount, Deleted
  <1>8. \A x \in AccountRows : x # NoAccount /\ x # Deleted
    BY <1>6, <1>7
  <1>9. \A h \in Holders : Signed(h) # NoOne
    BY <1>1, <1>2
  <1>10. \A h, k \in Holders : Signed(h) = Signed(k) => h = k
    BY <1>1
  <1> QED BY <1>1, <1>5, <1>7, <1>8, <1>9, <1>10, AddressesAssumption DEF NoFlight

\* The fewer requests of a browser are in flight, the better.
LEMMA Dropped ==
    ASSUME NEW acc, NEW fl, NEW b, NEW ck, NEW rm, NEW ex, NEW ch, BrowserGood(acc, fl, b, ck, rm, ex, ch),
           NEW fl2, \A q \in Requests : fl2[q] = fl[q] \/ fl2[q] = NoFlight \/ fl2[q].browser # b
    PROVE  BrowserGood(acc, fl2, b, ck, rm, ex, ch)
  <1>1. \A q \in Of(fl2, b) : q \in Of(fl, b) /\ fl2[q] = fl[q]
    BY DEF Of
  <1>2. Alone(fl2, b)
    BY <1>1 DEF BrowserGood, Alone
  <1>3. Held(fl2, b, ck, rm) \subseteq Held(fl, b, ck, rm)
    BY <1>1 DEF Held
  <1>4. OneUser(acc, fl2, b, ck, rm, ex, ch)
    BY <1>3 DEF BrowserGood, OneUser
  <1>5. StillSigned(acc, fl2, b, ck, rm, ex)
    BY <1>1 DEF BrowserGood, StillSigned
  <1>6. ReadsCurrent(acc, fl2, b)
    BY <1>1 DEF BrowserGood, ReadsCurrent
  <1> QED BY <1>2, <1>4, <1>5, <1>6 DEF BrowserGood

\* Passwords have been set since.
LEMMA Later ==
    ASSUME NEW acc, NEW fl, NEW b, NEW ck, NEW rm, NEW ex, NEW ch \in Nat, BrowserGood(acc, fl, b, ck, rm, ex, ch),
           NEW ch2 \in Nat, ch <= ch2
    PROVE  BrowserGood(acc, fl, b, ck, rm, ex, ch2)
  <1>1. \A x \in Held(fl, b, ck, rm) : x.password \in Nat
    BY DEF BrowserGood, OneUser, Identities
  <1>2. OneUser(acc, fl, b, ck, rm, ex, ch2)
    BY <1>1 DEF BrowserGood, OneUser
  <1> QED BY <1>2 DEF BrowserGood

\* Another row of h: what named h before names nobody then, unless it names the new row.
LEMMA OtherRow ==
    ASSUME NEW acc, NEW fl, NEW b, NEW ck, NEW rm, NEW ex, NEW ch, BrowserGood(acc, fl, b, ck, rm, ex, ch),
           NEW h \in Holders, NEW acc2, \A k \in Holders \ {h} : acc2[k] = acc[k],
           acc2[h] # NoAccount, HasIn(acc2, h) => OwnIn(acc2, h) \notin Held(fl, b, ck, rm),
           \A q \in Of(fl, b) : Reads(fl[q]) => fl[q].target \in Holders \ {h},
           NEW ex2, ex2 = IF ex = Signed(h) THEN NoOne ELSE ex
    PROVE  BrowserGood(acc2, fl, b, ck, rm, ex2, ch)
  <1>1. \A k \in Holders \ {h} : (HasIn(acc2, k) <=> HasIn(acc, k)) /\ OwnIn(acc2, k) = OwnIn(acc, k)
    BY DEF HasIn, OwnIn
  <1>2. ex \in {NoOne} \cup [holder : Holders] /\ ex2 \in {NoOne} \cup [holder : Holders]
    BY DEF BrowserGood
  <1>3. \A x \in Identities : x.holder \in Holders
    BY DEF Identities
  <1>4. OneUser(acc2, fl, b, ck, rm, ex2, ch)
    <2> SUFFICES ASSUME NEW x \in Held(fl, b, ck, rm)
                 PROVE  /\ x \in Identities /\ x.password <= ch /\ acc2[x.holder] # NoAccount
                        /\ ex2 # NoOne => ex2 = Signed(x.holder)
                        /\ HasIn(acc2, x.holder) /\ x = OwnIn(acc2, x.holder) => ex2 = Signed(x.holder)
                        /\ \A y \in Held(fl, b, ck, rm) : y.holder = x.holder
      BY DEF OneUser
    <2>1. /\ x \in Identities /\ x.password <= ch /\ acc[x.holder] # NoAccount
          /\ ex # NoOne => ex = Signed(x.holder)
          /\ HasIn(acc, x.holder) /\ x = OwnIn(acc, x.holder) => ex = Signed(x.holder)
          /\ \A y \in Held(fl, b, ck, rm) : y.holder = x.holder
      BY DEF BrowserGood, OneUser
    <2>2. CASE x.holder = h
      BY <2>1, <2>2
    <2>3. CASE x.holder # h
      <3>1. Signed(x.holder) # Signed(h)
        BY <1>3, <2>1, <2>3, SomeoneIsSomeone
      <3> QED BY <1>1, <1>3, <2>1, <2>3, <3>1
    <2> QED BY <2>2, <2>3
  <1>5. StillSigned(acc2, fl, b, ck, rm, ex2)
    <2> SUFFICES ASSUME NEW k \in Holders, ex2 = Signed(k)
                 PROVE  /\ HasIn(acc2, k) /\ OwnIn(acc2, k) \in {ck, rm}
                        /\ \A q \in Of(fl, b) : fl[q].kind \in {"visit", "edit"} => fl[q].session = OwnIn(acc2, k)
      BY DEF StillSigned
    <2>1. ex = Signed(k) /\ k # h
      BY SomeoneIsSomeone
    <2> QED BY <1>1, <2>1 DEF BrowserGood, StillSigned
  <1>6. ReadsCurrent(acc2, fl, b)
    BY <1>1 DEF BrowserGood, ReadsCurrent
  <1> QED BY <1>2, <1>4, <1>5, <1>6 DEF BrowserGood

\* Nobody is identified otherwise.
LEMMA SameIdentities ==
    ASSUME NEW acc, NEW fl, NEW b, NEW ck, NEW rm, NEW ex, NEW ch, BrowserGood(acc, fl, b, ck, rm, ex, ch),
           \A q \in Of(fl, b) : Reads(fl[q]) => fl[q].target \in Holders,
           NEW acc2, \A k \in Holders : /\ HasIn(acc2, k) <=> HasIn(acc, k)
                                        /\ HasIn(acc, k) => OwnIn(acc2, k) = OwnIn(acc, k)
                                        /\ acc[k] # NoAccount => acc2[k] # NoAccount
    PROVE  BrowserGood(acc2, fl, b, ck, rm, ex, ch)
  <1>1. \A x \in Identities : x.holder \in Holders
    BY DEF Identities
  <1>2. OneUser(acc2, fl, b, ck, rm, ex, ch)
    BY <1>1 DEF BrowserGood, OneUser
  <1>3. StillSigned(acc2, fl, b, ck, rm, ex)
    BY DEF BrowserGood, StillSigned
  <1>4. ReadsCurrent(acc2, fl, b)
    BY DEF BrowserGood, ReadsCurrent
  <1> QED BY <1>2, <1>3, <1>4 DEF BrowserGood

\* A visit or an edit of another user ends: the session comes back as it was loaded.
LEMMA CameBack ==
    ASSUME NEW acc, NEW fl, NEW b, NEW ck, NEW rm, NEW ex, NEW ch, BrowserGood(acc, fl, b, ck, rm, ex, ch),
           NEW r \in Of(fl, b), fl[r].kind \in {"visit", "edit"}, fl[r].session # NoOne
    PROVE  BrowserGood(acc, fl, b, fl[r].session, rm, ex, ch)
  <1> DEFINE s == fl[r].session
  <1>1. s \in Held(fl, b, ck, rm)
    BY DEF Held
  <1>2. Held(fl, b, s, rm) \subseteq Held(fl, b, ck, rm)
    BY <1>1 DEF Held
  <1>3. OneUser(acc, fl, b, s, rm, ex, ch)
    BY <1>2 DEF BrowserGood, OneUser
  <1>4. StillSigned(acc, fl, b, s, rm, ex)
    BY DEF BrowserGood, StillSigned
  <1> QED BY <1>3, <1>4 DEF BrowserGood

\* A browser is signed in as h, with no other request in flight.
LEMMA Renewed ==
    ASSUME NEW acc, NEW fl, NEW b, NEW ck, NEW rm, NEW ch, Of(fl, b) = {},
           NEW h \in Holders, HasIn(acc, h), ck = OwnIn(acc, h), ck \in Identities, ck.password <= ch,
           rm \in {NoOne, ck} \/ (rm \in Identities /\ rm.holder = h /\ rm.password <= ch)
    PROVE  BrowserGood(acc, fl, b, ck, rm, Signed(h), ch)
  <1>1. Held(fl, b, ck, rm) \subseteq {ck, rm} \ {NoOne}
    BY DEF Held
  <1>2. ck.holder = h
    BY DEF OwnIn, Identity
  <1>3. \A x \in Held(fl, b, ck, rm) : x \in Identities /\ x.password <= ch /\ x.holder = h
    BY <1>1, <1>2
  <1>4. OneUser(acc, fl, b, ck, rm, Signed(h), ch)
    BY <1>3 DEF OneUser, HasIn
  <1>5. StillSigned(acc, fl, b, ck, rm, Signed(h))
    BY SomeoneIsSomeone DEF StillSigned
  <1> QED BY <1>4, <1>5 DEF BrowserGood, Alone, ReadsCurrent, Signed

\* A browser is signed out, with no request in flight.
LEMMA Forgotten ==
    ASSUME NEW acc, NEW fl, NEW b, NEW ch, Of(fl, b) = {}
    PROVE  BrowserGood(acc, fl, b, NoOne, NoOne, NoOne, ch)
  <1>1. Held(fl, b, NoOne, NoOne) = {}
    BY DEF Held
  <1>2. StillSigned(acc, fl, b, NoOne, NoOne, NoOne)
    BY SomeoneIsSomeone DEF StillSigned
  <1> QED BY <1>1, <1>2 DEF BrowserGood, Alone, OneUser, ReadsCurrent

\* A request that has no company but other visits is sent.
LEMMA Sent ==
    ASSUME NEW acc, NEW fl, NEW b, NEW ck, NEW rm, NEW ex, NEW ch, BrowserGood(acc, fl, b, ck, rm, ex, ch),
           NEW r \in Requests, NEW f, NEW fl2, fl2[r] = f, \A q \in Requests \ {r} : fl2[q] = fl[q],
           fl[r] = NoFlight,
           \A q \in Of(fl, b) : f.kind = "visit" /\ fl[q].kind = "visit",
           f.kind \in {"visit", "edit"} =>
              /\ f.session \in {ck, rm} \ {NoOne} /\ HasIn(acc, f.session.holder)
              /\ f.session = OwnIn(acc, f.session.holder),
           Reads(f) => HasIn(acc, f.target) /\ f.read = OwnIn(acc, f.target)
    PROVE  BrowserGood(acc, fl2, b, ck, rm, ex, ch)
  <1>1. \A q \in Of(fl2, b) : q = r \/ (q # r /\ q \in Of(fl, b) /\ fl2[q] = fl[q])
    BY DEF Of
  <1>2. Alone(fl2, b)
    BY <1>1 DEF BrowserGood, Alone
  <1>3. f.kind \in {"visit", "edit"} => f.session \in Held(fl, b, ck, rm) /\ ex = Signed(f.session.holder)
    BY DEF Held, BrowserGood, OneUser
  <1>4. Held(fl2, b, ck, rm) \subseteq Held(fl, b, ck, rm)
    BY <1>1, <1>3 DEF Held
  <1>5. OneUser(acc, fl2, b, ck, rm, ex, ch)
    BY <1>4 DEF BrowserGood, OneUser
  <1>6. StillSigned(acc, fl2, b, ck, rm, ex)
    <2>1. f.kind \in {"visit", "edit"} => f.session.holder \in Holders
      BY <1>3 DEF BrowserGood, OneUser, Identities
    <2>2. \A h \in Holders : ex = Signed(h) /\ f.kind \in {"visit", "edit"} => f.session.holder = h
      BY <1>3, <2>1, SomeoneIsSomeone
    <2> QED BY <1>1, <2>2 DEF BrowserGood, StillSigned
  <1>7. ReadsCurrent(acc, fl2, b)
    BY <1>1 DEF BrowserGood, ReadsCurrent
  <1> QED BY <1>2, <1>5, <1>6, <1>7 DEF BrowserGood

\* A request that is not a visit was the only one.
LEMMA LastOne ==
    ASSUME NEW acc, NEW fl, NEW b, NEW ck, NEW rm, NEW ex, NEW ch, BrowserGood(acc, fl, b, ck, rm, ex, ch),
           NEW r \in Of(fl, b), fl[r].kind # "visit",
           NEW fl2, fl2[r] = NoFlight, \A q \in Requests \ {r} : fl2[q] = fl[q]
    PROVE  Of(fl2, b) = {}
  BY DEF BrowserGood, Alone, Of

\* The invariant of the next state in the terms of that state
LEMMA Restated ==
    ASSUME SessionTypes',
           \A b \in Clear' : BrowserGood(account', flight', b, cookie'[b], remembered'[b], expected'[b], changes')
    PROVE  SessionInv'
  BY DEF SessionInv, BrowserGood, Alone, OneUser, StillSigned, ReadsCurrent, Held, Of, HasIn, OwnIn, Reads, Signed,
         Identity, NoAccount, Deleted, NoOne, NoFlight, Identities

\* Addresses are lower case spellings.
LEMMA AddressesAreLower ==
    /\ \A s \in Spellings : Lower[s] \in Addresses
    /\ \A a \in Addresses : a \in Spellings /\ Lower[a] = a
  BY AddressesAssumption DEF Addresses

\* At first there is nobody, and no request.
LEMMA SessionInvInit == SessionInit => SessionInv
  <1> SUFFICES ASSUME SessionInit PROVE SessionInv
    OBVIOUS
  <1>1. SessionTypes
    <2>1. Row(Home, 1) \in AccountRows /\ Row(Home, 1).password = 1
      BY AddressesAssumption DEF Row, AccountRows
    <2>2. account \in [Holders -> {NoAccount, Deleted} \cup AccountRows]
      BY <2>1 DEF SessionInit
    <2>3. \A h \in Holders : HasAccount(h) => account[h].password <= changes
      BY <2>1 DEF SessionInit, HasAccount
    <2>4. changes \in 0..MaxChanges
      BY AddressesAssumption DEF SessionInit
    <2> QED BY <2>2, <2>3, <2>4 DEF SessionInit, SessionTypes
  <1>2. \A b \in Browsers : BrowserGood(account, flight, b, cookie[b], remembered[b], expected[b], changes)
    <2> SUFFICES ASSUME NEW b \in Browsers
                 PROVE  BrowserGood(account, flight, b, cookie[b], remembered[b], expected[b], changes)
      OBVIOUS
    <2>1. Of(flight, b) = {}
      BY DEF SessionInit, Of
    <2>2. cookie[b] = NoOne /\ remembered[b] = NoOne /\ expected[b] = NoOne
      BY DEF SessionInit
    <2> QED BY <2>1, <2>2, Forgotten
  <1> QED BY <1>1, <1>2 DEF SessionInv, Clear

\* What the definitions of the model are in these terms
LEMMA SameTerms ==
    /\ \A h : HasAccount(h) = HasIn(account, h) /\ OwnIdentity(h) = OwnIn(account, h)
    /\ \A b : FlightsOf(b) = Of(flight, b)
  BY DEF HasAccount, HasIn, OwnIdentity, OwnIn, FlightsOf, Of

\* Browsers send requests.
LEMMA SendKeeps ==
    ASSUME SessionInv, NEW r \in Requests, NEW b \in Browsers, NEW f, FlightShape(f), f.browser = b, Send(r, b, f),
           f.kind \in {"visit", "edit"} => f.session = Loaded(b) /\ Loads(f.session),
           Reads(f) => HasAccount(f.target) /\ f.read = OwnIdentity(f.target)
    PROVE  SessionInv'
  <1>1. /\ flight' = [flight EXCEPT ![r] = f] /\ flight[r] = NoFlight /\ b \in Clear
        /\ UNCHANGED <<account, changes, cookie, remembered, expected, respelled>>
    BY DEF Send, Ready, Clear
  <1>2. PICK fl : fl = [flight EXCEPT ![r] = f]
    OBVIOUS
  <1>3. flight' = fl /\ fl[r] = f /\ \A q \in Requests \ {r} : fl[q] = flight[q]
    BY <1>1, <1>2 DEF SessionInv, SessionTypes
  <1>4. muddled \subseteq muddled' /\ muddled' \subseteq Browsers
    BY DEF Send, SessionInv, SessionTypes
  <1>5. SessionTypes'
    <2>1. DOMAIN fl = Requests /\ fl = [q \in Requests |-> fl[q]]
      BY <1>2 DEF SessionInv, SessionTypes
    <2>2. \A q \in Requests : fl[q] # NoFlight => FlightShape(fl[q])
      BY <1>3 DEF SessionInv, SessionTypes
    <2> QED BY <1>1, <1>3, <1>4, <2>1, <2>2 DEF SessionInv, SessionTypes, HasAccount
  <1>6. ASSUME NEW c \in Clear'
        PROVE  BrowserGood(account, fl, c, cookie[c], remembered[c], expected[c], changes)
    <2>1. c \in Clear /\ BrowserGood(account, flight, c, cookie[c], remembered[c], expected[c], changes)
      BY <1>1, <1>4 DEF SessionInv, Clear
    <2>2. CASE c # b
      BY <1>3, <2>1, <2>2, Dropped
    <2>3. CASE c = b
      <3>1. \A q \in Of(flight, b) : f.kind = "visit" /\ flight[q].kind = "visit"
        BY <1>6, <2>3, SameTerms DEF Send, Clear
      <3>2. f.kind \in {"visit", "edit"} =>
               /\ f.session \in {cookie[b], remembered[b]} \ {NoOne} /\ HasIn(account, f.session.holder)
               /\ f.session = OwnIn(account, f.session.holder)
        BY SameTerms DEF Loads, Loaded
      <3>3. Reads(f) => HasIn(account, f.target) /\ f.read = OwnIn(account, f.target)
        BY SameTerms
      <3> QED BY <1>1, <1>3, <2>1, <2>3, <3>1, <3>2, <3>3, Sent
    <2> QED BY <2>2, <2>3
  <1> QED BY <1>1, <1>3, <1>5, <1>6, Restated

\* Who owns an account is identified by it.
LEMMA OwnIsIdentity ==
    ASSUME SessionTypes, NEW h \in Holders, HasAccount(h)
    PROVE  /\ account[h] \in AccountRows /\ account[h].address \in Addresses /\ account[h].password \in 0..changes
           /\ OwnIdentity(h) \in Identities /\ OwnIdentity(h).holder = h /\ OwnIdentity(h).address \in Addresses
           /\ OwnIdentity(h).password = account[h].password /\ OwnIdentity(h).address = account[h].address
  <1>1. account[h] \in AccountRows /\ account[h].password <= changes /\ changes \in Nat
    BY AddressesAssumption DEF SessionTypes, HasAccount
  <1>2. account[h].address \in Addresses /\ account[h].password \in Nat
    BY <1>1 DEF AccountRows
  <1>3. account[h].password \in 0..MaxChanges
    BY <1>1, <1>2, AddressesAssumption DEF SessionTypes
  <1> QED BY <1>1, <1>2, <1>3, AddressesAreLower DEF OwnIdentity, Identity, Identities

\* The session a browser is served by names its user.
LEMMA LoadedServes ==
    ASSUME SessionTypes, NEW b \in Browsers, ServedAs(b) # "none"
    PROVE  /\ Loads(Loaded(b)) /\ Loaded(b) \in Identities /\ ServedAs(b) = Loaded(b).holder
           /\ Loaded(b) = OwnIdentity(ServedAs(b)) /\ ServedAs(b) \in Holders
  <1>1. Loads(Loaded(b)) /\ ServedAs(b) = Loaded(b).holder
    BY DEF ServedAs
  <1>2. Loaded(b) \in {NoOne} \cup Identities
    BY DEF Loaded, SessionTypes
  <1>3. Loaded(b) \in Identities /\ Loaded(b) = OwnIdentity(Loaded(b).holder)
    BY <1>1, <1>2 DEF Loads
  <1> QED BY <1>1, <1>3 DEF Identities

\* A page is asked for.
LEMMA VisitKeeps ==
    ASSUME SessionInv, NEW r \in Requests, NEW b \in Browsers, Visit(r, b)
    PROVE  SessionInv'
  <1>1. PICK f : f = [kind |-> "visit", browser |-> b, session |-> Loaded(b)]
    OBVIOUS
  <1>2. f.kind = "visit" /\ f.browser = b /\ f.session = Loaded(b) /\ ~Reads(f)
    BY <1>1 DEF Reads
  <1>3. Loads(Loaded(b)) /\ Loaded(b) \in Identities
    BY LoadedServes DEF Visit, SessionInv
  <1>4. FlightShape(f)
    BY <1>2, <1>3 DEF FlightShape
  <1>5. Send(r, b, f)
    BY <1>1 DEF Visit
  <1> QED BY <1>2, <1>3, <1>4, <1>5, SendKeeps

\* A user asks to be signed out.
LEMMA LogoutKeeps ==
    ASSUME SessionInv, NEW r \in Requests, NEW b \in Browsers, Logout(r, b)
    PROVE  SessionInv'
  <1>1. PICK f : f = [kind |-> "logout", browser |-> b]
    OBVIOUS
  <1>2. f.kind = "logout" /\ f.browser = b /\ ~Reads(f)
    BY <1>1 DEF Reads
  <1>3. FlightShape(f)
    BY <1>2 DEF FlightShape
  <1>4. Send(r, b, f)
    BY <1>1 DEF Logout
  <1> QED BY <1>2, <1>3, <1>4, SendKeeps

\* The edit of a user loads the row.
LEMMA BeginEditKeeps ==
    ASSUME SessionInv, NEW r \in Requests, NEW b \in Browsers, NEW h \in Holders, BeginEdit(r, b, h)
    PROVE  SessionInv'
  <1>1. PICK f : f = [kind |-> "edit", browser |-> b, user |-> ServedAs(b), session |-> Loaded(b),
                      target |-> h, read |-> OwnIdentity(h)]
    OBVIOUS
  <1>2. /\ f.kind = "edit" /\ f.browser = b /\ f.user = ServedAs(b) /\ f.session = Loaded(b)
        /\ f.target = h /\ f.read = OwnIdentity(h)
    BY <1>1
  <1>3. HasAccount(h) /\ ServedAs(b) # "none"
    BY SomeoneIsSomeone, AddressesAssumption DEF BeginEdit
  <1>4. /\ Loads(Loaded(b)) /\ Loaded(b) \in Identities /\ ServedAs(b) = Loaded(b).holder
        /\ Loaded(b) = OwnIdentity(ServedAs(b))
    BY <1>3, LoadedServes DEF SessionInv
  <1>5. OwnIdentity(h) \in Identities /\ OwnIdentity(h).holder = h /\ OwnIdentity(h).address \in Addresses
    BY <1>3, OwnIsIdentity DEF SessionInv
  <1>6. FlightShape(f)
    BY <1>2, <1>4, <1>5 DEF FlightShape
  <1>7. Send(r, b, f)
    BY <1>1 DEF BeginEdit
  <1> QED BY <1>2, <1>3, <1>4, <1>6, <1>7, SendKeeps

\* A link of an invitation or of a lost password is followed.
LEMMA FollowLinkKeeps ==
    ASSUME SessionInv, NEW r \in Requests, NEW b \in Browsers, NEW h \in Holders, FollowLink(r, b, h)
    PROVE  SessionInv'
  <1>1. PICK f : f = [kind |-> "link", browser |-> b, target |-> h, read |-> OwnIdentity(h)]
    OBVIOUS
  <1>2. f.kind = "link" /\ f.browser = b /\ f.target = h /\ f.read = OwnIdentity(h)
    BY <1>1
  <1>3. HasAccount(h) /\ OwnIdentity(h) \in Identities /\ OwnIdentity(h).holder = h
    BY OwnIsIdentity DEF SessionInv, FollowLink
  <1>4. FlightShape(f)
    BY <1>2, <1>3 DEF FlightShape
  <1>5. Send(r, b, f)
    BY <1>1 DEF FollowLink
  <1> QED BY <1>2, <1>3, <1>4, <1>5, SendKeeps

\* Somebody logs in with a password.
LEMMA SubmitLoginKeeps ==
    ASSUME SessionInv, NEW r \in Requests, NEW b \in Browsers, NEW h \in Holders, SubmitLogin(r, b, h)
    PROVE  SessionInv'
  <1>1. PICK f : f = [kind |-> "login", browser |-> b, target |-> h, read |-> OwnIdentity(h)]
    OBVIOUS
  <1>2. f.kind = "login" /\ f.browser = b /\ f.target = h /\ f.read = OwnIdentity(h)
    BY <1>1
  <1>3. HasAccount(h) /\ OwnIdentity(h) \in Identities /\ OwnIdentity(h).holder = h
    BY OwnIsIdentity DEF SessionInv, SubmitLogin
  <1>4. FlightShape(f)
    BY <1>2, <1>3 DEF FlightShape
  <1>5. Send(r, b, f)
    BY <1>1 DEF SubmitLogin
  <1> QED BY <1>2, <1>3, <1>4, <1>5, SendKeeps

\* A provider vouches for somebody, whom an account may be there for.
LEMMA VouchKeeps ==
    ASSUME SessionInv, NEW r \in Requests, NEW b \in Browsers, NEW h \in Holders,
           NEW provider \in Providers, NEW e \in Addresses, Vouch(r, b, provider, h, e)
    PROVE  SessionInv'
  <1>1. CASE WithAddress(e) = {h} /\ Send(r, b, [kind |-> "vouched", browser |-> b, target |-> h,
                         read |-> IF account[h].disabled THEN NoOne ELSE OwnIdentity(h)])
    <2>1. PICK f : f = [kind |-> "vouched", browser |-> b, target |-> h,
                        read |-> IF account[h].disabled THEN NoOne ELSE OwnIdentity(h)]
      OBVIOUS
    <2>2. /\ f.kind = "vouched" /\ f.browser = b /\ f.target = h
          /\ f.read = (IF account[h].disabled THEN NoOne ELSE OwnIdentity(h))
          /\ DOMAIN f = {"kind", "browser", "target", "read"}
      BY <2>1
    <2>3. HasAccount(h)
      BY <1>1 DEF WithAddress
    <2>4. OwnIdentity(h) \in Identities /\ OwnIdentity(h).holder = h
      BY <2>3, OwnIsIdentity DEF SessionInv
    <2>5. FlightShape(f)
      <3>1. f.read = NoOne \/ (f.read \in Identities /\ f.read.holder = f.target)
        BY <2>2, <2>4
      <3>2. "address" \notin DOMAIN f
        BY <2>2
      <3> QED BY <2>2, <3>1, <3>2 DEF FlightShape
    <2>6. Reads(f) => HasAccount(f.target) /\ f.read = OwnIdentity(f.target)
      BY <2>2, <2>3 DEF Reads
    <2>7. Send(r, b, f)
      BY <1>1, <2>1
    <2> QED BY <2>2, <2>5, <2>6, <2>7, SendKeeps
  <1>2. CASE Send(r, b, [kind |-> "vouched", browser |-> b, target |-> h, address |-> e])
    <2>1. PICK f : f = [kind |-> "vouched", browser |-> b, target |-> h, address |-> e]
      OBVIOUS
    <2>2. /\ f.kind = "vouched" /\ f.browser = b /\ f.target = h /\ f.address = e
          /\ DOMAIN f = {"kind", "browser", "target", "address"}
      BY <2>1
    <2>3. FlightShape(f)
      BY <2>2 DEF FlightShape
    <2>4. ~Reads(f)
      BY <2>2 DEF Reads
    <2>5. Send(r, b, f)
      BY <1>2, <2>1
    <2> QED BY <2>2, <2>3, <2>4, <2>5, SendKeeps
  <1> QED BY <1>1, <1>2 DEF Vouch

\* A response reaches the browser: the types of what it leaves.
LEMMA AnswerTypes ==
    ASSUME SessionTypes, NEW r \in Requests, flight[r] # NoFlight,
           NEW session \in {NoOne} \cup Identities, NEW keeps \in {NoOne, Keep} \cup Identities, Answer(r, session, keeps)
    PROVE  /\ cookie' \in [Browsers -> {NoOne} \cup Identities]
           /\ remembered' \in [Browsers -> {NoOne} \cup Identities]
           /\ DOMAIN flight' = Requests /\ flight' = [q \in Requests |-> flight'[q]]
           /\ \A q \in Requests : flight'[q] # NoFlight => FlightShape(flight'[q])
           /\ flight'[r] = NoFlight /\ \A q \in Requests \ {r} : flight'[q] = flight[q]
           /\ flight[r].browser \in Browsers /\ FlightShape(flight[r])
           /\ cookie'[flight[r].browser] = session
           /\ remembered'[flight[r].browser] = IF keeps = Keep THEN remembered[flight[r].browser] ELSE keeps
           /\ \A b \in Browsers \ {flight[r].browser} : cookie'[b] = cookie[b] /\ remembered'[b] = remembered[b]
  <1>1. PICK b : b = flight[r].browser
    OBVIOUS
  <1>2. FlightShape(flight[r]) /\ b \in Browsers
    BY <1>1 DEF SessionTypes, FlightShape
  <1>3. /\ cookie' = [cookie EXCEPT ![b] = session]
        /\ remembered' = [remembered EXCEPT ![b] = IF keeps = Keep THEN remembered[b] ELSE keeps]
        /\ flight' = [flight EXCEPT ![r] = NoFlight]
    BY <1>1 DEF Answer
  <1>4. PICK k : k = IF keeps = Keep THEN remembered[b] ELSE keeps
    OBVIOUS
  <1>5. k \in {NoOne} \cup Identities
    BY <1>2, <1>4 DEF SessionTypes
  <1>6. cookie' \in [Browsers -> {NoOne} \cup Identities] /\ cookie'[b] = session
        /\ \A c \in Browsers \ {b} : cookie'[c] = cookie[c]
    BY <1>2, <1>3 DEF SessionTypes
  <1>7. remembered' \in [Browsers -> {NoOne} \cup Identities] /\ remembered'[b] = k
        /\ \A c \in Browsers \ {b} : remembered'[c] = remembered[c]
    BY <1>2, <1>3, <1>4, <1>5 DEF SessionTypes
  <1>8. PICK fl : fl = [flight EXCEPT ![r] = NoFlight]
    OBVIOUS
  <1>9. DOMAIN fl = Requests /\ fl = [q \in Requests |-> fl[q]]
        /\ fl[r] = NoFlight /\ \A q \in Requests \ {r} : fl[q] = flight[q]
    BY <1>8 DEF SessionTypes
  <1>10. \A q \in Requests : fl[q] # NoFlight => FlightShape(fl[q])
    BY <1>9 DEF SessionTypes
  <1>11. flight' = fl
    BY <1>3, <1>8
  <1> QED BY <1>1, <1>2, <1>4, <1>6, <1>7, <1>9, <1>10, <1>11

\* Browsers whose request this is not.
LEMMA OthersAfter ==
    ASSUME SessionInv, NEW r \in Requests, flight'[r] = NoFlight, \A q \in Requests \ {r} : flight'[q] = flight[q],
           NEW b \in Clear
    PROVE  BrowserGood(account, flight', b, cookie[b], remembered[b], expected[b], changes)
  <1>1. PICK fl : fl = flight'
    OBVIOUS
  <1>2. \A q \in Requests : fl[q] = flight[q] \/ fl[q] = NoFlight \/ fl[q].browser # b
    BY <1>1
  <1>3. BrowserGood(account, flight, b, cookie[b], remembered[b], expected[b], changes)
    BY DEF SessionInv
  <1> QED BY <1>1, <1>2, <1>3, Dropped

\* A visit ends.
LEMMA EndVisitKeeps ==
    ASSUME SessionInv, NEW r \in Requests, EndVisit(r)
    PROVE  SessionInv'
  <1>1. flight[r].kind = "visit" /\ flight[r] # NoFlight
    BY SomeoneIsSomeone DEF EndVisit, InFlight
  <1>2. PICK s : s = flight[r].session
    OBVIOUS
  <1>3. FlightShape(flight[r]) /\ s \in Identities
    BY <1>1, <1>2 DEF SessionInv, SessionTypes, FlightShape
  <1>4. Answer(r, s, Keep) /\ UNCHANGED <<account, changes, expected, muddled, respelled>>
    BY <1>2 DEF EndVisit
  <1>5. /\ cookie' \in [Browsers -> {NoOne} \cup Identities]
        /\ remembered' \in [Browsers -> {NoOne} \cup Identities]
        /\ DOMAIN flight' = Requests /\ flight' = [q \in Requests |-> flight'[q]]
        /\ \A q \in Requests : flight'[q] # NoFlight => FlightShape(flight'[q])
        /\ flight'[r] = NoFlight /\ \A q \in Requests \ {r} : flight'[q] = flight[q]
        /\ flight[r].browser \in Browsers
        /\ cookie'[flight[r].browser] = s
        /\ remembered'[flight[r].browser] = remembered[flight[r].browser]
        /\ \A b \in Browsers \ {flight[r].browser} : cookie'[b] = cookie[b] /\ remembered'[b] = remembered[b]
    BY <1>1, <1>3, <1>4, AnswerTypes DEF SessionInv
  <1>6. SessionTypes'
    BY <1>4, <1>5 DEF SessionInv, SessionTypes, HasAccount
  <1>7. ASSUME NEW b \in Clear'
        PROVE  BrowserGood(account, flight', b, cookie'[b], remembered'[b], expected[b], changes)
    <2>1. b \in Clear
      BY <1>4, <1>7 DEF Clear
    <2>2. CASE b # flight[r].browser
      BY <1>5, <2>1, <2>2, OthersAfter DEF Clear
    <2>3. CASE b = flight[r].browser
      <3>1. BrowserGood(account, flight, b, cookie[b], remembered[b], expected[b], changes)
        BY <2>1 DEF SessionInv
      <3>2. r \in Of(flight, b)
        BY <1>1, <2>3 DEF Of
      <3>3. s # NoOne
        BY <1>3, SomeoneIsSomeone
      <3>4. BrowserGood(account, flight, b, s, remembered[b], expected[b], changes)
        BY <1>1, <1>2, <3>1, <3>2, <3>3, CameBack
      <3>5. PICK fl : fl = flight'
        OBVIOUS
      <3>6. \A q \in Requests : fl[q] = flight[q] \/ fl[q] = NoFlight \/ fl[q].browser # b
        BY <1>5, <3>5
      <3>7. BrowserGood(account, fl, b, s, remembered[b], expected[b], changes)
        BY <3>4, <3>6, Dropped
      <3> QED BY <1>5, <2>3, <3>5, <3>7
    <2> QED BY <2>2, <2>3
  <1> QED BY <1>4, <1>6, <1>7, Restated

\* A request is refused, and nothing happens.
LEMMA RefuseKeeps ==
    ASSUME SessionInv, NEW r \in Requests, Refuse(r)
    PROVE  SessionInv'
  <1>1. PICK fl : fl = [flight EXCEPT ![r] = NoFlight]
    OBVIOUS
  <1>2. /\ DOMAIN fl = Requests /\ fl = [q \in Requests |-> fl[q]]
        /\ fl[r] = NoFlight /\ \A q \in Requests \ {r} : fl[q] = flight[q]
    BY <1>1 DEF SessionInv, SessionTypes
  <1>3. flight' = fl /\ UNCHANGED <<account, changes, cookie, remembered, expected, muddled, respelled>>
    BY <1>1 DEF Refuse
  <1>4. \A q \in Requests : fl[q] # NoFlight => FlightShape(fl[q])
    BY <1>2 DEF SessionInv, SessionTypes
  <1>5. SessionTypes'
    BY <1>2, <1>3, <1>4 DEF SessionInv, SessionTypes, HasAccount
  <1>6. \A b \in Clear' : BrowserGood(account, flight', b, cookie[b], remembered[b], expected[b], changes)
    BY <1>2, <1>3, OthersAfter DEF Clear
  <1> QED BY <1>3, <1>5, <1>6, Restated

\* A user is signed out.
LEMMA SignOutKeeps ==
    ASSUME SessionInv, NEW r \in Requests, SignOut(r)
    PROVE  SessionInv'
  <1>1. flight[r].kind \in {"logout", "vouched"} /\ flight[r] # NoFlight
    BY SomeoneIsSomeone DEF SignOut, LogsOut, InFlight
  <1>2. PICK o : o = flight[r].browser
    OBVIOUS
  <1>3. /\ Answer(r, NoOne, NoOne) /\ UNCHANGED <<account, changes, muddled, respelled>>
        /\ expected' = [expected EXCEPT ![o] = NoOne]
    BY <1>2 DEF SignOut
  <1>4. NoOne # Keep
    BY DEF NoOne, Keep
  <1>5. /\ cookie' \in [Browsers -> {NoOne} \cup Identities]
        /\ remembered' \in [Browsers -> {NoOne} \cup Identities]
        /\ DOMAIN flight' = Requests /\ flight' = [q \in Requests |-> flight'[q]]
        /\ \A q \in Requests : flight'[q] # NoFlight => FlightShape(flight'[q])
        /\ flight'[r] = NoFlight /\ \A q \in Requests \ {r} : flight'[q] = flight[q]
        /\ o \in Browsers /\ cookie'[o] = NoOne /\ remembered'[o] = NoOne
        /\ \A b \in Browsers \ {o} : cookie'[b] = cookie[b] /\ remembered'[b] = remembered[b]
    BY <1>1, <1>2, <1>3, <1>4, AnswerTypes DEF SessionInv
  <1>6. expected' \in [Browsers -> {NoOne} \cup [holder : Holders]] /\ expected'[o] = NoOne
        /\ \A b \in Browsers \ {o} : expected'[b] = expected[b]
    BY <1>3, <1>5 DEF SessionInv, SessionTypes
  <1>7. SessionTypes'
    BY <1>3, <1>5, <1>6 DEF SessionInv, SessionTypes, HasAccount
  <1>8. ASSUME NEW b \in Clear'
        PROVE  BrowserGood(account, flight', b, cookie'[b], remembered'[b], expected'[b], changes)
    <2>1. b \in Clear /\ b \in Browsers
      BY <1>3, <1>8 DEF Clear
    <2>2. CASE b # o
      BY <1>5, <1>6, <2>1, <2>2, OthersAfter
    <2>3. CASE b = o
      <3>1. BrowserGood(account, flight, b, cookie[b], remembered[b], expected[b], changes)
        BY <2>1 DEF SessionInv
      <3>2. r \in Of(flight, b) /\ flight[r].kind # "visit"
        BY <1>1, <1>2, <2>3 DEF Of
      <3>3. PICK fl : fl = flight'
        OBVIOUS
      <3>4. Of(fl, b) = {}
        BY <1>5, <3>1, <3>2, <3>3, LastOne
      <3> QED BY <1>5, <1>6, <2>3, <3>3, <3>4, Forgotten
    <2> QED BY <2>2, <2>3
  <1> QED BY <1>3, <1>7, <1>8, Restated

\* The requests of a browser that are in flight have a shape.
LEMMA ReadsShape ==
    ASSUME SessionTypes, NEW q \in Requests, flight[q] # NoFlight, Reads(flight[q])
    PROVE  flight[q].target \in Holders /\ flight[q].kind \in Signing /\ flight[q].browser \in Browsers
  BY DEF SessionTypes, FlightShape, Reads, Signing

\* A row that is written: the types of what that leaves.
LEMMA RowTypes ==
    ASSUME SessionTypes, NEW h \in Holders, NEW x \in {Deleted} \cup AccountRows, x \in AccountRows => x.password <= changes',
           account' = [account EXCEPT ![h] = x], changes' \in changes..MaxChanges
    PROVE  /\ account' \in [Holders -> {NoAccount, Deleted} \cup AccountRows]
           /\ \A k \in Holders : HasAccount(k)' => account'[k].password <= changes'
           /\ account'[h] = x /\ \A k \in Holders \ {h} : account'[k] = account[k]
           /\ account'[h] # NoAccount
           /\ changes' \in 0..MaxChanges /\ changes \in Nat /\ changes' \in Nat /\ changes <= changes'
  <1>1. changes \in Nat /\ changes' \in 0..MaxChanges /\ changes' \in Nat /\ changes <= changes'
    BY AddressesAssumption DEF SessionTypes
  <1>2. account' \in [Holders -> {NoAccount, Deleted} \cup AccountRows]
        /\ account'[h] = x /\ \A k \in Holders \ {h} : account'[k] = account[k]
    BY DEF SessionTypes
  <1>3. \A k \in Holders : account[k] \notin {NoAccount, Deleted} =>
           account[k].password <= changes /\ account[k].password \in Nat
    BY DEF SessionTypes, HasAccount, AccountRows
  <1>4. ASSUME NEW k \in Holders, account'[k] \notin {NoAccount, Deleted}
        PROVE  account'[k].password <= changes'
    <2>1. CASE k = h
      BY <1>2, <1>4, <2>1
    <2>2. CASE k # h
      BY <1>1, <1>2, <1>3, <1>4, <2>2
    <2> QED BY <2>1, <2>2
  <1>5. x # NoAccount
    BY SomeoneIsSomeone
  <1> QED BY <1>1, <1>2, <1>4, <1>5 DEF HasAccount

\* A new user: no browser has named one.
LEMMA CreatedGood ==
    ASSUME SessionInv, NEW h \in Holders, account[h] = NoAccount, NEW x \in AccountRows, NEW acc,
           acc[h] = x, \A k \in Holders \ {h} : acc[k] = account[k], NEW ch \in Nat, changes \in Nat, changes <= ch, NEW b \in Clear,
           NEW fl, \A q \in Requests : fl[q] = flight[q] \/ fl[q] = NoFlight \/ fl[q].browser # b
    PROVE  BrowserGood(acc, fl, b, cookie[b], remembered[b], expected[b], ch)
  <1>1. BrowserGood(account, flight, b, cookie[b], remembered[b], expected[b], changes)
    BY DEF SessionInv
  <1>2. BrowserGood(account, fl, b, cookie[b], remembered[b], expected[b], changes)
    BY <1>1, Dropped
  <1>3. acc[h] # NoAccount
    BY SomeoneIsSomeone
  <1>4. OwnIn(acc, h) \notin Held(fl, b, cookie[b], remembered[b])
    <2>1. OwnIn(acc, h).holder = h
      BY DEF OwnIn, Identity
    <2> QED BY <1>2, <2>1 DEF BrowserGood, OneUser
  <1>5. \A q \in Of(fl, b) : Reads(fl[q]) => fl[q].target \in Holders \ {h}
    <2> SUFFICES ASSUME NEW q \in Of(fl, b), Reads(fl[q]) PROVE fl[q].target \in Holders \ {h}
      OBVIOUS
    <2>1. q \in Requests /\ fl[q] = flight[q] /\ flight[q] # NoFlight
      BY DEF Of
    <2>2. fl[q].target \in Holders
      BY <2>1, ReadsShape DEF SessionInv
    <2>3. HasIn(account, fl[q].target)
      BY <1>2 DEF BrowserGood, ReadsCurrent
    <2> QED BY <2>2, <2>3 DEF HasIn
  <1>6. PICK ex : ex = expected[b]
    OBVIOUS
  <1>7. ex = IF ex = Signed(h) THEN NoOne ELSE ex
    BY <1>2, <1>6 DEF BrowserGood, StillSigned, HasIn
  <1>8. BrowserGood(acc, fl, b, cookie[b], remembered[b], ex, changes)
    BY <1>2, <1>3, <1>4, <1>5, <1>6, <1>7, OtherRow
  <1> QED BY <1>6, <1>8, Later

\* An administrator invites a new user.
LEMMA CreateUserKeeps ==
    ASSUME SessionInv, NEW b \in Browsers, NEW h \in Holders, NEW e \in Addresses, CreateUser(b, h, e)
    PROVE  SessionInv'
  <1>1. PICK x : x = Row(e, 0)
    OBVIOUS
  <1>2. changes \in 0..MaxChanges /\ changes \in Nat
    BY AddressesAssumption DEF SessionInv, SessionTypes
  <1>3. x \in AccountRows /\ x.password <= changes
    BY <1>1, <1>2 DEF Row, AccountRows
  <1>4. /\ account' = [account EXCEPT ![h] = x] /\ account[h] = NoAccount
        /\ UNCHANGED <<changes, cookie, remembered, flight, expected, muddled, respelled>>
    BY <1>1 DEF CreateUser
  <1>5. SessionTypes'
    <2>1. changes' \in changes..MaxChanges /\ x.password <= changes'
      BY <1>2, <1>3, <1>4
    <2>2. /\ account' \in [Holders -> {NoAccount, Deleted} \cup AccountRows]
          /\ \A k \in Holders : HasAccount(k)' => account'[k].password <= changes'
          /\ changes' \in 0..MaxChanges
      BY <1>3, <1>4, <2>1, RowTypes DEF SessionInv
    <2> QED BY <1>4, <2>2 DEF SessionInv, SessionTypes
  <1>6. PICK acc : acc = [account EXCEPT ![h] = x]
    OBVIOUS
  <1>7. \A c \in Clear' : BrowserGood(acc, flight, c, cookie[c], remembered[c], expected[c], changes)
    <2> SUFFICES ASSUME NEW c \in Clear'
                 PROVE  BrowserGood(acc, flight, c, cookie[c], remembered[c], expected[c], changes)
      OBVIOUS
    <2>1. c \in Clear
      BY <1>4 DEF Clear
    <2>2. PICK ch \in Nat : ch = changes /\ changes <= ch
      BY <1>2
    <2>3. acc[h] = x /\ \A k \in Holders \ {h} : acc[k] = account[k]
      BY <1>6 DEF SessionInv, SessionTypes
    <2>4. BrowserGood(acc, flight, c, cookie[c], remembered[c], expected[c], ch)
      BY <1>2, <1>3, <1>4, <2>1, <2>2, <2>3, CreatedGood
    <2> QED BY <2>2, <2>4
  <1> QED BY <1>4, <1>5, <1>6, <1>7, Restated

\* The command line creates a user.
LEMMA CommandCreateKeeps ==
    ASSUME SessionInv, NEW h \in Holders, NEW e \in Addresses, NEW withPassword \in BOOLEAN,
           CommandCreate(h, e, withPassword)
    PROVE  SessionInv'
  <1>1. PICK x : x = Row(e, IF withPassword THEN changes + 1 ELSE 0)
    OBVIOUS
  <1>2. changes \in 0..MaxChanges /\ changes \in Nat /\ changes < MaxChanges /\ MaxChanges \in Nat
    BY AddressesAssumption DEF SessionInv, SessionTypes, CommandCreate
  <1>3. x \in AccountRows /\ x.password <= changes + 1
    BY <1>1, <1>2 DEF Row, AccountRows
  <1>4. /\ account' = [account EXCEPT ![h] = x] /\ account[h] = NoAccount /\ changes' = changes + 1
        /\ UNCHANGED <<cookie, remembered, flight, expected, muddled, respelled>>
    BY <1>1 DEF CommandCreate
  <1>5. SessionTypes'
    <2>1. changes' \in changes..MaxChanges /\ x.password <= changes'
      BY <1>2, <1>3, <1>4
    <2>2. /\ account' \in [Holders -> {NoAccount, Deleted} \cup AccountRows]
          /\ \A k \in Holders : HasAccount(k)' => account'[k].password <= changes'
          /\ changes' \in 0..MaxChanges
      BY <1>3, <1>4, <2>1, RowTypes DEF SessionInv
    <2> QED BY <1>4, <2>2 DEF SessionInv, SessionTypes
  <1>6. PICK acc : acc = [account EXCEPT ![h] = x]
    OBVIOUS
  <1>7. \A c \in Clear' : BrowserGood(acc, flight, c, cookie[c], remembered[c], expected[c], changes + 1)
    <2> SUFFICES ASSUME NEW c \in Clear'
                 PROVE  BrowserGood(acc, flight, c, cookie[c], remembered[c], expected[c], changes + 1)
      OBVIOUS
    <2>1. c \in Clear
      BY <1>4 DEF Clear
    <2>2. PICK ch \in Nat : ch = changes + 1 /\ changes <= ch
      BY <1>2
    <2>3. acc[h] = x /\ \A k \in Holders \ {h} : acc[k] = account[k]
      BY <1>6 DEF SessionInv, SessionTypes
    <2>4. BrowserGood(acc, flight, c, cookie[c], remembered[c], expected[c], ch)
      BY <1>2, <1>3, <1>4, <2>1, <2>2, <2>3, CreatedGood
    <2> QED BY <2>2, <2>4
  <1> QED BY <1>4, <1>5, <1>6, <1>7, Restated

\* Browsers with requests that have read the row of h
LEMMA NotReadBy ==
    ASSUME SessionTypes, NEW h, NEW b, b \notin ReadBy(h)
    PROVE  \A q \in Of(flight, b) : Reads(flight[q]) => flight[q].target \in Holders \ {h}
  BY ReadsShape DEF ReadBy, Of

\* A row is deleted: nobody is signed in as its user.
LEMMA DeleteKeeps ==
    ASSUME SessionInv, NEW h \in Holders, Delete(h)
    PROVE  SessionInv'
  <1>1. PICK acc : acc = [account EXCEPT ![h] = Deleted]
    OBVIOUS
  <1>2. PICK ex : ex = [b \in Browsers |-> IF expected[b] = Signed(h) THEN NoOne ELSE expected[b]]
    OBVIOUS
  <1>3. /\ account' = acc /\ expected' = ex /\ muddled' = muddled \cup ReadBy(h)
        /\ UNCHANGED <<changes, cookie, remembered, flight, respelled>>
    BY <1>1, <1>2 DEF Delete, Signed
  <1>4. changes \in 0..MaxChanges /\ changes \in Nat /\ changes' \in changes..MaxChanges
    BY <1>3, AddressesAssumption DEF SessionInv, SessionTypes
  <1>5. Deleted \notin AccountRows
    BY SomeoneIsSomeone
  <1>6. /\ account' \in [Holders -> {NoAccount, Deleted} \cup AccountRows]
        /\ \A k \in Holders : HasAccount(k)' => account'[k].password <= changes'
        /\ account'[h] = Deleted /\ \A k \in Holders \ {h} : account'[k] = account[k]
        /\ account'[h] # NoAccount
    BY <1>1, <1>3, <1>4, <1>5, RowTypes DEF SessionInv
  <1>7. ReadBy(h) \subseteq Browsers
    BY DEF ReadBy, SessionInv, SessionTypes, FlightShape, Signing, NoFlight
  <1>8. ex \in [Browsers -> {NoOne} \cup [holder : Holders]]
    BY <1>2 DEF SessionInv, SessionTypes
  <1>9. SessionTypes'
    BY <1>3, <1>6, <1>7, <1>8 DEF SessionInv, SessionTypes
  <1>10. ASSUME NEW b \in Clear'
         PROVE  BrowserGood(acc, flight, b, cookie[b], remembered[b], ex[b], changes)
    <2>1. b \in Clear /\ b \in Browsers /\ b \notin ReadBy(h)
      BY <1>3, <1>10 DEF Clear
    <2>2. BrowserGood(account, flight, b, cookie[b], remembered[b], expected[b], changes)
      BY <2>1 DEF SessionInv
    <2>3. \A q \in Of(flight, b) : Reads(flight[q]) => flight[q].target \in Holders \ {h}
      BY <2>1, NotReadBy DEF SessionInv
    <2>4. ~HasIn(acc, h)
      BY <1>3, <1>6 DEF HasIn
    <2>5. ex[b] = IF expected[b] = Signed(h) THEN NoOne ELSE expected[b]
      BY <1>2, <2>1
    <2> QED BY <1>3, <1>6, <2>2, <2>3, <2>4, <2>5, OtherRow
  <1> QED BY <1>3, <1>9, <1>10, Restated

\* A user is disabled or enabled, and identified as before.
LEMMA SetDisabledKeeps ==
    ASSUME SessionInv, NEW b \in Browsers, NEW h \in Holders, NEW disabled \in BOOLEAN, SetDisabled(b, h, disabled)
    PROVE  SessionInv'
  <1>1. PICK x : x = [account[h] EXCEPT !.disabled = disabled]
    OBVIOUS
  <1>2. account[h] \in AccountRows /\ account[h].password \in 0..changes
    BY OwnIsIdentity DEF SetDisabled, SessionInv
  <1>3. x \in AccountRows /\ x.password = account[h].password /\ x.address = account[h].address
    BY <1>1, <1>2 DEF AccountRows
  <1>4. changes \in 0..MaxChanges /\ changes \in Nat /\ changes \in changes..MaxChanges
    BY AddressesAssumption DEF SessionInv, SessionTypes
  <1>5. PICK acc : acc = [account EXCEPT ![h] = x]
    OBVIOUS
  <1>6. /\ account' = acc
        /\ UNCHANGED <<changes, cookie, remembered, flight, expected, muddled, respelled>>
    BY <1>1, <1>5 DEF SetDisabled
  <1>7. x.password <= changes'
    BY <1>2, <1>3, <1>4, <1>6
  <1>8. /\ account' \in [Holders -> {NoAccount, Deleted} \cup AccountRows]
        /\ \A k \in Holders : HasAccount(k)' => account'[k].password <= changes'
        /\ account'[h] = x /\ \A k \in Holders \ {h} : account'[k] = account[k]
    BY <1>3, <1>4, <1>5, <1>6, <1>7, RowTypes DEF SessionInv
  <1>9. SessionTypes'
    BY <1>6, <1>8 DEF SessionInv, SessionTypes
  <1>10. \A k \in Holders : /\ HasIn(acc, k) <=> HasIn(account, k)
                            /\ HasIn(account, k) => OwnIn(acc, k) = OwnIn(account, k)
                            /\ account[k] # NoAccount => acc[k] # NoAccount
    BY <1>2, <1>3, <1>6, <1>8, SomeoneIsSomeone DEF HasIn, OwnIn
  <1>11. ASSUME NEW c \in Clear'
         PROVE  BrowserGood(acc, flight, c, cookie[c], remembered[c], expected[c], changes)
    <2>1. BrowserGood(account, flight, c, cookie[c], remembered[c], expected[c], changes)
      BY <1>6, <1>11 DEF Clear, SessionInv
    <2>2. \A q \in Of(flight, c) : Reads(flight[q]) => flight[q].target \in Holders
      BY ReadsShape DEF Of, SessionInv
    <2> QED BY <1>10, <2>1, <2>2, SameIdentities
  <1> QED BY <1>6, <1>9, <1>11, Restated

\* The identity of h changes: who is signed in as h is so no more.
LEMMA Reidentified ==
    ASSUME NEW acc, NEW fl, NEW b, NEW ck, NEW rm, NEW ex, NEW ch \in Nat, BrowserGood(acc, fl, b, ck, rm, ex, ch),
           NEW h \in Holders, NEW acc2, \A k \in Holders \ {h} : acc2[k] = acc[k], HasIn(acc, h), acc2[h] \in AccountRows,
           \A q \in Of(fl, b) : Reads(fl[q]) => fl[q].target \in Holders,
           NEW i, i = OwnIn(acc2, h),
           i = OwnIn(acc, h)
             \/ (i \notin Held(fl, b, ck, rm) /\ \A q \in Of(fl, b) : Reads(fl[q]) => fl[q].target # h),
           NEW ex2, ex2 = IF i # OwnIn(acc, h) /\ ex = Signed(h) THEN NoOne ELSE ex, NEW ch2 \in Nat, ch <= ch2
    PROVE  BrowserGood(acc2, fl, b, ck, rm, ex2, ch2)
  <1>1. acc2[h] # NoAccount /\ HasIn(acc2, h)
    BY SomeoneIsSomeone DEF HasIn
  <1>2. BrowserGood(acc2, fl, b, ck, rm, ex2, ch)
    <2>1. CASE i = OwnIn(acc, h)
      <3>1. \A k \in Holders : /\ HasIn(acc2, k) <=> HasIn(acc, k)
                               /\ HasIn(acc, k) => OwnIn(acc2, k) = OwnIn(acc, k)
                               /\ acc[k] # NoAccount => acc2[k] # NoAccount
        <4> SUFFICES ASSUME NEW k \in Holders
                     PROVE  /\ HasIn(acc2, k) <=> HasIn(acc, k)
                            /\ HasIn(acc, k) => OwnIn(acc2, k) = OwnIn(acc, k)
                            /\ acc[k] # NoAccount => acc2[k] # NoAccount
          OBVIOUS
        <4>1. CASE k = h
          BY <1>1, <2>1, <4>1
        <4>2. CASE k # h
          BY <4>2 DEF HasIn, OwnIn
        <4> QED BY <4>1, <4>2
      <3> QED BY <2>1, <3>1, SameIdentities
    <2>2. CASE i # OwnIn(acc, h)
      <3>1. \A q \in Of(fl, b) : Reads(fl[q]) => fl[q].target \in Holders \ {h}
        BY <2>2
      <3>2. ex2 = IF ex = Signed(h) THEN NoOne ELSE ex
        BY <2>2
      <3>3. OwnIn(acc2, h) \notin Held(fl, b, ck, rm)
        BY <2>2
      <3> QED BY <1>1, <3>1, <3>2, <3>3, OtherRow
    <2> QED BY <2>1, <2>2
  <1> QED BY <1>2, Later

\* The row of h with another address or password
LEMMA NewIdentity ==
    ASSUME SessionTypes, NEW h \in Holders, HasAccount(h), NEW a \in Addresses, NEW p \in 0..changes',
           changes' \in changes..MaxChanges,
           Reidentify(h, Identity(h, a, p))
    PROVE  /\ account' \in [Holders -> {NoAccount, Deleted} \cup AccountRows]
           /\ \A k \in Holders : HasAccount(k)' => account'[k].password <= changes'
           /\ account'[h] \in AccountRows /\ \A k \in Holders \ {h} : account'[k] = account[k]
           /\ OwnIn(account', h) = Identity(h, a, p)
           /\ changes' \in 0..MaxChanges /\ changes \in Nat /\ changes' \in Nat /\ changes <= changes'
           /\ Identity(h, a, p) \in Identities
  <1>1. PICK x : x = [account[h] EXCEPT !.address = a, !.password = p]
    OBVIOUS
  <1>2. account[h] \in AccountRows
    BY OwnIsIdentity
  <1>3. changes \in Nat /\ changes' \in Nat /\ p \in Nat /\ p <= changes'
    BY AddressesAssumption DEF SessionTypes
  <1>4. x \in AccountRows /\ x.address = a /\ x.password = p
    BY <1>1, <1>2, <1>3 DEF AccountRows
  <1>5. account' = [account EXCEPT ![h] = x]
    <2>1. Identity(h, a, p).address = a /\ Identity(h, a, p).password = p
      BY DEF Identity
    <2>2. account' = [account EXCEPT ![h].address = a, ![h].password = p]
      BY <2>1 DEF Reidentify
    <2>3. [account EXCEPT ![h].address = a, ![h].password = p] = [account EXCEPT ![h] = x]
      BY <1>1 DEF SessionTypes
    <2> QED BY <2>2, <2>3
  <1>6. /\ account' \in [Holders -> {NoAccount, Deleted} \cup AccountRows]
        /\ \A k \in Holders : HasAccount(k)' => account'[k].password <= changes'
        /\ account'[h] = x /\ \A k \in Holders \ {h} : account'[k] = account[k]
        /\ changes' \in 0..MaxChanges /\ changes <= changes'
    BY <1>3, <1>4, <1>5, RowTypes
  <1>7. OwnIn(account', h) = Identity(h, a, p)
    BY <1>4, <1>6 DEF OwnIn
  <1>8. Identity(h, a, p) \in Identities
    <2>1. p \in 0..MaxChanges
      BY <1>3, AddressesAssumption
    <2> QED BY <2>1, AddressesAreLower DEF Identity, Identities
  <1> QED BY <1>3, <1>4, <1>6, <1>7, <1>8

\* Browsers that have nothing to do with the request that changes the identity of h
LEMMA OthersReidentified ==
    ASSUME SessionInv, NEW r \in Requests, flight[r] # NoFlight,
           NEW h \in Holders, HasAccount(h), NEW acc, \A k \in Holders \ {h} : acc[k] = account[k], acc[h] \in AccountRows,
           NEW i \in Identities, i = OwnIn(acc, h), NEW ch \in Nat, changes \in Nat, changes <= ch,
           NEW fl, fl[r] = NoFlight, \A q \in Requests \ {r} : fl[q] = flight[q],
           NEW own \in {flight[r].browser, "none"}, NEW b \in Clear, b # flight[r].browser, b \notin Muddled(r, h, i)
    PROVE  BrowserGood(acc, fl, b, cookie[b], remembered[b], Ended(h, i, own)[b], ch)
  <1>1. PICK ck, rm, ex : ck = cookie[b] /\ rm = remembered[b] /\ ex = expected[b]
    OBVIOUS
  <1>2. BrowserGood(account, flight, b, ck, rm, ex, changes)
    BY <1>1 DEF SessionInv
  <1>3. \A q \in Requests : fl[q] = flight[q] \/ fl[q] = NoFlight \/ fl[q].browser # b
    OBVIOUS
  <1>4. BrowserGood(account, fl, b, ck, rm, ex, changes)
    BY <1>2, <1>3, Dropped
  <1>5. \A q \in Of(fl, b) : q \in Requests \ {r} /\ fl[q] = flight[q] /\ flight[q] # NoFlight /\ flight[q].browser = b
    BY DEF Of
  <1>6. \A q \in Of(fl, b) : Reads(fl[q]) => fl[q].target \in Holders /\ fl[q].kind \in Signing
    BY <1>5, ReadsShape DEF SessionInv
  <1>7. b \in Browsers /\ b # "none" /\ b # own
    BY SomeoneIsSomeone DEF Clear
  <1>8. PICK ex2 : ex2 = Ended(h, i, own)[b]
    OBVIOUS
  <1>9. ex2 = IF i # OwnIn(account, h) /\ ex = Signed(h) THEN NoOne ELSE ex
    BY <1>1, <1>7, <1>8, SameTerms DEF Ended, Signed
  <1>10. i = OwnIn(account, h)
             \/ (i \notin Held(fl, b, ck, rm) /\ \A q \in Of(fl, b) : Reads(fl[q]) => fl[q].target # h)
    <2> SUFFICES ASSUME i # OwnIn(account, h)
                 PROVE  i \notin Held(fl, b, ck, rm) /\ \A q \in Of(fl, b) : Reads(fl[q]) => fl[q].target # h
      OBVIOUS
    <2>1. i # OwnIdentity(h)
      BY SameTerms
    <2>2. b \notin ReadByOthers(r, h) /\ b \notin Naming(i)
      BY <2>1 DEF Muddled
    <2>3. i \notin Held(fl, b, ck, rm)
      <3>1. i \notin {cookie[b], remembered[b]}
        BY <1>7, <2>2 DEF Naming
      <3>2. \A q \in Of(fl, b) : fl[q].kind \in {"visit", "edit"} => fl[q].session # i
        BY <1>5, <1>7, <2>2 DEF Naming, FlightsOf
      <3> QED BY <1>1, <3>1, <3>2 DEF Held
    <2>4. \A q \in Of(fl, b) : Reads(fl[q]) => fl[q].target # h
      BY <1>5, <1>6, <2>2 DEF ReadByOthers
    <2> QED BY <2>3, <2>4
  <1>11. HasIn(account, h)
    BY SameTerms
  <1>12. \A q \in Of(fl, b) : Reads(fl[q]) => fl[q].target \in Holders
    BY <1>6
  <1>13. BrowserGood(acc, fl, b, ck, rm, ex2, ch)
    BY <1>4, <1>9, <1>10, <1>11, <1>12, Reidentified
  <1> QED BY <1>1, <1>8, <1>13

\* The command that sets a password: no cookie names the new one yet.
LEMMA CommandPasswordKeeps ==
    ASSUME SessionInv, NEW h \in Holders, CommandPassword(h)
    PROVE  SessionInv'
  <1>1. PICK i : i = Identity(h, account[h].address, changes + 1)
    OBVIOUS
  <1>2. /\ HasAccount(h) /\ changes < MaxChanges /\ Reidentify(h, i) /\ changes' = changes + 1
        /\ expected' = Ended(h, i, "none") /\ muddled' = muddled \cup ReadBy(h)
        /\ UNCHANGED <<cookie, remembered, flight, respelled>>
    BY <1>1 DEF CommandPassword
  <1>3. changes \in Nat /\ changes' \in changes..MaxChanges /\ changes + 1 \in 0..changes'
    BY <1>2, AddressesAssumption DEF SessionInv, SessionTypes
  <1>4. account[h].address \in Addresses
    BY <1>2, OwnIsIdentity DEF SessionInv
  <1>5. /\ account' \in [Holders -> {NoAccount, Deleted} \cup AccountRows]
        /\ \A k \in Holders : HasAccount(k)' => account'[k].password <= changes'
        /\ account'[h] \in AccountRows /\ \A k \in Holders \ {h} : account'[k] = account[k]
        /\ OwnIn(account', h) = i
        /\ changes' \in 0..MaxChanges /\ changes \in Nat /\ changes' \in Nat /\ changes <= changes'
        /\ i \in Identities
    BY <1>1, <1>2, <1>3, <1>4, NewIdentity DEF SessionInv
  <1>6. ReadBy(h) \subseteq Browsers
    BY DEF ReadBy, SessionInv, SessionTypes, FlightShape, Signing, NoFlight
  <1>7. Ended(h, i, "none") \in [Browsers -> {NoOne} \cup [holder : Holders]]
    BY DEF Ended, SessionInv, SessionTypes
  <1>8. SessionTypes'
    BY <1>2, <1>5, <1>6, <1>7 DEF SessionInv, SessionTypes
  <1>9. ASSUME NEW b \in Clear'
        PROVE  BrowserGood(account', flight', b, cookie'[b], remembered'[b], expected'[b], changes')
    <2>1. b \in Clear /\ b \in Browsers /\ b \notin ReadBy(h) /\ b # "none"
      BY <1>2, <1>9, SomeoneIsSomeone DEF Clear
    <2>2. PICK ck, rm, ex, ex2, acc, ch : /\ ck = cookie[b] /\ rm = remembered[b] /\ ex = expected[b]
                                          /\ ex2 = expected'[b] /\ acc = account' /\ ch = changes'
      OBVIOUS
    <2>3. BrowserGood(account, flight, b, ck, rm, ex, changes)
      BY <2>1, <2>2 DEF SessionInv
    <2>4. \A q \in Of(flight, b) : Reads(flight[q]) => flight[q].target \in Holders \ {h}
      BY <2>1, NotReadBy DEF SessionInv
    <2>5. i.password = changes + 1
      BY <1>1 DEF Identity
    <2>6. i \notin Held(flight, b, ck, rm)
      BY <1>3, <2>3, <2>5 DEF BrowserGood, OneUser, Identities
    <2>7. ex2 = IF i # OwnIn(account, h) /\ ex = Signed(h) THEN NoOne ELSE ex
      BY <1>2, <2>1, <2>2, SameTerms DEF Ended, Signed
    <2>8. HasIn(account, h)
      BY <1>2, SameTerms
    <2>9. BrowserGood(acc, flight, b, ck, rm, ex2, ch)
      BY <1>5, <2>2, <2>3, <2>4, <2>6, <2>7, <2>8, Reidentified
    <2> QED BY <1>2, <2>2, <2>9
  <1> QED BY <1>8, <1>9, Restated

\* The browser whose request signs a user in, without hiding the cookie of another one
LEMMA SignedInHere ==
    ASSUME SessionInv, NEW r \in Requests, flight[r] # NoFlight, flight[r].kind # "visit",
           NEW o \in Clear, o = flight[r].browser, NEW fl, fl[r] = NoFlight, \A q \in Requests \ {r} : fl[q] = flight[q],
           NEW acc, NEW h \in Holders, HasIn(acc, h), NEW i \in Identities, i = OwnIn(acc, h),
           NEW ch \in Nat, changes \in Nat, changes <= ch, i.password <= ch,
           NEW keeps \in {Keep, i}, ~Hiding(o, keeps, h),
           NEW rm, rm = IF keeps = Keep THEN remembered[o] ELSE keeps
    PROVE  BrowserGood(acc, fl, o, i, rm, Signed(h), ch)
  <1>1. BrowserGood(account, flight, o, cookie[o], remembered[o], expected[o], changes)
    BY DEF SessionInv
  <1>2. r \in Of(flight, o)
    BY DEF Of
  <1>3. Of(fl, o) = {}
    BY <1>1, <1>2, LastOne
  <1>4. remembered[o] \in {NoOne} \cup Identities
    BY DEF SessionInv, SessionTypes, Clear
  <1>5. remembered[o] # NoOne => remembered[o] \in Held(flight, o, cookie[o], remembered[o])
    BY DEF Held
  <1>6. remembered[o] # NoOne => remembered[o] \in Identities /\ remembered[o].password <= ch
    <2>1. remembered[o] # NoOne => remembered[o].password \in Nat /\ remembered[o].password <= changes
      BY <1>1, <1>4, <1>5 DEF BrowserGood, OneUser, Identities
    <2> QED BY <1>4, <2>1
  <1>7. rm \in {NoOne, i} \/ (rm \in Identities /\ rm.holder = h /\ rm.password <= ch)
    BY <1>4, <1>6, SomeoneIsSomeone DEF Hiding
  <1> QED BY <1>3, <1>7, Renewed

\* A user whose row is as it was read is signed in.
LEMMA SignedInKeeps ==
    ASSUME SessionInv, NEW r \in Requests, flight[r] # NoFlight, flight[r].kind # "visit", Reads(flight[r]),
           NEW i, i = flight[r].read, NEW keeps \in {Keep, i}, Answer(r, i, keeps),
           Decide(r, keeps, i.holder, expected),
           UNCHANGED <<account, changes, respelled>>
    PROVE  SessionInv'
  <1>1. PICK o, h : o = flight[r].browser /\ h = i.holder
    OBVIOUS
  <1>2. FlightShape(flight[r]) /\ i \in Identities /\ flight[r].target = h /\ h \in Holders /\ changes \in Nat
    BY <1>1, AddressesAssumption DEF SessionInv, SessionTypes, FlightShape, Reads
  <1>3. keeps \in {NoOne, Keep} \cup Identities /\ i \in {NoOne} \cup Identities
    BY <1>2
  <1>4. /\ cookie' \in [Browsers -> {NoOne} \cup Identities]
        /\ remembered' \in [Browsers -> {NoOne} \cup Identities]
        /\ DOMAIN flight' = Requests /\ flight' = [q \in Requests |-> flight'[q]]
        /\ \A q \in Requests : flight'[q] # NoFlight => FlightShape(flight'[q])
        /\ flight'[r] = NoFlight /\ \A q \in Requests \ {r} : flight'[q] = flight[q]
        /\ o \in Browsers /\ cookie'[o] = i
        /\ remembered'[o] = IF keeps = Keep THEN remembered[o] ELSE keeps
        /\ \A b \in Browsers \ {o} : cookie'[b] = cookie[b] /\ remembered'[b] = remembered[b]
    BY <1>1, <1>3, AnswerTypes DEF SessionInv
  <1>5. /\ expected' = [expected EXCEPT ![o] = Signed(h)]
        /\ muddled' = IF Hiding(o, keeps, h) THEN muddled \cup {o} ELSE muddled
    BY <1>1 DEF Decide, Signed
  <1>6. expected' \in [Browsers -> {NoOne} \cup [holder : Holders]] /\ expected'[o] = Signed(h)
        /\ \A b \in Browsers \ {o} : expected'[b] = expected[b]
    <2>1. Signed(h) \in [holder : Holders]
      BY <1>2 DEF Signed
    <2> QED BY <1>4, <1>5, <2>1 DEF SessionInv, SessionTypes
  <1>7. muddled \subseteq muddled' /\ muddled' \subseteq Browsers
    BY <1>4, <1>5 DEF SessionInv, SessionTypes
  <1>8. SessionTypes'
    BY <1>4, <1>6, <1>7 DEF SessionInv, SessionTypes, HasAccount
  <1>9. ASSUME NEW b \in Clear'
        PROVE  BrowserGood(account, flight', b, cookie'[b], remembered'[b], expected'[b], changes)
    <2>1. b \in Clear /\ b \in Browsers
      BY <1>7, <1>9 DEF Clear
    <2>2. CASE b # o
      BY <1>4, <1>6, <2>1, <2>2, OthersAfter
    <2>3. CASE b = o
      <3>1. BrowserGood(account, flight, o, cookie[o], remembered[o], expected[o], changes)
        BY <2>1, <2>3 DEF SessionInv
      <3>2. r \in Of(flight, o)
        BY <1>1 DEF Of
      <3>3. HasIn(account, h) /\ i = OwnIn(account, h)
        BY <1>2, <3>1, <3>2 DEF BrowserGood, ReadsCurrent
      <3>4. ~Hiding(o, keeps, h)
        BY <1>5, <1>9, <2>3 DEF Clear
      <3>5. PICK fl, rm : fl = flight' /\ rm = remembered'[o]
        OBVIOUS
      <3>6. i.password <= changes
        <4>1. i.password = account[h].password
          BY <3>3 DEF OwnIn, Identity
        <4> QED BY <1>2, <3>3, <4>1, SameTerms DEF SessionInv, SessionTypes
      <3>7. BrowserGood(account, fl, o, i, rm, Signed(h), changes)
        BY <1>1, <1>2, <1>4, <2>1, <2>3, <3>3, <3>4, <3>5, <3>6, SignedInHere
      <3> QED BY <1>4, <1>6, <2>3, <3>5, <3>7
    <2> QED BY <2>2, <2>3
  <1> QED BY <1>8, <1>9, Restated

\* A login with a password ends.
LEMMA SignInKeeps ==
    ASSUME SessionInv, NEW r \in Requests, NEW remember \in BOOLEAN, SignIn(r, remember)
    PROVE  SessionInv'
  <1>1. PICK i, keeps : i = flight[r].read /\ keeps = IF remember THEN i ELSE Keep
    OBVIOUS
  <1>2. flight[r].kind = "login" /\ flight[r] # NoFlight
    BY SomeoneIsSomeone DEF SignIn, InFlight
  <1>3. keeps \in {Keep, i} /\ Answer(r, i, keeps) /\ Decide(r, keeps, i.holder, expected)
        /\ UNCHANGED <<account, changes, respelled>>
    BY <1>1 DEF SignIn
  <1>4. Reads(flight[r]) /\ flight[r].kind # "visit"
    BY <1>2 DEF Reads
  <1> QED BY <1>1, <1>2, <1>3, <1>4, SignedInKeeps

\* Somebody a provider vouched for has an account.
LEMMA SignInKnownKeeps ==
    ASSUME SessionInv, NEW r \in Requests, SignInKnown(r)
    PROVE  SessionInv'
  <1>1. PICK i : i = flight[r].read
    OBVIOUS
  <1>2. flight[r].kind = "vouched" /\ flight[r] # NoFlight
    BY SomeoneIsSomeone DEF SignInKnown, InFlight
  <1>3. Answer(r, i, i) /\ Decide(r, i, i.holder, expected)
        /\ UNCHANGED <<account, changes, respelled>>
    BY <1>1 DEF SignInKnown
  <1>4. Reads(flight[r]) /\ flight[r].kind # "visit"
    BY <1>2 DEF Reads, SignInKnown
  <1>5. i \in {Keep, i}
    OBVIOUS
  <1> QED BY <1>1, <1>2, <1>3, <1>4, <1>5, SignedInKeeps

\* A user who was not known is created and signed in.
LEMMA SignInNewKeeps ==
    ASSUME SessionInv, NEW r \in Requests, SignInNew(r)
    PROVE  SessionInv'
  <1>1. PICK h, e, i, o, x : /\ h = flight[r].target /\ e = flight[r].address /\ i = Identity(h, e, 0)
                             /\ o = flight[r].browser /\ x = Row(e, 0)
    OBVIOUS
  <1>2. flight[r].kind = "vouched" /\ flight[r] # NoFlight /\ "address" \in DOMAIN flight[r]
    BY SomeoneIsSomeone DEF SignInNew, InFlight
  <1>3. h \in Holders /\ e \in Addresses /\ o \in Browsers /\ changes \in 0..MaxChanges /\ changes \in Nat
    BY <1>1, <1>2, AddressesAssumption DEF SessionInv, SessionTypes, FlightShape
  <1>4. i.holder = h /\ i.address = e /\ i.password = 0 /\ i \in Identities
    <2>1. 0 \in 0..MaxChanges
      BY AddressesAssumption
    <2> QED BY <1>1, <1>3, <2>1, AddressesAreLower DEF Identity, Identities
  <1>5. /\ account[h] = NoAccount /\ account' = [account EXCEPT ![h] = x]
        /\ Answer(r, i, i) /\ Decide(r, i, h, expected) /\ UNCHANGED <<changes, respelled>>
    BY <1>1, <1>4 DEF SignInNew
  <1>6. x \in AccountRows /\ x.address = e /\ x.password = 0 /\ x.password <= changes
    BY <1>1, <1>3 DEF Row, AccountRows
  <1>7. /\ cookie' \in [Browsers -> {NoOne} \cup Identities]
        /\ remembered' \in [Browsers -> {NoOne} \cup Identities]
        /\ DOMAIN flight' = Requests /\ flight' = [q \in Requests |-> flight'[q]]
        /\ \A q \in Requests : flight'[q] # NoFlight => FlightShape(flight'[q])
        /\ flight'[r] = NoFlight /\ \A q \in Requests \ {r} : flight'[q] = flight[q]
        /\ cookie'[o] = i /\ remembered'[o] = i
        /\ \A b \in Browsers \ {o} : cookie'[b] = cookie[b] /\ remembered'[b] = remembered[b]
    BY <1>1, <1>2, <1>4, <1>5, AnswerTypes, SomeoneIsSomeone DEF SessionInv
  <1>8. ~Hiding(o, i, h) /\ i # Keep
    BY <1>4, SomeoneIsSomeone DEF Hiding
  <1>9. expected' = [expected EXCEPT ![o] = Signed(h)] /\ muddled' = muddled
    BY <1>1, <1>5, <1>8 DEF Decide, Signed
  <1>10. expected' \in [Browsers -> {NoOne} \cup [holder : Holders]] /\ expected'[o] = Signed(h)
         /\ \A b \in Browsers \ {o} : expected'[b] = expected[b]
    <2>1. Signed(h) \in [holder : Holders]
      BY <1>3 DEF Signed
    <2> QED BY <1>3, <1>9, <2>1 DEF SessionInv, SessionTypes
  <1>11. PICK acc, fl, rm : acc = account' /\ fl = flight' /\ rm = remembered'[o]
    OBVIOUS
  <1>12. /\ acc \in [Holders -> {NoAccount, Deleted} \cup AccountRows]
         /\ \A k \in Holders : HasAccount(k)' => account'[k].password <= changes'
         /\ acc[h] = x /\ \A k \in Holders \ {h} : acc[k] = account[k]
    <2>1. changes' \in changes..MaxChanges /\ x.password <= changes'
      BY <1>3, <1>5, <1>6
    <2> QED BY <1>3, <1>5, <1>6, <1>11, <2>1, RowTypes DEF SessionInv
  <1>13. SessionTypes'
    BY <1>5, <1>7, <1>9, <1>10, <1>11, <1>12 DEF SessionInv, SessionTypes
  <1>14. ASSUME NEW b \in Clear'
         PROVE  BrowserGood(acc, fl, b, cookie'[b], remembered'[b], expected'[b], changes)
    <2>1. b \in Clear /\ b \in Browsers
      BY <1>5, <1>9, <1>14 DEF Clear
    <2>2. \A q \in Requests : fl[q] = flight[q] \/ fl[q] = NoFlight \/ fl[q].browser # b
      BY <1>7, <1>11
    <2>3. CASE b # o
      <3>1. BrowserGood(acc, fl, b, cookie[b], remembered[b], expected[b], changes)
        BY <1>3, <1>5, <1>6, <1>12, <2>1, <2>2, CreatedGood
      <3> QED BY <1>7, <1>10, <2>1, <2>3, <3>1
    <2>4. CASE b = o
      <3>1. HasIn(acc, h) /\ i = OwnIn(acc, h)
        BY <1>1, <1>6, <1>12, SomeoneIsSomeone DEF HasIn, OwnIn
      <3>2. i.password <= changes
        BY <1>3, <1>4
      <3>3. rm = IF i = Keep THEN remembered[o] ELSE i
        BY <1>7, <1>8, <1>11
      <3>4. BrowserGood(acc, fl, o, i, rm, Signed(h), changes)
        BY <1>1, <1>2, <1>3, <1>4, <1>7, <1>8, <1>11, <2>1, <2>4, <3>1, <3>2, <3>3, SignedInHere
      <3> QED BY <1>7, <1>10, <1>11, <2>4, <3>4
    <2> QED BY <2>3, <2>4
  <1> QED BY <1>5, <1>11, <1>13, <1>14, Restated

\* What is muddled and what has ended are browsers, and who is expected there is a user.
LEMMA HistoryTypes ==
    ASSUME SessionTypes, NEW r \in Requests, NEW h \in Holders, NEW i, NEW own
    PROVE  /\ muddled \subseteq Muddled(r, h, i) /\ Muddled(r, h, i) \subseteq Browsers
           /\ Ended(h, i, own) \in [Browsers -> {NoOne} \cup [holder : Holders]]
           /\ own \in Browsers => Ended(h, i, own)[own] = expected[own]
  <1>1. ReadByOthers(r, h) \subseteq Browsers
    BY DEF ReadByOthers, SessionTypes, FlightShape, Signing, NoFlight
  <1>2. Naming(i) \subseteq Browsers
    BY DEF Naming
  <1>3. muddled \subseteq Muddled(r, h, i) /\ Muddled(r, h, i) \subseteq Browsers
    BY <1>1, <1>2 DEF Muddled, SessionTypes
  <1>4. Ended(h, i, own) \in [Browsers -> {NoOne} \cup [holder : Holders]]
    BY DEF Ended, SessionTypes
  <1> QED BY <1>3, <1>4 DEF Ended

\* Who follows a link sets a password and is signed in with it.
LEMMA SetPasswordKeeps ==
    ASSUME SessionInv, NEW r \in Requests, SetPassword(r)
    PROVE  SessionInv'
  <1>1. PICK h, o, i, s : /\ h = flight[r].target /\ o = flight[r].browser
                          /\ i = Identity(h, account[h].address, changes + 1)
                          /\ s = Identity(h, flight[r].read.address, changes + 1)
    OBVIOUS
  <1>2. flight[r].kind = "link" /\ flight[r] # NoFlight /\ flight[r].kind # "visit" /\ Reads(flight[r])
    BY SomeoneIsSomeone DEF SetPassword, InFlight, Reads
  <1>3. /\ h \in Holders /\ o \in Browsers /\ flight[r].read \in Identities /\ changes \in 0..MaxChanges
        /\ changes \in Nat /\ MaxChanges \in Nat
    BY <1>1, <1>2, AddressesAssumption DEF SessionInv, SessionTypes, FlightShape
  <1>4. /\ HasAccount(h) /\ changes < MaxChanges /\ Reidentify(h, i) /\ changes' = changes + 1
        /\ Answer(r, s, Keep) /\ expected' = [Ended(h, i, o) EXCEPT ![o] = Signed(h)]
        /\ muddled' = Muddled(r, h, i) \cup (IF Hiding(o, Keep, h) THEN {o} ELSE {})
        /\ UNCHANGED respelled
    BY <1>1 DEF SetPassword, Signed
  <1>5. account[h].address \in Addresses
    BY <1>3, <1>4, OwnIsIdentity DEF SessionInv
  <1>6. s \in Identities
    <2>1. changes + 1 \in 0..MaxChanges
      BY <1>3, <1>4
    <2> QED BY <1>1, <1>3, <2>1 DEF Identity, Identities
  <1>7. /\ account' \in [Holders -> {NoAccount, Deleted} \cup AccountRows]
        /\ \A k \in Holders : HasAccount(k)' => account'[k].password <= changes'
        /\ account'[h] \in AccountRows /\ \A k \in Holders \ {h} : account'[k] = account[k]
        /\ OwnIn(account', h) = i
        /\ changes' \in 0..MaxChanges /\ changes' \in Nat /\ changes <= changes'
        /\ i \in Identities
    <2>1. changes + 1 \in 0..changes' /\ changes' \in changes..MaxChanges
      BY <1>3, <1>4
    <2> QED BY <1>1, <1>3, <1>4, <1>5, <2>1, NewIdentity DEF SessionInv
  <1>8. /\ cookie' \in [Browsers -> {NoOne} \cup Identities]
        /\ remembered' \in [Browsers -> {NoOne} \cup Identities]
        /\ DOMAIN flight' = Requests /\ flight' = [q \in Requests |-> flight'[q]]
        /\ \A q \in Requests : flight'[q] # NoFlight => FlightShape(flight'[q])
        /\ flight'[r] = NoFlight /\ \A q \in Requests \ {r} : flight'[q] = flight[q]
        /\ cookie'[o] = s /\ remembered'[o] = remembered[o]
        /\ \A b \in Browsers \ {o} : cookie'[b] = cookie[b] /\ remembered'[b] = remembered[b]
    BY <1>1, <1>2, <1>4, <1>6, AnswerTypes DEF SessionInv
  <1>9. muddled \subseteq muddled' /\ muddled' \subseteq Browsers /\ Muddled(r, h, i) \subseteq muddled'
    BY <1>3, <1>4, HistoryTypes DEF SessionInv
  <1>10. expected' \in [Browsers -> {NoOne} \cup [holder : Holders]] /\ expected'[o] = Signed(h)
         /\ \A b \in Browsers \ {o} : expected'[b] = Ended(h, i, o)[b]
    <2>1. Signed(h) \in [holder : Holders]
      BY <1>3 DEF Signed
    <2>2. Ended(h, i, o) \in [Browsers -> {NoOne} \cup [holder : Holders]]
      BY <1>3, HistoryTypes DEF SessionInv
    <2> QED BY <1>3, <1>4, <2>1, <2>2
  <1>11. SessionTypes'
    BY <1>4, <1>7, <1>8, <1>9, <1>10 DEF SessionInv, SessionTypes
  <1>12. PICK acc, fl, ch, rm : acc = account' /\ fl = flight' /\ ch = changes' /\ rm = remembered'[o]
    OBVIOUS
  <1>13. ASSUME NEW b \in Clear'
         PROVE  BrowserGood(acc, fl, b, cookie'[b], remembered'[b], expected'[b], ch)
    <2>1. b \in Clear /\ b \in Browsers
      BY <1>4, <1>9, <1>13 DEF Clear
    <2>2. CASE b # o
      <3>1. b \notin Muddled(r, h, i)
        BY <1>9, <1>13 DEF Clear
      <3>2. BrowserGood(acc, fl, b, cookie[b], remembered[b], Ended(h, i, o)[b], ch)
        BY <1>1, <1>2, <1>3, <1>4, <1>7, <1>8, <1>12, <2>1, <2>2, <3>1, OthersReidentified
      <3> QED BY <1>8, <1>10, <2>1, <2>2, <3>2
    <2>3. CASE b = o
      <3>1. BrowserGood(account, flight, o, cookie[o], remembered[o], expected[o], changes)
        BY <2>1, <2>3 DEF SessionInv
      <3>2. r \in Of(flight, o)
        BY <1>1, <1>2 DEF Of
      <3>3. flight[r].read = OwnIn(account, h)
        BY <1>1, <1>2, <3>1, <3>2 DEF BrowserGood, ReadsCurrent
      <3>4. s = i
        BY <1>1, <3>3 DEF OwnIn, Identity
      <3>5. ~Hiding(o, Keep, h)
        BY <1>4, <1>13, <2>3 DEF Clear
      <3>6. HasIn(acc, h) /\ i = OwnIn(acc, h)
        BY <1>7, <1>12, SomeoneIsSomeone DEF HasIn
      <3>7. i.password <= ch
        BY <1>1, <1>3, <1>4, <1>12 DEF Identity
      <3>8. PICK keeps \in {Keep, i} : keeps = Keep
        OBVIOUS
      <3>9. rm = IF keeps = Keep THEN remembered[o] ELSE keeps
        BY <1>8, <1>12, <3>8
      <3>10. BrowserGood(acc, fl, o, i, rm, Signed(h), ch)
        BY <1>1, <1>2, <1>3, <1>7, <1>8, <1>12, <2>1, <2>3, <3>5, <3>6, <3>7, <3>8, <3>9, SignedInHere
      <3> QED BY <1>8, <1>10, <1>12, <2>3, <3>4, <3>10
    <2> QED BY <2>2, <2>3
  <1> QED BY <1>11, <1>12, <1>13, Restated

\* A row is edited: who changes the own one stays signed in, and nobody else is.
LEMMA EditKeeps ==
    ASSUME SessionInv, NEW r \in Requests, NEW s \in Spellings, NEW rehash \in BOOLEAN, Edit(r, s, rehash)
    PROVE  SessionInv'
  <1>1. PICK h, o, u, read, back : /\ h = flight[r].target /\ o = flight[r].browser /\ u = flight[r].user
                                   /\ read = flight[r].read /\ back = flight[r].session
    OBVIOUS
  <1>2. PICK a, p : /\ a = IF s = read.address THEN account[h].address ELSE Lower[s]
                    /\ p = IF rehash THEN changes + 1 ELSE account[h].password
    OBVIOUS
  <1>3. PICK i, m : /\ i = Identity(h, a, p)
                    /\ m = Identity(h, s, IF rehash THEN changes + 1 ELSE read.password)
    OBVIOUS
  <1>4. flight[r].kind = "edit" /\ flight[r] # NoFlight /\ flight[r].kind # "visit" /\ Reads(flight[r])
    BY SomeoneIsSomeone DEF Edit, MayEdit, InFlight, Reads
  <1>5. /\ h \in Holders /\ o \in Browsers /\ read \in Identities /\ back \in Identities /\ read.holder = h
        /\ u = back.holder /\ (u = h => back = read) /\ read.address \in Addresses
    BY <1>1, <1>4 DEF SessionInv, SessionTypes, FlightShape
  <1>6. changes \in 0..MaxChanges /\ changes \in Nat /\ MaxChanges \in Nat
    BY AddressesAssumption DEF SessionInv, SessionTypes
  <1>7. PICK own : own = IF u = h THEN o ELSE "none"
    OBVIOUS
  <1>8. /\ HasAccount(h) /\ changes < MaxChanges /\ Reidentify(h, i) /\ changes' = changes + 1
        /\ IF u = h THEN Answer(r, m, m) ELSE Answer(r, back, Keep)
        /\ expected' = Ended(h, i, own) /\ muddled' = Muddled(r, h, i)
        /\ respelled' = IF u = h /\ s # Lower[s] THEN respelled \cup {own} ELSE respelled
    BY <1>1, <1>2, <1>3, <1>7 DEF Edit, MayEdit, Written, InMemory
  <1>9. account[h].address \in Addresses /\ account[h].password \in 0..changes
    BY <1>5, <1>8, OwnIsIdentity DEF SessionInv
  <1>10. a \in Addresses /\ p \in 0..changes' /\ changes' \in changes..MaxChanges
    BY <1>2, <1>6, <1>8, <1>9, AddressesAreLower
  <1>11. /\ account' \in [Holders -> {NoAccount, Deleted} \cup AccountRows]
         /\ \A k \in Holders : HasAccount(k)' => account'[k].password <= changes'
         /\ account'[h] \in AccountRows /\ \A k \in Holders \ {h} : account'[k] = account[k]
         /\ OwnIn(account', h) = i
         /\ changes' \in 0..MaxChanges /\ changes' \in Nat /\ changes <= changes'
         /\ i \in Identities
    BY <1>3, <1>5, <1>8, <1>10, NewIdentity DEF SessionInv
  <1>12. m \in Identities /\ m # Keep
    <2>1. read.password \in 0..MaxChanges /\ changes + 1 \in 0..MaxChanges
      BY <1>5, <1>6, <1>8 DEF Identities
    <2>2. m \in Identities
      BY <1>3, <1>5, <2>1 DEF Identity, Identities
    <2> QED BY <2>2, SomeoneIsSomeone
  <1>13. /\ cookie' \in [Browsers -> {NoOne} \cup Identities]
         /\ remembered' \in [Browsers -> {NoOne} \cup Identities]
         /\ DOMAIN flight' = Requests /\ flight' = [q \in Requests |-> flight'[q]]
         /\ \A q \in Requests : flight'[q] # NoFlight => FlightShape(flight'[q])
         /\ flight'[r] = NoFlight /\ \A q \in Requests \ {r} : flight'[q] = flight[q]
         /\ cookie'[o] = (IF u = h THEN m ELSE back) /\ remembered'[o] = (IF u = h THEN m ELSE remembered[o])
         /\ \A b \in Browsers \ {o} : cookie'[b] = cookie[b] /\ remembered'[b] = remembered[b]
    <2>1. CASE u = h
      BY <1>1, <1>4, <1>8, <1>12, <2>1, AnswerTypes DEF SessionInv
    <2>2. CASE u # h
      BY <1>1, <1>4, <1>5, <1>8, <2>2, AnswerTypes DEF SessionInv
    <2> QED BY <2>1, <2>2
  <1>14. /\ muddled \subseteq muddled' /\ muddled' \subseteq Browsers
         /\ expected' \in [Browsers -> {NoOne} \cup [holder : Holders]]
         /\ respelled \subseteq respelled' /\ respelled' \subseteq Browsers
    <2>1. muddled \subseteq muddled' /\ muddled' \subseteq Browsers
          /\ expected' \in [Browsers -> {NoOne} \cup [holder : Holders]]
      BY <1>5, <1>8, HistoryTypes DEF SessionInv
    <2>2. respelled \subseteq respelled' /\ respelled' \subseteq Browsers
      BY <1>5, <1>7, <1>8 DEF SessionInv, SessionTypes
    <2> QED BY <2>1, <2>2
  <1>15. SessionTypes'
    BY <1>11, <1>13, <1>14 DEF SessionInv, SessionTypes
  <1>16. PICK acc, fl, ch : acc = account' /\ fl = flight' /\ ch = changes'
    OBVIOUS
  <1>17. HasIn(account, h) /\ HasIn(acc, h) /\ i = OwnIn(acc, h)
    BY <1>8, <1>11, <1>16, SomeoneIsSomeone, SameTerms DEF HasIn
  <1>18. ASSUME NEW b \in Clear'
         PROVE  BrowserGood(acc, fl, b, cookie'[b], remembered'[b], expected'[b], ch)
    <2>1. b \in Clear /\ b \in Browsers /\ b \notin Muddled(r, h, i) /\ b # "none"
      BY <1>8, <1>14, <1>18, SomeoneIsSomeone DEF Clear
    <2>2. CASE b # o
      <3>1. own \in {o, "none"}
        BY <1>7
      <3>2. BrowserGood(acc, fl, b, cookie[b], remembered[b], Ended(h, i, own)[b], ch)
        <4>1. h \in Holders /\ HasAccount(h) /\ \A k \in Holders \ {h} : acc[k] = account[k]
          BY <1>5, <1>8, <1>11, <1>16
        <4>2. acc[h] \in AccountRows /\ i \in Identities /\ ch \in Nat /\ changes \in Nat /\ changes <= ch
          BY <1>6, <1>11, <1>16
        <4>3. fl[r] = NoFlight /\ \A q \in Requests \ {r} : fl[q] = flight[q]
          BY <1>13, <1>16
        <4>4. flight[r] # NoFlight /\ own \in {flight[r].browser, "none"} /\ b # flight[r].browser
          BY <1>1, <1>4, <2>2, <3>1
        <4>5. b \in Clear /\ b \notin Muddled(r, h, i) /\ i = OwnIn(acc, h)
          BY <1>17, <2>1
        <4> QED BY <4>1, <4>2, <4>3, <4>4, <4>5, OthersReidentified
      <3> QED BY <1>8, <1>13, <2>1, <2>2, <3>2
    <2>3. CASE b = o
      <3>1. BrowserGood(account, flight, o, cookie[o], remembered[o], expected[o], changes)
        BY <2>1, <2>3 DEF SessionInv
      <3>2. r \in Of(flight, o)
        BY <1>1, <1>4 DEF Of
      <3>3. read = OwnIn(account, h)
        BY <1>1, <1>4, <3>1, <3>2 DEF BrowserGood, ReadsCurrent
      <3>4. back \in Held(flight, o, cookie[o], remembered[o]) /\ back # NoOne
        BY <1>1, <1>4, <1>5, <3>2, SomeoneIsSomeone DEF Held
      <3>5. Of(fl, o) = {}
        BY <1>4, <1>13, <1>16, <3>1, <3>2, LastOne
      <3>6. CASE u = h
        <4>1. expected[o] = Signed(h)
          BY <1>5, <1>17, <3>1, <3>3, <3>4, <3>6 DEF BrowserGood, OneUser
        <4>2. expected'[o] = Signed(h)
          BY <1>5, <1>7, <1>8, <3>6, <4>1, HistoryTypes DEF SessionInv
        <4>3. s = Lower[s]
          BY <1>7, <1>8, <1>18, <2>3, <3>6 DEF Clear
        <4>4. read.address = account[h].address /\ read.password = account[h].password
          BY <3>3 DEF OwnIn, Identity
        <4>5. m = i
          BY <1>2, <1>3, <4>3, <4>4
        <4>6. i.password <= ch
          <5>1. i.password = p
            BY <1>3 DEF Identity
          <5> QED BY <1>10, <1>16, <5>1
        <4>7. BrowserGood(acc, fl, o, i, i, Signed(h), ch)
          BY <1>5, <1>11, <1>17, <3>5, <4>6, Renewed
        <4> QED BY <1>13, <2>3, <3>6, <4>2, <4>5, <4>7
      <3>7. CASE u # h
        <4>1. BrowserGood(account, flight, o, back, remembered[o], expected[o], changes)
          BY <1>1, <1>4, <3>1, <3>2, <3>4, CameBack
        <4>2. \A q \in Requests : fl[q] = flight[q] \/ fl[q] = NoFlight \/ fl[q].browser # o
          BY <1>13, <1>16
        <4>3. PICK rm, ex, ex2 : rm = remembered[o] /\ ex = expected[o] /\ ex2 = expected'[o]
          OBVIOUS
        <4>4. BrowserGood(account, fl, o, back, rm, ex, changes)
          BY <4>1, <4>2, <4>3, Dropped
        <4>5. i \notin Held(fl, o, back, rm)
          <5>1. \A x \in Held(flight, o, cookie[o], remembered[o]) : x.holder = u
            BY <1>5, <3>1, <3>4 DEF BrowserGood, OneUser
          <5>2. Held(fl, o, back, rm) \subseteq Held(flight, o, cookie[o], remembered[o])
            BY <3>4, <3>5, <4>3 DEF Held
          <5>3. i.holder = h
            BY <1>3 DEF Identity
          <5> QED BY <3>7, <5>1, <5>2, <5>3
        <4>6. ex2 = IF i # OwnIn(account, h) /\ ex = Signed(h) THEN NoOne ELSE ex
          BY <1>5, <1>7, <1>8, <2>1, <2>3, <3>7, <4>3, SameTerms DEF Ended, Signed
        <4>7. \A k \in Holders \ {h} : acc[k] = account[k]
          BY <1>11, <1>16
        <4>8. acc[h] \in AccountRows /\ ch \in Nat /\ changes <= ch
          BY <1>11, <1>16
        <4>9. BrowserGood(acc, fl, o, back, rm, ex2, ch)
          BY <1>5, <1>6, <1>17, <3>5, <4>4, <4>5, <4>6, <4>7, <4>8, Reidentified
        <4> QED BY <1>13, <2>3, <3>7, <4>3, <4>9
      <3> QED BY <3>6, <3>7
    <2> QED BY <2>2, <2>3
  <1> QED BY <1>15, <1>16, <1>18, Restated

\* Every step keeps the invariant.
LEMMA SessionInvNext == SessionInv /\ [SessionNext]_sessionVars => SessionInv'
  <1> SUFFICES ASSUME SessionInv, [SessionNext]_sessionVars PROVE SessionInv'
    OBVIOUS
  <1>1. ASSUME NEW r \in Requests, NEW b \in Browsers,
               \/ Visit(r, b) \/ Logout(r, b)
               \/ \E h \in Holders :
                     \/ BeginEdit(r, b, h) \/ FollowLink(r, b, h) \/ SubmitLogin(r, b, h)
                     \/ \E provider \in Providers, e \in Addresses : Vouch(r, b, provider, h, e)
        PROVE  SessionInv'
    BY <1>1, VisitKeeps, LogoutKeeps, BeginEditKeeps, FollowLinkKeeps, SubmitLoginKeeps, VouchKeeps
  <1>2. ASSUME NEW r \in Requests,
               \/ EndVisit(r) \/ SetPassword(r) \/ SignInKnown(r) \/ SignInNew(r)
               \/ SignOut(r) \/ Refuse(r)
               \/ \E s \in Spellings, rehash \in BOOLEAN : Edit(r, s, rehash)
               \/ \E remember \in BOOLEAN : SignIn(r, remember)
        PROVE  SessionInv'
    BY <1>2, EndVisitKeeps, SetPasswordKeeps, SignInKnownKeeps, SignInNewKeeps, SignOutKeeps, RefuseKeeps,
       EditKeeps, SignInKeeps
  <1>3. ASSUME NEW h \in Holders, NEW b \in Browsers,
               \/ \E e \in Addresses : CreateUser(b, h, e)
               \/ \E disabled \in BOOLEAN : SetDisabled(b, h, disabled)
               \/ DeleteUser(b, h)
        PROVE  SessionInv'
    BY <1>3, CreateUserKeeps, SetDisabledKeeps, DeleteKeeps DEF DeleteUser
  <1>4. ASSUME NEW h \in Holders,
               \/ CommandDelete(h) \/ CommandPassword(h)
               \/ \E e \in Addresses, withPassword \in BOOLEAN : CommandCreate(h, e, withPassword)
        PROVE  SessionInv'
    BY <1>4, DeleteKeeps, CommandPasswordKeeps, CommandCreateKeeps DEF CommandDelete
  <1>5. CASE UNCHANGED sessionVars
    <2>1. UNCHANGED <<account, changes, cookie, remembered, flight, expected, muddled, respelled>>
      BY <1>5 DEF sessionVars
    <2>2. SessionTypes'
      BY <2>1 DEF SessionInv, SessionTypes, HasAccount
    <2>3. \A b \in Clear' :
             BrowserGood(account', flight', b, cookie'[b], remembered'[b], expected'[b], changes')
      BY <2>1 DEF SessionInv, Clear
    <2> QED BY <2>2, <2>3, Restated
  <1> QED BY <1>1, <1>2, <1>3, <1>4, <1>5 DEF SessionNext

\* The invariant holds in every state.
LEMMA SessionInvariant == SessionSpec => []SessionInv
  <1> QED BY SessionInvInit, SessionInvNext, PTL DEF SessionSpec

\* The types the run checks follow from the invariant's.
LEMMA TypesThen == SessionInv => SessionTypeOK
  <1> SUFFICES ASSUME SessionInv PROVE SessionTypeOK
    OBVIOUS
  <1>1. account \in [Holders -> {NoAccount, Deleted} \cup
                       [address : Addresses, password : 0..MaxChanges, disabled : BOOLEAN]]
    <2> SUFFICES ASSUME NEW h \in Holders, HasAccount(h)
                 PROVE  account[h] \in [address : Addresses, password : 0..MaxChanges, disabled : BOOLEAN]
      BY DEF SessionInv, SessionTypes, HasAccount
    <2>1. account[h] \in AccountRows /\ account[h].password \in 0..changes
      BY OwnIsIdentity DEF SessionInv
    <2>2. account[h].password \in 0..MaxChanges
      BY <2>1, AddressesAssumption DEF SessionInv, SessionTypes
    <2> QED BY <2>1, <2>2 DEF AccountRows
  <1>2. \A r \in Requests : flight[r] # NoFlight =>
          /\ flight[r].browser \in Browsers
          /\ flight[r].kind \in Signing \cup {"visit", "logout"}
    BY DEF SessionInv, SessionTypes, FlightShape, Signing
  <1> QED BY <1>1, <1>2 DEF SessionInv, SessionTypes, SessionTypeOK

\* Users, cookies, requests in flight and the histories of browsers keep their types.
THEOREM SessionTypeCorrect == SessionSpec => []SessionTypeOK
  <1> QED BY SessionInvariant, TypesThen, PTL

\* By the invariant, only who is expected is alive in the cookies, and is there.
LEMMA DecidedThen == SessionInv => SignedInAsDecided
  <1> SUFFICES ASSUME SessionInv PROVE SignedInAsDecided
    OBVIOUS
  <1> SUFFICES ASSUME NEW b \in Clear PROVE AsDecided(b)
    BY DEF SignedInAsDecided, Clear
  <1>1. PICK ck, rm, ex : ck = cookie[b] /\ rm = remembered[b] /\ ex = expected[b]
    OBVIOUS
  <1>2. BrowserGood(account, flight, b, ck, rm, ex, changes)
    BY <1>1 DEF SessionInv
  <1>3. ck \in {NoOne} \cup Identities /\ rm \in {NoOne} \cup Identities
        /\ ex \in {NoOne} \cup [holder : Holders]
    BY <1>1 DEF Clear, SessionInv, SessionTypes
  <1>4. ASSUME NEW x \in {ck, rm}, Loads(x)
        PROVE  ex = Signed(x.holder) /\ ~account[x.holder].disabled /\ x.holder \in Holders
    <2>1. x # NoOne /\ HasIn(account, x.holder) /\ x = OwnIn(account, x.holder) /\ ~account[x.holder].disabled
      BY <1>4, SameTerms DEF Loads
    <2>2. x \in Held(flight, b, ck, rm)
      BY <2>1 DEF Held
    <2> QED BY <1>2, <1>3, <2>1, <2>2 DEF BrowserGood, OneUser, Identities
  <1>5. CASE ex # NoOne /\ ~account[ex.holder].disabled
    <2>1. PICK h \in Holders : ex = Signed(h) /\ ex.holder = h
      BY <1>3, <1>5 DEF Signed
    <2>2. HasIn(account, h) /\ OwnIn(account, h) \in {ck, rm}
      BY <1>2, <2>1 DEF BrowserGood, StillSigned
    <2>3. OwnIn(account, h).holder = h
      BY DEF OwnIn, Identity
    <2>4. OwnIn(account, h) # NoOne
      BY <2>3, SomeoneIsSomeone DEF NoOne
    <2>5. Loads(OwnIn(account, h))
      BY <1>5, <2>1, <2>2, <2>3, <2>4, SameTerms DEF Loads
    <2>6. Loads(ck) => ck.holder = h
      BY <1>4, <2>1, SomeoneIsSomeone
    <2>7. Loads(rm) => rm.holder = h
      BY <1>4, <2>1, SomeoneIsSomeone
    <2>8. ServedAs(b) = h
      BY <1>1, <2>2, <2>5, <2>6, <2>7 DEF ServedAs, Loaded
    <2> QED BY <1>1, <1>5, <2>1, <2>8 DEF AsDecided
  <1>6. CASE ~(ex # NoOne /\ ~account[ex.holder].disabled)
    <2>1. ~Loads(ck) /\ ~Loads(rm)
      <3> SUFFICES ASSUME NEW x \in {ck, rm}, Loads(x) PROVE FALSE
        OBVIOUS
      <3>1. ex = Signed(x.holder) /\ ~account[x.holder].disabled /\ x.holder \in Holders
        BY <1>4
      <3> QED BY <1>6, <3>1, SomeoneIsSomeone DEF Signed
    <2>2. ServedAs(b) = "none"
      BY <1>1, <2>1 DEF ServedAs, Loaded
    <2> QED BY <1>1, <1>6, <2>2 DEF AsDecided
  <1> QED BY <1>5, <1>6

(***************************************************************************)
(* A browser is signed in exactly as was last decided, for any users,      *)
(* spellings of addresses, providers and requests that overtake each       *)
(* other: what its cookies name is one user's, of the two only who is      *)
(* expected is alive, and a request that signs in has no company.          *)
(***************************************************************************)
THEOREM SignedInCorrectly == SessionSpec => []SignedInAsDecided
  <1> QED BY SessionInvariant, DecidedThen, PTL

-----------------------------------------------------------------------------
(* Editing *)

\* The row loaded for an edit is the current one as long as the version has not moved on.
LoadedIsCurrent ==
    \A c \in Clients : Open(c) =>
        /\ request[c].loaded.version <= row.version
        /\ kind.increments /\ request[c].loaded.version = row.version
              => request[c].loaded.content = row.content

\* An edit with a version was posted by a page that had seen what was loaded, or newer.
SeenWhatWasLoaded ==
    \A c \in Clients : Open(c) /\ request[c].versioned =>
        seen[c] # Unseen /\ request[c].loaded.version <= seen[c].version

IInv == TypeOK /\ VersionNamesContent /\ LoadedIsCurrent /\ SeenWhatWasLoaded

USE KindsAssumption, MaxVersionAssumption, UnseenAssumption
-----------------------------------------------------------------------------
(* The types of what the steps assign *)

\* The kinds a row may have.
LEMMA KindFacts ==
    ASSUME kind \in Kinds
    PROVE  /\ kind.increments \in BOOLEAN
           /\ kind.hashed \subseteq Fields
           /\ kind.increments => kind.hashed = {}
<1>1. kind = Dashboard \/ kind = Query
  BY KindsAssumption
<1>2. CASE kind = Dashboard
  BY <1>2 DEF Dashboard
<1>3. CASE kind = Query
  BY <1>3 DEF Query
<1>. QED
  BY <1>1, <1>2, <1>3

\* A change names columns and gives them values.
LEMMA ChangeFacts ==
    ASSUME NEW change \in Changes
    PROVE  DOMAIN change \subseteq Fields /\ \A f \in DOMAIN change : change[f] \in Values
  BY DEF Changes

\* A row with a hash of its columns is a row, and its copy a copy.
LEMMA CopyFacts ==
    ASSUME NEW r \in RowType
    PROVE  Copy(r) \in CopyType /\ Copy(r) # Unseen
  BY DEF RowType, CopyType, Copy

\* The type of an object in memory.
LEMMA EditedType ==
    ASSUME NEW content \in Contents, NEW change \in Changes
    PROVE  Edited(content, change) \in Contents
  BY ChangeFacts DEF Edited, Contents

\* The hash of a content.
LEMMA HashType ==
    ASSUME kind \in Kinds, NEW content \in Contents
    PROVE  Hash(content) \in [kind.hashed -> Values]
  BY KindFacts DEF Hash, Contents

\* The columns that are written.
LEMMA ColumnsType ==
    ASSUME NEW current \in Contents, NEW loaded \in Contents, NEW edited \in Contents
    PROVE  ChangedColumns(current, loaded, edited) \in Contents
  BY DEF ChangedColumns, Contents

\* All columns are those of the object in memory when the loaded row is the current one.
LEMMA ColumnsOfCurrent ==
    ASSUME NEW current \in Contents, NEW edited \in Contents
    PROVE  ChangedColumns(current, current, edited) = edited
  BY DEF ChangedColumns, Contents

\* An edit on its way is a request.
LEMMA OpenRequest ==
    ASSUME TypeOK, NEW c \in Clients, Open(c)
    PROVE  request[c] \in RequestType
  BY DEF TypeOK, Open, NoRequest

\* What a commit writes, with the content the page is answered.
LEMMA CommitFacts ==
    ASSUME TypeOK, NEW c \in Clients, Commit(c)
    PROVE  LET edited == Edited(request[c].loaded.content, request[c].change)
           IN  /\ edited \in Contents
               /\ row' \in RowType
               /\ row'.version = NextVersion(row.version)
               /\ row.version = request[c].loaded.version
               /\ row'.content = ChangedColumns(row.content, request[c].loaded.content, edited)
               /\ seen' = IF request[c].versioned
                          THEN [seen EXCEPT ![c] = [version |-> row'.version, content |-> edited]]
                          ELSE seen
               /\ request' = [request EXCEPT ![c] = NoRequest]
               /\ kind' = kind
               /\ NextVersion(row.version) \in Nat
<1> DEFINE loaded == request[c].loaded
           edited == Edited(loaded.content, request[c].change)
           hash   == NewHash(row.hash, loaded, edited)
<1>1. /\ Open(c) /\ row.version = loaded.version
      /\ kind' = kind /\ request' = [request EXCEPT ![c] = NoRequest]
  BY DEF Commit, RowFound, Done
<1>2. request[c] \in RequestType /\ row \in RowType /\ kind \in Kinds
  BY <1>1, OpenRequest DEF TypeOK
<1>3. loaded \in RowType /\ request[c].change \in Changes
  BY <1>2 DEF RequestType
<1>4. /\ loaded.content \in Contents /\ row.content \in Contents
      /\ row.version \in Nat /\ row.hash \in [kind.hashed -> Values]
  BY <1>2, <1>3 DEF RowType
<1>5. edited \in Contents
  BY <1>3, <1>4, EditedType
<1>6. hash \in [kind.hashed -> Values]
  BY <1>2, <1>4, <1>5, HashType DEF NewHash
<1>7. ChangedColumns(row.content, loaded.content, edited) \in Contents
  BY <1>4, <1>5, ColumnsType
<1>8. NextVersion(row.version) \in Nat
  BY <1>4 DEF NextVersion
<1>9. /\ row' = [version |-> NextVersion(row.version),
                 content |-> ChangedColumns(row.content, loaded.content, edited),
                 hash    |-> hash]
      /\ seen' = IF request[c].versioned
                 THEN [seen EXCEPT ![c] = [version |-> NextVersion(row.version),
                                           content |-> edited]]
                 ELSE seen
  BY <1>1 DEF Commit
<1>10. row' \in [version : Nat, content : Contents, hash : [kind.hashed -> Values]]
  BY <1>6, <1>7, <1>8, <1>9
<1>. QED
  BY <1>1, <1>5, <1>8, <1>9, <1>10 DEF RowType
-----------------------------------------------------------------------------
(* The invariant *)

\* It holds initially.
LEMMA InitIInv == Init => IInv
<1>. SUFFICES ASSUME Init PROVE IInv
  OBVIOUS
<1>1. PICK content \in Contents :
        row = [version |-> 1, content |-> content, hash |-> Hash(content)]
  BY DEF Init
<1>2. kind \in Kinds /\ \A c \in Clients : seen[c] = Unseen /\ ~Open(c)
  BY DEF Init, Open, NoRequest
<1>3. row \in RowType
  BY <1>1, <1>2, HashType DEF RowType
<1>4. TypeOK
  BY <1>2, <1>3 DEF Init, TypeOK
<1>. QED
  BY <1>2, <1>4 DEF IInv, VersionNamesContent, LoadedIsCurrent, SeenWhatWasLoaded

\* A page shows the row as it is.
LEMMA ViewIInv ==
    ASSUME IInv, NEW c \in Clients, View(c)
    PROVE  IInv'
<1>1. TypeOK
  BY DEF IInv
<1>2. /\ seen' = [seen EXCEPT ![c] = Copy(row)]
      /\ kind' = kind /\ row' = row /\ request' = request
  BY DEF View
<1>3. /\ Copy(row) \in CopyType /\ Copy(row) # Unseen
      /\ Copy(row).version = row.version /\ row.version \in Nat
  BY <1>1, CopyFacts DEF TypeOK, Copy, RowType
<1>4. TypeOK'
  BY <1>1, <1>2, <1>3 DEF TypeOK, RowType, RequestType
<1>5. VersionNamesContent'
  BY <1>1, <1>2, <1>3 DEF IInv, VersionNamesContent, TypeOK, Copy
<1>6. LoadedIsCurrent'
  BY <1>2 DEF IInv, LoadedIsCurrent, Open
<1>7. SeenWhatWasLoaded'
  BY <1>1, <1>2, <1>3 DEF IInv, SeenWhatWasLoaded, LoadedIsCurrent, TypeOK, Open
<1>. QED
  BY <1>4, <1>5, <1>6, <1>7 DEF IInv

\* The row is loaded for a page that has seen its version, or sends none.
LEMMA LoadIInv ==
    ASSUME IInv, NEW c \in Clients, NEW change \in Changes, NEW versioned \in BOOLEAN,
           Load(c, change, versioned)
    PROVE  IInv'
<1> DEFINE posted == [phase |-> "loaded", loaded |-> row, change |-> change,
                      versioned |-> versioned]
<1>1. TypeOK /\ row \in RowType /\ row.version \in Nat
  BY DEF IInv, TypeOK, RowType
<1>2. /\ request' = [request EXCEPT ![c] = posted]
      /\ kind' = kind /\ row' = row /\ seen' = seen
      /\ versioned => seen[c] # Unseen /\ seen[c].version = row.version
  BY DEF Load, UpToDate
<1>3. posted \in RequestType
  BY <1>1 DEF RequestType
<1>4. TypeOK'
  BY <1>1, <1>2, <1>3 DEF TypeOK, RowType, RequestType
<1>5. VersionNamesContent'
  BY <1>2 DEF IInv, VersionNamesContent, Copy
<1>6. LoadedIsCurrent'
  BY <1>1, <1>2 DEF IInv, LoadedIsCurrent, TypeOK, Open
<1>7. SeenWhatWasLoaded'
  BY <1>1, <1>2 DEF IInv, SeenWhatWasLoaded, TypeOK, Open
<1>. QED
  BY <1>4, <1>5, <1>6, <1>7 DEF IInv

(***************************************************************************)
(* A commit leaves the other edits behind: their rows were loaded with a   *)
(* version that is now in the past, unless the version does not move.      *)
(***************************************************************************)
LEMMA CommitIInv ==
    ASSUME IInv, NEW c \in Clients, Commit(c)
    PROVE  IInv'
<1> DEFINE loaded == request[c].loaded
           edited == Edited(loaded.content, request[c].change)
<1>1. TypeOK /\ row \in RowType /\ row.version \in Nat /\ row.content \in Contents
  BY DEF IInv, TypeOK, RowType
<1>2. /\ edited \in Contents
      /\ row' \in RowType
      /\ row'.version = NextVersion(row.version)
      /\ row.version = loaded.version
      /\ row'.content = ChangedColumns(row.content, loaded.content, edited)
      /\ seen' = IF request[c].versioned
                 THEN [seen EXCEPT ![c] = [version |-> row'.version, content |-> edited]]
                 ELSE seen
      /\ request' = [request EXCEPT ![c] = NoRequest]
      /\ kind' = kind
      /\ NextVersion(row.version) \in Nat
  BY <1>1, CommitFacts
<1>3. /\ row.version <= row'.version
      /\ kind.increments => row.version < row'.version
  BY <1>1, <1>2 DEF NextVersion
<1>4. kind.increments => row'.content = edited
  <2>1. Open(c)
    BY DEF Commit, RowFound
  <2>2. kind.increments => loaded.content = row.content
    BY <1>2, <2>1 DEF IInv, LoadedIsCurrent
  <2>. QED
    BY <1>1, <1>2, <2>2, ColumnsOfCurrent
<1>5. \A d \in Clients : d # c => request'[d] = request[d]
  BY <1>1, <1>2 DEF TypeOK
<1>6. \A d \in Clients :
          \/ seen'[d] = seen[d]
          \/ d = c /\ seen'[d] = [version |-> row'.version, content |-> edited]
  <2>1. CASE request[c].versioned
    BY <1>1, <1>2, <2>1 DEF TypeOK
  <2>2. CASE ~request[c].versioned
    BY <1>2, <2>2
  <2>. QED
    BY <2>1, <2>2
<1>7. [version |-> row'.version, content |-> edited] \in CopyType
  BY <1>2 DEF CopyType
<1>8. TypeOK'
  <2>1. seen' \in [Clients -> CopyType \cup {Unseen}]
    BY <1>1, <1>2, <1>7 DEF TypeOK
  <2>2. request' \in [Clients -> RequestType \cup {NoRequest}]'
    BY <1>1, <1>2 DEF TypeOK, RequestType, RowType
  <2>3. row' \in RowType'
    BY <1>2 DEF RowType
  <2>4. \A d \in Clients : seen'[d] # Unseen => seen'[d].version <= row'.version
    <3>. SUFFICES ASSUME NEW d \in Clients, seen'[d] # Unseen
                  PROVE  seen'[d].version <= row'.version
      OBVIOUS
    <3>1. CASE seen'[d] = seen[d]
      <4>1. seen[d].version \in Nat /\ seen[d].version <= row.version
        BY <1>1, <3>1 DEF TypeOK, CopyType
      <4>. QED
        BY <1>1, <1>2, <1>3, <3>1, <4>1
    <3>2. CASE seen'[d] = [version |-> row'.version, content |-> edited]
      BY <1>2, <3>2
    <3>. QED
      BY <1>6, <3>1, <3>2
  <2>. QED
    BY <1>1, <1>2, <2>1, <2>2, <2>3, <2>4 DEF TypeOK
<1>9. VersionNamesContent'
  <2>. SUFFICES ASSUME kind.increments, NEW d \in Clients, seen'[d] # Unseen,
                       seen'[d].version = row'.version
                PROVE  seen'[d] = Copy(row')
    BY <1>2 DEF VersionNamesContent, Copy
  <2>1. CASE seen'[d] = seen[d]
    <3>1. seen[d].version \in Nat /\ seen[d].version <= row.version
      BY <1>1, <2>1 DEF TypeOK, CopyType
    <3>. QED
      BY <1>1, <1>2, <1>3, <2>1, <3>1
  <2>2. CASE seen'[d] = [version |-> row'.version, content |-> edited]
    BY <1>4, <2>2 DEF Copy
  <2>. QED
    BY <1>6, <2>1, <2>2
<1>10. \A d \in Clients : Open(d)' => d # c /\ Open(d) /\ request'[d] = request[d]
  BY <1>1, <1>2, <1>5 DEF TypeOK, Open, NoRequest
<1>11. LoadedIsCurrent'
  <2>. SUFFICES ASSUME NEW d \in Clients, Open(d)'
                PROVE  /\ request'[d].loaded.version <= row'.version
                       /\ kind.increments => request'[d].loaded.version # row'.version
    BY <1>2 DEF LoadedIsCurrent
  <2>1. Open(d) /\ request'[d] = request[d]
    BY <1>10
  <2>2. request[d].loaded.version \in Nat
    BY <1>1, <2>1, OpenRequest DEF RequestType, RowType
  <2>3. request[d].loaded.version <= row.version
    BY <2>1 DEF IInv, LoadedIsCurrent
  <2>. QED
    BY <1>1, <1>2, <1>3, <2>1, <2>2, <2>3
<1>12. SeenWhatWasLoaded'
  BY <1>6, <1>10 DEF IInv, SeenWhatWasLoaded
<1>. QED
  BY <1>8, <1>9, <1>11, <1>12 DEF IInv

\* An edit that is given up leaves everything else as it is.
LEMMA GiveUpIInv ==
    ASSUME IInv, NEW c \in Clients, Conflict(c) \/ Abandon(c)
    PROVE  IInv'
<1>1. TypeOK
  BY DEF IInv
<1>2. /\ request' = [request EXCEPT ![c] = NoRequest]
      /\ kind' = kind /\ row' = row /\ seen' = seen
  BY DEF Conflict, Abandon, Done
<1>3. \A d \in Clients : Open(d)' => Open(d) /\ request'[d] = request[d]
  BY <1>1, <1>2 DEF TypeOK, Open, NoRequest
<1>4. TypeOK'
  BY <1>1, <1>2 DEF TypeOK, RowType, RequestType
<1>5. VersionNamesContent'
  BY <1>2 DEF IInv, VersionNamesContent, Copy
<1>6. LoadedIsCurrent' /\ SeenWhatWasLoaded'
  BY <1>2, <1>3 DEF IInv, LoadedIsCurrent, SeenWhatWasLoaded
<1>. QED
  BY <1>4, <1>5, <1>6 DEF IInv

\* Every step preserves it.
LEMMA NextIInv == IInv /\ [Next]_vars => IInv'
<1>. SUFFICES ASSUME IInv, [Next]_vars PROVE IInv'
  OBVIOUS
<1>1. CASE UNCHANGED vars
  BY <1>1 DEF vars, IInv, TypeOK, RowType, RequestType, VersionNamesContent, Copy,
              LoadedIsCurrent, SeenWhatWasLoaded, Open
<1>2. CASE Next
  BY <1>2, ViewIInv, LoadIInv, CommitIInv, GiveUpIInv DEF Next
<1>. QED
  BY <1>1, <1>2

LEMMA Invariance == Spec => []IInv
  BY InitIInv, NextIInv, PTL DEF Spec

(***************************************************************************)
(* Type correctness: no page shows a version the row has yet to get.       *)
(***************************************************************************)
THEOREM TypeCorrect == Spec => []TypeOK
<1>1. IInv => TypeOK
  BY DEF IInv
<1>. QED
  BY <1>1, Invariance, PTL

(***************************************************************************)
(* A page that shows the current version of a dashboard shows its current  *)
(* content.                                                                *)
(***************************************************************************)
THEOREM SameVersionSameContent == Spec => []VersionNamesContent
<1>1. IInv => VersionNamesContent
  BY DEF IInv
<1>. QED
  BY <1>1, Invariance, PTL
-----------------------------------------------------------------------------
(* The refinement *)

\* The first state of a row is one of a versioned record.
LEMMA InitPromise == Init => Promise!Init
<1>. SUFFICES ASSUME Init PROVE Promise!Init
  OBVIOUS
<1>1. PICK content \in Contents :
        row = [version |-> 1, content |-> content, hash |-> Hash(content)]
  BY DEF Init
<1>2. (CHOOSE any \in Contents : TRUE) \in Contents
  BY <1>1
<1>. QED
  BY <1>1, <1>2 DEF Init, Promise!Init, Copy

\* A commit of a dashboard is an edit by a page that has seen it, or overrides it.
LEMMA CommitPromise ==
    ASSUME IInv, NEW c \in Clients, Commit(c), kind.increments
    PROVE  \E content \in Contents :
              /\ Copy(row)' = [version |-> Copy(row).version + 1, content |-> content]
              /\ \/ seen' = seen
                 \/ seen[c] = Copy(row) /\ seen' = [seen EXCEPT ![c] = Copy(row)']
<1> DEFINE loaded == request[c].loaded
           edited == Edited(loaded.content, request[c].change)
<1>1. TypeOK /\ row \in RowType /\ row.version \in Nat /\ row.content \in Contents
  BY DEF IInv, TypeOK, RowType
<1>2. /\ edited \in Contents
      /\ row'.version = NextVersion(row.version)
      /\ row.version = loaded.version
      /\ row'.content = ChangedColumns(row.content, loaded.content, edited)
      /\ seen' = IF request[c].versioned
                 THEN [seen EXCEPT ![c] = [version |-> row'.version, content |-> edited]]
                 ELSE seen
  BY <1>1, CommitFacts
<1>3. Open(c)
  BY DEF Commit, RowFound
<1>4. row'.content = edited
  <2>1. loaded.content = row.content
    BY <1>2, <1>3 DEF IInv, LoadedIsCurrent
  <2>. QED
    BY <1>1, <1>2, <2>1, ColumnsOfCurrent
<1>5. Copy(row)' = [version |-> Copy(row).version + 1, content |-> edited]
  BY <1>2, <1>4 DEF Copy, NextVersion
<1>6. request[c].versioned => seen[c] = Copy(row)
  <2>. SUFFICES ASSUME request[c].versioned PROVE seen[c] = Copy(row)
    OBVIOUS
  <2>1. seen[c] # Unseen /\ row.version <= seen[c].version
    BY <1>2, <1>3 DEF IInv, SeenWhatWasLoaded
  <2>2. seen[c].version \in Nat /\ seen[c].version <= row.version
    BY <1>1, <2>1 DEF TypeOK, CopyType
  <2>. QED
    BY <1>1, <2>1, <2>2 DEF IInv, VersionNamesContent
<1>7. Copy(row)' = [version |-> row'.version, content |-> edited]
  BY <1>4 DEF Copy
<1>. QED
  BY <1>2, <1>5, <1>6, <1>7

\* Every step of a row is one of a versioned record, or none.
LEMMA NextPromise ==
    IInv /\ [Next]_vars =>
        [Promise!Next]_<<IF kind.increments THEN Copy(row)
                         ELSE [version |-> 1, content |-> CHOOSE content \in Contents : TRUE],
                         IF kind.increments THEN seen ELSE [c \in Clients |-> Unseen]>>
<1>. SUFFICES ASSUME IInv, [Next]_vars
              PROVE  Promise!Next
                     \/ /\ (IF kind.increments THEN Copy(row)
                            ELSE [version |-> 1, content |-> CHOOSE content \in Contents : TRUE])'
                           = (IF kind.increments THEN Copy(row)
                              ELSE [version |-> 1, content |-> CHOOSE content \in Contents : TRUE])
                        /\ (IF kind.increments THEN seen ELSE [c \in Clients |-> Unseen])'
                           = (IF kind.increments THEN seen ELSE [c \in Clients |-> Unseen])
  OBVIOUS
<1>1. kind' = kind
  BY DEF Next, View, Load, Commit, Conflict, Abandon, vars
<1>2. CASE ~kind.increments
  BY <1>1, <1>2
<1>3. CASE kind.increments /\ UNCHANGED vars
  BY <1>3 DEF vars, Copy
<1>4. ASSUME kind.increments, NEW c \in Clients, View(c)
      PROVE  Promise!Next
  <2>1. Promise!View(c)
    BY <1>1, <1>4 DEF View, Promise!View, Copy
  <2>. QED
    BY <2>1 DEF Promise!Next
<1>5. ASSUME kind.increments, NEW c \in Clients, Commit(c)
      PROVE  Promise!Next
  <2>1. PICK content \in Contents :
              /\ Copy(row)' = [version |-> Copy(row).version + 1, content |-> content]
              /\ \/ seen' = seen
                 \/ seen[c] = Copy(row) /\ seen' = [seen EXCEPT ![c] = Copy(row)']
    BY <1>5, CommitPromise
  <2>2. Promise!Override(content) \/ Promise!Edit(c, content)
    BY <1>1, <1>5, <2>1 DEF Promise!Override, Promise!Edit, Promise!Changed
  <2>. QED
    BY <2>2 DEF Promise!Next
<1>6. ASSUME kind.increments, NEW c \in Clients,
             \/ \E change \in Changes, versioned \in BOOLEAN : Load(c, change, versioned)
             \/ Conflict(c) \/ Abandon(c)
      PROVE  row' = row /\ seen' = seen
  BY <1>6 DEF Load, Conflict, Abandon
<1>. QED
  BY <1>1, <1>2, <1>3, <1>4, <1>5, <1>6 DEF Next, Copy

(***************************************************************************)
(* Dashboards implement the versioned record: an edit that sends the       *)
(* version its page shows changes what its author has seen, or nothing.    *)
(***************************************************************************)
THEOREM NoLostEdit == Spec => CompareAndSet
  BY InitPromise, NextPromise, Invariance, PTL DEF Spec, CompareAndSet, Promise!Spec
-----------------------------------------------------------------------------
(* Single steps *)

(***************************************************************************)
(* An edit nobody has come in between of leaves the hash that of the text  *)
(* and options.                                                            *)
(***************************************************************************)
THEOREM HashHeals == Spec => UndisturbedEditHeals
<1>1. ASSUME TypeOK, NEW c \in Clients, Commit(c), request[c].loaded = row
      PROVE  row'.hash = Hash(row'.content)
  <2> DEFINE edited == Edited(row.content, request[c].change)
  <2>1. /\ row \in RowType /\ row.content \in Contents /\ edited \in Contents
        /\ row'.content = ChangedColumns(row.content, row.content, edited)
    BY <1>1, CommitFacts DEF TypeOK, RowType
  <2>2. row'.content = edited
    BY <2>1, ColumnsOfCurrent
  <2>3. row'.hash = NewHash(row.hash, row, edited)
    BY <1>1 DEF Commit
  <2>. QED
    BY <2>2, <2>3 DEF NewHash
<1>2. IInv /\ [Next]_vars =>
        [\A c \in Clients :
            Commit(c) /\ request[c].loaded = row => row'.hash = Hash(row'.content)]_vars
  BY <1>1 DEF IInv
<1>. QED
  BY <1>2, Invariance, PTL DEF Spec, UndisturbedEditHeals

(***************************************************************************)
(* An edit leaves alone the columns it does not name.                      *)
(***************************************************************************)
THEOREM OthersKeepTheirColumns == Spec => OtherColumnsStay
<1>1. ASSUME TypeOK, NEW c \in Clients, Commit(c), NEW f \in Fields \ DOMAIN request[c].change
      PROVE  row'.content[f] = row.content[f]
  <2> DEFINE loaded == request[c].loaded
             edited == Edited(loaded.content, request[c].change)
  <2>1. /\ row.content \in Contents
        /\ row'.content = ChangedColumns(row.content, loaded.content, edited)
    BY <1>1, CommitFacts DEF TypeOK, RowType
  <2>2. edited[f] = loaded.content[f]
    BY <1>1 DEF Edited
  <2>. QED
    BY <1>1, <2>1, <2>2 DEF ChangedColumns, Contents
<1>2. IInv /\ [Next]_vars =>
        [\A c \in Clients : Commit(c) =>
           \A f \in Fields \ DOMAIN request[c].change : row'.content[f] = row.content[f]]_vars
  BY <1>1 DEF IInv
<1>. QED
  BY <1>2, Invariance, PTL DEF Spec, OtherColumnsStay
-----------------------------------------------------------------------------
(* Archiving *)

TextRow == [archived : BOOLEAN, scheduled : BOOLEAN, exists : BOOLEAN]

\* The requests a process may have in hand
Hands ==
    {EmptyHand}
    \cup [kind : {"edit"}, query : Texts, loaded : BOOLEAN, scheduled : BOOLEAN]
    \cup [kind : {"archive"}, query : Texts, loaded : BOOLEAN]
    \cup [kind : {"gathered"}, query : Texts, loaded : BOOLEAN, tiles : SUBSET Tiles, bells : SUBSET Bells]

\* Widgets show visualizations that are there
TilesShow == \A w \in Tiles : tileOf[w] \in Views => viewOf[tileOf[w]] # Nothing

ArchivingInv ==
    /\ ArchivingTypeOK
    /\ hand \in [Clerks -> Hands]
    /\ TilesShow
    /\ ArchivedIsQuiet

-----------------------------------------------------------------------------
\* There are no queries, visualizations, widgets or alerts in the beginning.
LEMMA ArchivingInitInv == ArchivingInit => ArchivingInv
<1> SUFFICES ASSUME ArchivingInit PROVE ArchivingInv
  OBVIOUS
<1>1. ArchivingTypeOK /\ hand \in [Clerks -> Hands]
  BY DEF ArchivingInit, ArchivingTypeOK, Hands, NoText, EmptyHand
<1>2. TilesShow
  BY NamesAssumption DEF ArchivingInit, TilesShow
<1>3. ArchivedIsQuiet
  BY DEF ArchivingInit, ArchivedIsQuiet, NoText
<1> QED
  BY <1>1, <1>2, <1>3 DEF ArchivingInv

\* The types, spelled out
Types ==
    /\ queryRow \in [Texts -> TextRow]
    /\ viewOf \in [Views -> Texts \cup {Nothing}]
    /\ tileOf \in [Tiles -> Views \cup {Nothing, TextBox}]
    /\ bellOf \in [Bells -> Texts \cup {Nothing}]
    /\ hand \in [Clerks -> Hands]
    /\ disturbed \subseteq Texts

\* They are those of ArchivingTypeOK, and more of what is in hand.
LEMMA TypesSuffice ==
    /\ Types => ArchivingTypeOK
    /\ ArchivingTypeOK /\ hand \in [Clerks -> Hands] => Types
  BY DEF Types, ArchivingTypeOK, Hands, TextRow, EmptyHand

(***************************************************************************)
(* Who archives a query alone hangs nothing on it: steps that give an      *)
(* archived query nothing leave it quiet.                                  *)
(***************************************************************************)
LEMMA NothingNew ==
    ASSUME ArchivedIsQuiet,
           \A q \in Texts \ disturbed' : queryRow'[q].archived =>
              /\ q \notin disturbed /\ queryRow[q].archived
              /\ queryRow'[q].scheduled => queryRow[q].scheduled
              /\ TilesOf(q)' \subseteq TilesOf(q)
              /\ BellsOf(q)' \subseteq BellsOf(q)
    PROVE  ArchivedIsQuiet'
  BY DEF ArchivedIsQuiet

\* What hangs on a query depends on these three functions alone.
LEMMA SameThings ==
    ASSUME NEW q, UNCHANGED <<viewOf, tileOf, bellOf>>
    PROVE  TilesOf(q)' = TilesOf(q) /\ BellsOf(q)' = BellsOf(q)
  BY DEF TilesOf, BellsOf, ViewsOf

\* A visualization that comes new has no widgets yet.
LEMMA NewViewStep ==
    ASSUME Types, TilesShow, NEW free \in SUBSET Views, NEW q \in Texts,
           \A v \in free : viewOf[v] = Nothing,
           viewOf' = [v \in Views |-> IF v \in free THEN q ELSE viewOf[v]],
           UNCHANGED <<tileOf, bellOf>>
    PROVE  TilesShow' /\ \A x \in Texts : TilesOf(x)' = TilesOf(x) /\ BellsOf(x)' = BellsOf(x)
<1>1. \A w \in Tiles : tileOf[w] \notin free
  BY DEF TilesShow
<1>2. TilesShow'
  BY <1>1, NamesAssumption DEF TilesShow, Types
<1>3. ASSUME NEW x \in Texts, NEW w \in Tiles
      PROVE  tileOf[w] \in ViewsOf(x)' <=> tileOf[w] \in ViewsOf(x)
  BY <1>1, <1>3 DEF ViewsOf
<1>4. \A x \in Texts : TilesOf(x)' = TilesOf(x)
  BY <1>3 DEF TilesOf
<1>5. \A x \in Texts : BellsOf(x)' = BellsOf(x)
  BY DEF BellsOf
<1> QED
  BY <1>2, <1>4, <1>5

-----------------------------------------------------------------------------
\* A new query has one visualization; it is not archived.
LEMMA CreateQueryStep ==
    ASSUME Types, TilesShow, ArchivedIsQuiet, NEW q \in Texts, NEW v \in Views,
           NEW scheduled \in BOOLEAN, CreateQuery(q, v, scheduled)
    PROVE  Types' /\ TilesShow' /\ ArchivedIsQuiet'
<1>1. Types'
  BY DEF CreateQuery, Types, FreshText, TextRow
<1>2. viewOf' = [x \in Views |-> IF x \in {v} THEN q ELSE viewOf[x]]
  BY DEF CreateQuery, Types
<1>3. TilesShow' /\ \A x \in Texts : TilesOf(x)' = TilesOf(x) /\ BellsOf(x)' = BellsOf(x)
  BY <1>2, NewViewStep DEF CreateQuery
<1>4. ArchivedIsQuiet'
  BY <1>3, NothingNew DEF CreateQuery, FreshText, Types
<1> QED
  BY <1>1, <1>3, <1>4

\* Nor is a fork, which has copies of the visualizations.
LEMMA ForkStep ==
    ASSUME Types, TilesShow, ArchivedIsQuiet, NEW q \in Texts, NEW f \in Texts,
           NEW copies \in SUBSET Views, Fork(q, f, copies)
    PROVE  Types' /\ TilesShow' /\ ArchivedIsQuiet'
<1>1. Types'
  BY DEF Fork, Types, FreshText, TextRow
<1>2. TilesShow' /\ \A x \in Texts : TilesOf(x)' = TilesOf(x) /\ BellsOf(x)' = BellsOf(x)
  BY NewViewStep DEF Fork
<1>3. ArchivedIsQuiet'
  BY <1>2, NothingNew DEF Fork, FreshText, Types
<1> QED
  BY <1>1, <1>2, <1>3

\* A schedule that is put on an archived query disturbs it.
LEMMA SaveQueryStep ==
    ASSUME Types, TilesShow, ArchivedIsQuiet, NEW p \in Clerks, SaveQuery(p)
    PROVE  Types' /\ TilesShow' /\ ArchivedIsQuiet'
<1> DEFINE q == hand[p].query
<1>1. q \in Texts /\ hand[p].scheduled \in BOOLEAN
  BY DEF SaveQuery, Types, Hands, EmptyHand
<1>2. UNCHANGED <<viewOf, tileOf, bellOf>> /\ hand' \in [Clerks -> Hands]
  BY DEF SaveQuery, Types, Hands
<1>3. /\ queryRow' \in [Texts -> TextRow]
      /\ \A x \in Texts : queryRow'[x].archived = queryRow[x].archived
      /\ \A x \in Texts : queryRow'[x].scheduled => queryRow[x].scheduled
                             \/ (x = q /\ queryRow' # queryRow /\ hand[p].scheduled)
  <2>1. CASE hand[p].scheduled = hand[p].loaded
    BY <2>1 DEF SaveQuery, Types
  <2>2. CASE hand[p].scheduled # hand[p].loaded
    <3>1. queryRow' = [queryRow EXCEPT ![q].scheduled = hand[p].scheduled]
      BY <2>2 DEF SaveQuery
    <3>2. \A x \in Texts : queryRow[x] \in TextRow
      BY DEF Types
    <3>3. \A x \in Texts \ {q} : queryRow'[x] = queryRow[x]
      BY <1>1, <3>1 DEF Types
    <3>4. queryRow'[q] = [queryRow[q] EXCEPT !.scheduled = hand[p].scheduled]
      BY <1>1, <3>1 DEF Types
    <3>5. /\ queryRow'[q] \in TextRow
          /\ queryRow'[q].archived = queryRow[q].archived
          /\ queryRow'[q].scheduled = hand[p].scheduled
      BY <1>1, <3>2, <3>4 DEF TextRow
    <3>6. queryRow' \in [Texts -> TextRow]
      BY <1>1, <3>1, <3>2, <3>3, <3>5 DEF Types, TextRow
    <3>7. queryRow'[q].scheduled => queryRow[q].scheduled \/ (queryRow' # queryRow /\ hand[p].scheduled)
      BY <1>1, <3>5
    <3> QED
      BY <1>1, <3>3, <3>5, <3>6, <3>7
  <2> QED
    BY <2>1, <2>2
<1>4. /\ disturbed \subseteq disturbed' /\ disturbed' \subseteq Texts
      /\ (queryRow' # queryRow /\ hand[p].scheduled /\ queryRow[q].archived) => q \in disturbed'
  BY <1>1 DEF SaveQuery, HungOn, Types
<1>5. ArchivedIsQuiet'
  BY <1>1, <1>2, <1>3, <1>4, SameThings, NothingNew
<1> QED
  BY <1>2, <1>3, <1>4, <1>5 DEF Types, TilesShow

\* A widget with a visualization disturbs the query, if it is archived.
LEMMA AddTileStep ==
    ASSUME Types, TilesShow, ArchivedIsQuiet, NEW w \in Tiles, NEW v \in Views \cup {TextBox},
           AddTile(w, v)
    PROVE  Types' /\ TilesShow' /\ ArchivedIsQuiet'
<1>1. /\ tileOf' = [tileOf EXCEPT ![w] = v] /\ UNCHANGED <<queryRow, viewOf, bellOf, hand>>
      /\ v # TextBox => v \in Views /\ viewOf[v] \in Texts
      /\ disturbed' = IF v = TextBox THEN disturbed ELSE HungOn(viewOf[v])
  BY NamesAssumption DEF AddTile, Types
<1>2. Types'
  BY <1>1 DEF Types, HungOn
<1>3. TilesShow'
  BY <1>1, NamesAssumption DEF TilesShow, Types
<1>4. ASSUME NEW q \in Texts \ disturbed', queryRow[q].archived
      PROVE  q \notin disturbed /\ TilesOf(q)' \subseteq TilesOf(q) /\ BellsOf(q)' \subseteq BellsOf(q)
  <2>1. q \notin disturbed /\ (v # TextBox => viewOf[v] # q)
    BY <1>1, <1>4 DEF HungOn
  <2>2. v \notin ViewsOf(q)
    BY <2>1, NamesAssumption DEF ViewsOf
  <2> QED
    BY <1>1, <2>1, <2>2 DEF TilesOf, BellsOf, ViewsOf, Types
<1>5. ArchivedIsQuiet'
  BY <1>1, <1>4, NothingNew
<1> QED
  BY <1>2, <1>3, <1>5

\* So does an alert.
LEMMA SetBellStep ==
    ASSUME Types, TilesShow, ArchivedIsQuiet, NEW a \in Bells, NEW q \in Texts, SetBell(a, q)
    PROVE  Types' /\ TilesShow' /\ ArchivedIsQuiet'
<1>1. bellOf' = [bellOf EXCEPT ![a] = q] /\ UNCHANGED <<queryRow, viewOf, tileOf, hand>>
  BY DEF SetBell
<1>2. Types'
  BY <1>1 DEF SetBell, Types, HungOn
<1>3. ASSUME NEW x \in Texts \ disturbed', queryRow[x].archived
      PROVE  x \notin disturbed /\ TilesOf(x)' \subseteq TilesOf(x) /\ BellsOf(x)' \subseteq BellsOf(x)
  <2>1. x \notin disturbed /\ x # q
    BY <1>3 DEF SetBell, HungOn
  <2> QED
    BY <1>1, <2>1 DEF TilesOf, BellsOf, ViewsOf, Types
<1>4. ArchivedIsQuiet'
  BY <1>1, <1>3, NothingNew
<1> QED
  BY <1>1, <1>2, <1>4 DEF TilesShow

\* Archiving leaves nothing, unless something was hung on the query since it was gathered.
LEMMA ArchiveStep ==
    ASSUME Types, TilesShow, ArchivedIsQuiet, NEW p \in Clerks, Archive(p)
    PROVE  Types' /\ TilesShow' /\ ArchivedIsQuiet'
<1>0. PICK q \in Texts : q = hand[p].query
  BY DEF Archive, Types, Hands, EmptyHand
<1>l. hand[p].loaded \in BOOLEAN
  BY DEF Archive, Types, Hands, EmptyHand
<1> DEFINE kept == queryRow[q].scheduled /\ ~hand[p].loaded
<1>1. /\ queryRow' = [queryRow EXCEPT ![q].archived = TRUE, ![q].scheduled = kept]
      /\ tileOf' = [w \in Tiles |-> IF w \in hand[p].tiles THEN Nothing ELSE tileOf[w]]
      /\ bellOf' = [a \in Bells |-> IF a \in hand[p].bells THEN Nothing ELSE bellOf[a]]
      /\ UNCHANGED viewOf
  <2>1. queryRow' = Archived(q, hand[p].loaded)
    BY <1>0 DEF Archive
  <2>2. queryRow' = [queryRow EXCEPT ![q].archived = TRUE, ![q].scheduled = kept]
    BY <2>1 DEF Archived
  <2> QED
    BY <2>2 DEF Archive
<1>2. queryRow' \in [Texts -> TextRow] /\ queryRow'[q].scheduled = kept
  <2>1. queryRow[q] \in TextRow
    BY DEF Types
  <2>2. queryRow'[q] = [queryRow[q] EXCEPT !.archived = TRUE, !.scheduled = kept]
    BY <1>1 DEF Types
  <2>3. kept \in BOOLEAN
    BY <1>l, <2>1 DEF TextRow
  <2>4. queryRow'[q] \in TextRow /\ queryRow'[q].scheduled = kept
    BY <2>1, <2>2, <2>3 DEF TextRow
  <2> QED
    BY <1>1, <2>4 DEF Types
<1>3. Types'
  BY <1>0, <1>1, <1>2 DEF Archive, Outdated, Types, Hands
<1>4. TilesShow'
  BY <1>1, NamesAssumption DEF TilesShow, Types
<1>5. \A x \in Texts : TilesOf(x)' \subseteq TilesOf(x) \ hand[p].tiles
  BY <1>1, NamesAssumption DEF TilesOf, ViewsOf, Types
<1>6. \A x \in Texts : BellsOf(x)' \subseteq BellsOf(x) \ hand[p].bells
  BY <1>1, NamesAssumption DEF BellsOf, Types
<1>7. ASSUME NEW x \in Texts \ disturbed', queryRow'[x].archived
      PROVE  ~queryRow'[x].scheduled /\ TilesOf(x)' = {} /\ BellsOf(x)' = {}
  <2>1. CASE x = q
    <3>1. /\ TilesOf(q) \subseteq hand[p].tiles /\ BellsOf(q) \subseteq hand[p].bells
          /\ queryRow[q].scheduled => hand[p].loaded
      BY <1>0, <1>7, <2>1 DEF Archive, Outdated
    <3>2. ~kept
      BY <1>l, <3>1
    <3> QED
      BY <1>2, <1>5, <1>6, <2>1, <3>1, <3>2
  <2>2. CASE x # q
    <3>1. queryRow'[x] = queryRow[x] /\ x \notin disturbed
      BY <1>0, <1>1, <1>7, <2>2 DEF Archive, Outdated, Types
    <3> QED
      BY <1>5, <1>6, <1>7, <3>1 DEF ArchivedIsQuiet
  <2> QED
    BY <2>1, <2>2
<1> QED
  BY <1>3, <1>4, <1>7 DEF ArchivedIsQuiet

\* What is taken away, or only taken in hand, disturbs nothing.
LEMMA LesserSteps ==
    ASSUME Types, TilesShow, ArchivedIsQuiet,
           \/ \E q \in Texts : EmptySchedule(q) \/ \E v \in Views : AddView(v, q)
           \/ \E v \in Views : DeleteView(v)
           \/ \E w \in Tiles : DeleteTile(w)
           \/ \E a \in Bells : DeleteBell(a)
           \/ \E p \in Clerks :
                 \/ LetGo(p) \/ Gather(p)
                 \/ \E q \in Texts : OpenArchive(p, q) \/ \E scheduled \in BOOLEAN : OpenQuery(p, q, scheduled)
    PROVE  Types' /\ TilesShow' /\ ArchivedIsQuiet'
<1>1. ASSUME NEW q \in Texts, EmptySchedule(q) PROVE Types' /\ TilesShow' /\ ArchivedIsQuiet'
  <2>1. queryRow[q] \in TextRow /\ queryRow' = [queryRow EXCEPT ![q].scheduled = FALSE]
    BY <1>1 DEF EmptySchedule, Types
  <2>2. queryRow'[q] = [queryRow[q] EXCEPT !.scheduled = FALSE]
    BY <2>1 DEF Types
  <2>3. /\ queryRow'[q] \in TextRow /\ ~queryRow'[q].scheduled
        /\ queryRow'[q].archived = queryRow[q].archived
    BY <2>1, <2>2 DEF TextRow
  <2>4. Types' /\ UNCHANGED <<viewOf, tileOf, bellOf, disturbed>>
    BY <1>1, <2>1, <2>3 DEF EmptySchedule, Types
  <2>5. \A x \in Texts \ {q} : queryRow'[x] = queryRow[x]
    BY <2>1 DEF Types
  <2>6. ArchivedIsQuiet'
    BY <2>3, <2>4, <2>5, SameThings, NothingNew
  <2> QED
    BY <2>4, <2>6 DEF TilesShow
<1>2. ASSUME NEW q \in Texts, NEW v \in Views, AddView(v, q)
      PROVE  Types' /\ TilesShow' /\ ArchivedIsQuiet'
  <2>1. viewOf' = [x \in Views |-> IF x \in {v} THEN q ELSE viewOf[x]]
    BY <1>2 DEF AddView, Types
  <2>2. TilesShow' /\ \A x \in Texts : TilesOf(x)' = TilesOf(x) /\ BellsOf(x)' = BellsOf(x)
    BY <1>2, <2>1, NewViewStep DEF AddView
  <2>3. ArchivedIsQuiet'
    BY <1>2, <2>2, NothingNew DEF AddView
  <2> QED
    BY <1>2, <2>2, <2>3 DEF AddView, Types
<1>3. ASSUME NEW v \in Views, DeleteView(v) PROVE Types' /\ TilesShow' /\ ArchivedIsQuiet'
  <2>1. /\ viewOf' = [viewOf EXCEPT ![v] = Nothing]
        /\ tileOf' = [w \in Tiles |-> IF tileOf[w] = v THEN Nothing ELSE tileOf[w]]
        /\ UNCHANGED <<queryRow, bellOf, hand, disturbed>>
    BY <1>3 DEF DeleteView
  <2>2. Types'
    BY <2>1 DEF Types
  <2>3. TilesShow'
    BY <2>1, NamesAssumption DEF TilesShow, Types
  <2>4. \A q \in Texts : TilesOf(q)' \subseteq TilesOf(q) /\ BellsOf(q)' = BellsOf(q)
    BY <2>1, NamesAssumption DEF TilesOf, ViewsOf, BellsOf, Types
  <2>5. ArchivedIsQuiet'
    BY <2>1, <2>4, NothingNew
  <2> QED
    BY <2>2, <2>3, <2>5
<1>4. ASSUME NEW w \in Tiles, DeleteTile(w) PROVE Types' /\ TilesShow' /\ ArchivedIsQuiet'
  <2>1. /\ tileOf' = [tileOf EXCEPT ![w] = Nothing]
        /\ UNCHANGED <<queryRow, viewOf, bellOf, hand, disturbed>>
    BY <1>4 DEF DeleteTile
  <2>2. Types' /\ TilesShow'
    BY <2>1, NamesAssumption DEF Types, TilesShow
  <2>3. \A q \in Texts : TilesOf(q)' \subseteq TilesOf(q) /\ BellsOf(q)' = BellsOf(q)
    BY <2>1, NamesAssumption DEF TilesOf, ViewsOf, BellsOf, Types
  <2>4. ArchivedIsQuiet'
    BY <2>1, <2>3, NothingNew
  <2> QED
    BY <2>2, <2>4
<1>5. ASSUME NEW a \in Bells, DeleteBell(a) PROVE Types' /\ TilesShow' /\ ArchivedIsQuiet'
  <2>1. /\ bellOf' = [bellOf EXCEPT ![a] = Nothing]
        /\ UNCHANGED <<queryRow, viewOf, tileOf, hand, disturbed>>
    BY <1>5 DEF DeleteBell
  <2>2. Types' /\ TilesShow'
    BY <2>1 DEF Types, TilesShow
  <2>3. \A q \in Texts : TilesOf(q)' = TilesOf(q) /\ BellsOf(q)' \subseteq BellsOf(q)
    BY <2>1, NamesAssumption DEF TilesOf, ViewsOf, BellsOf, Types
  <2>4. ArchivedIsQuiet'
    BY <2>1, <2>3, NothingNew
  <2> QED
    BY <2>2, <2>4
<1>6. ASSUME hand' \in [Clerks -> Hands], UNCHANGED <<queryRow, viewOf, tileOf, bellOf, disturbed>>
      PROVE  Types' /\ TilesShow' /\ ArchivedIsQuiet'
  <2>1. Types' /\ TilesShow'
    BY <1>6 DEF Types, TilesShow
  <2>2. ArchivedIsQuiet'
    BY <1>6, SameThings, NothingNew
  <2> QED
    BY <2>1, <2>2
<1>7. ASSUME NEW p \in Clerks, LetGo(p) PROVE Types' /\ TilesShow' /\ ArchivedIsQuiet'
  BY <1>6, <1>7 DEF LetGo, Types, Hands
<1>8. ASSUME NEW p \in Clerks, Gather(p) PROVE Types' /\ TilesShow' /\ ArchivedIsQuiet'
  <2>1. hand[p].query \in Texts /\ hand[p].loaded \in BOOLEAN
    BY <1>8 DEF Gather, Types, Hands, EmptyHand
  <2> QED
    BY <1>6, <1>8, <2>1 DEF Gather, Types, Hands, TilesOf, BellsOf
<1>10. ASSUME NEW p \in Clerks, NEW q \in Texts, OpenArchive(p, q)
       PROVE  Types' /\ TilesShow' /\ ArchivedIsQuiet'
  <2>1. queryRow[q].scheduled \in BOOLEAN
    BY DEF Types, TextRow
  <2> QED
    BY <1>6, <1>10, <2>1 DEF OpenArchive, Types, Hands
<1>9. ASSUME NEW p \in Clerks, NEW q \in Texts, NEW scheduled \in BOOLEAN, OpenQuery(p, q, scheduled)
      PROVE  Types' /\ TilesShow' /\ ArchivedIsQuiet'
  <2>1. queryRow[q].scheduled \in BOOLEAN
    BY DEF Types, TextRow
  <2> QED
    BY <1>6, <1>9, <2>1 DEF OpenQuery, Types, Hands
<1> QED
  BY <1>1, <1>2, <1>3, <1>4, <1>5, <1>7, <1>8, <1>9, <1>10

\* Every step keeps the invariant.
LEMMA ArchivingStep == ArchivingInv /\ [ArchivingNext]_archivingVars => ArchivingInv'
<1> SUFFICES ASSUME ArchivingInv, [ArchivingNext]_archivingVars PROVE ArchivingInv'
  OBVIOUS
<1>0. Types /\ TilesShow /\ ArchivedIsQuiet
  BY TypesSuffice DEF ArchivingInv
<1>1. Types' /\ TilesShow' /\ ArchivedIsQuiet'
  <2>1. CASE UNCHANGED archivingVars
    <3>1. UNCHANGED <<queryRow, viewOf, tileOf, bellOf, hand, disturbed>>
      BY <2>1 DEF archivingVars
    <3>2. Types' /\ TilesShow'
      BY <1>0, <3>1 DEF Types, TilesShow
    <3>3. ArchivedIsQuiet'
      BY <1>0, <3>1, SameThings, NothingNew
    <3> QED
      BY <3>2, <3>3
  <2>2. CASE ArchivingNext
    BY <1>0, <2>2, CreateQueryStep, ForkStep, SaveQueryStep, AddTileStep, SetBellStep, ArchiveStep,
       LesserSteps DEF ArchivingNext
  <2> QED
    BY <2>1, <2>2
<1>2. Types' => ArchivingTypeOK' /\ hand' \in [Clerks -> Hands]
  BY DEF Types, ArchivingTypeOK, Hands, TextRow, EmptyHand
<1> QED
  BY <1>1, <1>2 DEF ArchivingInv

\* The invariant is inductive.
LEMMA ArchivingInvariant == ArchivingSpec => []ArchivingInv
  BY ArchivingInitInv, ArchivingStep, PTL DEF ArchivingSpec

\* Queries, and what hangs on them, keep their types.
THEOREM ArchivingTypeCorrect == ArchivingSpec => []ArchivingTypeOK
<1>1. ArchivingInv => ArchivingTypeOK
  BY DEF ArchivingInv
<1> QED
  BY <1>1, ArchivingInvariant, PTL

(***************************************************************************)
(* An archived query is not scheduled, on no dashboard and watched by no   *)
(* alert (dingolytics/models/queries.py:106), for any number of queries    *)
(* and of requests at once, but for what it was given from the load of its *)
(* row on, while it was being archived, or afterwards.                     *)
(***************************************************************************)
THEOREM ArchivedStaysQuiet == ArchivingSpec => []ArchivedIsQuiet
<1>1. ArchivingInv => ArchivedIsQuiet
  BY DEF ArchivingInv
<1> QED
  BY <1>1, ArchivingInvariant, PTL

-----------------------------------------------------------------------------
(* Listings: a reader knows how many rows stand before the page to come     *)

\* What is listed
Rows(req) == Listed(req).rows

\* A list is a set of rows there are, in some order
IsList(list) ==
    list = [rows |-> list.rows, order |-> list.order] /\ list.rows \subseteq Existing

LEMMA FilteredShape ==
    ASSUME NEW list, IsList(list), NEW mark
    PROVE  IsList(Filtered(list, mark)) /\ Filtered(list, mark).order = list.order
  <1> DEFINE f == [list EXCEPT !.rows = list.rows \cap Marked(mark)]
  <1>1. f = [rows |-> list.rows \cap Marked(mark), order |-> list.order]
    BY DEF IsList
  <1>2. Filtered(list, mark) = f
    BY DEF Filtered
  <1> QED BY <1>1, <1>2 DEF IsList

LEMMA TaggedShape ==
    ASSUME NEW list, IsList(list), NEW req
    PROVE  IsList(FilterByTags(req, list)) /\ FilterByTags(req, list).order = list.order
  BY FilteredShape DEF FilterByTags

LEMMA MadeShape ==
    ASSUME NEW rows, rows \subseteq Existing
    PROVE  /\ IsList(Unordered(rows)) /\ Unordered(rows).order = "none"
           /\ IsList(ById(rows)) /\ ById(rows).order = "id"
           /\ IsList(LatestFirst(rows)) /\ LatestFirst(rows).order = "latest"
           /\ LatestFirst(rows).rows = rows
  BY DEF IsList, Unordered, ById, LatestFirst

LEMMA QueriesShape ==
    ASSUME NEW drafts, NEW archived, NEW multiByte
    PROVE  /\ IsList(QueriesOf(drafts, archived))
           /\ IsList(QuerySearch(drafts, archived, multiByte))
           /\ multiByte => QuerySearch(drafts, archived, multiByte).order = "id"
  <1>1. IsList(QueriesOf(drafts, archived))
    BY MadeShape DEF QueriesOf
  <1>2. Filtered(QueriesOf(drafts, archived), "matching").rows \subseteq Existing
    BY <1>1, FilteredShape DEF IsList
  <1> QED BY <1>1, <1>2, MadeShape DEF QuerySearch

LEMMA DashboardsShape == \A term : IsList(DashboardsOf(term))
  <1>1. IsList(Unordered((Existing \ Marked("archived")) \cap (Marked("mine") \cup (Ids \ Marked("draft")))))
    BY MadeShape
  <1> QED BY <1>1, FilteredShape DEF DashboardsOf

LEMMA UsersShape ==
    ASSUME NEW req, req.pending \in {"any", "yes", "no"}
    PROVE  IsList(UserList(req))
  <1> DEFINE some == IF req.disabled THEN Existing \cap Marked("disabled")
                     ELSE Existing \ Marked("disabled")
             rows == CASE req.pending = "any" -> some
                       [] req.pending = "yes" -> some \cap Marked("pending")
                       [] req.pending = "no"  -> some \ Marked("pending")
  <1>1. some \subseteq Existing
    OBVIOUS
  <1> HIDE DEF some
  <1>2. rows \subseteq Existing
    BY <1>1
  <1> HIDE DEF rows
  <1>3. IsList(Unordered(rows))
    BY <1>2, MadeShape
  <1>4. UserList(req) = IF req.term THEN Filtered(Unordered(rows), "matching") ELSE Unordered(rows)
    BY DEF UserList, rows, some
  <1> QED BY <1>3, <1>4, FilteredShape

\* Lists whose order determines the place of some of their rows
IsOrdered(req) ==
    \/ req.of \in {"queries", "archive", "favorite queries"} /\ req.term /\ req.multiByte
    \/ req.of = "events"
OrderOf(req) == IF req.of = "events" THEN "latest" ELSE "id"

Shaped ==
    \A req \in Listings :
        /\ IsList(Listed(req))
        /\ IsOrdered(req) => Listed(req).order = OrderOf(req)
        /\ req.of = "events" => Rows(req) = Existing

\* What is listed are rows there are, all events, and in which order
LEMMA ListedShape == Shaped
  <1> SUFFICES ASSUME NEW req \in Listings
               PROVE  /\ IsList(Listed(req))
                      /\ IsOrdered(req) => Listed(req).order = OrderOf(req)
                      /\ req.of = "events" => Rows(req) = Existing
    BY DEF Shaped
  <1>1. req.of \in Lists /\ (req.of = "users" => req.pending \in {"any", "yes", "no"})
    BY ListingAssumption
  <1>2. CASE req.of = "queries"
    <2> DEFINE found == QuerySearch(TRUE, FALSE, req.multiByte)
               all == QueriesOf(TRUE, FALSE)
    <2>1. IsList(found) /\ IsList(all) /\ (req.multiByte => found.order = "id")
      BY QueriesShape, Zenon
    <2>2. Listed(req) = FilterByTags(req, IF req.term THEN found ELSE all)
      BY <1>2 DEF Listed, OrderResults, QueryList
    <2> HIDE DEF found, all
    <2> QED BY <1>2, <2>1, <2>2, TaggedShape DEF IsOrdered, OrderOf
  <1>3. CASE req.of = "archive"
    <2> DEFINE found == QuerySearch(FALSE, TRUE, req.multiByte)
               all == QueriesOf(FALSE, TRUE)
    <2>1. IsList(found) /\ IsList(all) /\ (req.multiByte => found.order = "id")
      BY QueriesShape, Zenon
    <2>2. Listed(req) = FilterByTags(req, IF req.term THEN found ELSE all)
      BY <1>3 DEF Listed, OrderResults, QueryArchive
    <2> HIDE DEF found, all
    <2> QED BY <1>3, <2>1, <2>2, TaggedShape DEF IsOrdered, OrderOf
  <1>4. CASE req.of = "my queries"
    <2>1. Listed(req) = MyQueries(req)
      BY <1>4 DEF Listed, OrderResults
    <2> QED BY <1>4, <2>1, QueriesShape, TaggedShape, FilteredShape DEF MyQueries, IsOrdered
  <1>5. CASE req.of = "favorite queries"
    <2> DEFINE found == QuerySearch(TRUE, FALSE, TRUE)
               all == QueriesOf(TRUE, FALSE)
               starred == Filtered(IF req.term THEN found ELSE all, "starred")
    <2>1. IsList(found) /\ IsList(all) /\ found.order = "id"
      BY QueriesShape, Zenon
    <2>2. Listed(req) = FilterByTags(req, starred)
      BY <1>5 DEF Listed, OrderResults, QueryFavorites
    <2> HIDE DEF found, all
    <2>3. IsList(starred) /\ (req.term => starred.order = "id")
      BY <2>1, FilteredShape
    <2> HIDE DEF starred
    <2> QED BY <1>5, <2>2, <2>3, TaggedShape DEF IsOrdered, OrderOf
  <1>6. CASE req.of = "dashboards"
    <2>1. Listed(req) = DashboardList(req)
      BY <1>6 DEF Listed, OrderResults
    <2> QED BY <1>6, <2>1, DashboardsShape, TaggedShape DEF DashboardList, IsOrdered
  <1>7. CASE req.of = "my dashboards"
    <2>1. Listed(req) = MyDashboards(req)
      BY <1>7 DEF Listed, OrderResults
    <2> QED BY <1>7, <2>1, DashboardsShape, TaggedShape, FilteredShape DEF MyDashboards, IsOrdered
  <1>8. CASE req.of = "favorite dashboards"
    <2>1. Listed(req) = DashboardFavorites(req)
      BY <1>8 DEF Listed, OrderResults
    <2> QED BY <1>8, <2>1, DashboardsShape, TaggedShape, FilteredShape DEF DashboardFavorites, IsOrdered
  <1>9. CASE req.of = "users"
    <2>1. Listed(req) = UserList(req)
      BY <1>9 DEF Listed, OrderResults
    <2> QED BY <1>1, <1>9, <2>1, UsersShape DEF IsOrdered
  <1>10. CASE req.of = "events"
    <2>1. Listed(req) = LatestFirst(Existing)
      BY <1>10 DEF Listed, OrderResults, EventList
    <2> QED BY <1>10, <2>1, MadeShape DEF IsOrdered, OrderOf, Rows
  <1> QED BY <1>1, <1>2, <1>3, <1>4, <1>5, <1>6, <1>7, <1>8, <1>9, <1>10 DEF Lists

LEMMA ListedShapeNext == Shaped'
  BY ListedShape, PTL

\* The rows before i
AheadOf(req, i) == { j \in Rows(req) \ {i} : Before(Listed(req).order, j, i) }

\* So many numbers there are.
LEMMA CountUpTo == ASSUME NEW n \in Nat PROVE Cardinality(1..n) = n
  BY FS_Interval

\* The order determines where i stands: behind the rows before it
LEMMA Position ==
    ASSUME NEW rows, IsFiniteSet(rows), NEW order, NEW s \in Arrangements([rows |-> rows, order |-> order]),
           NEW i \in rows, \A j \in rows \ {i} : ~(Before(order, i, j) /\ Before(order, j, i)),
           NEW ahead, \A j : j \in ahead <=> j \in rows \ {i} /\ Before(order, j, i)
    PROVE  \E n \in 1..Cardinality(rows) : s[n] = i /\ n = Cardinality(ahead) + 1
  <1> DEFINE N == Cardinality(rows)
  <1>1. N \in Nat
    BY FS_CardinalityType
  <1>2. /\ s \in [1..N -> rows]
        /\ \A m, n \in 1..N : m < n => s[m] # s[n] /\ Before(order, s[m], s[n])
    BY DEF Arrangements
  <1> HIDE DEF N
  <1>3. \A m, n \in 1..N : s[m] = s[n] => m = n
    BY <1>1, <1>2
  <1>4. s \in Injection(1..N, rows)
    BY <1>2, <1>3, Fun_IsInj
  <1>5. Cardinality(1..N) = N
    BY <1>1, CountUpTo
  <1>6. s \in Surjection(1..N, rows)
    BY <1>4, <1>5, FS_Injection DEF N
  <1>onto. \A j \in rows : \E m \in 1..N : s[m] = j
    BY <1>6 DEF Surjection
  <1>7. PICK n \in 1..N : s[n] = i
    BY <1>onto
  <1> DEFINE f == [m \in 1..(n - 1) |-> s[m]]
  <1>8. f \in [1..(n - 1) -> ahead]
    BY <1>1, <1>2, <1>7
  <1>9. \A a, b \in 1..(n - 1) : f[a] = f[b] => a = b
    BY <1>1, <1>3
  <1>10. \A j \in ahead : \E m \in 1..(n - 1) : f[m] = j
    <2> SUFFICES ASSUME NEW j \in ahead PROVE \E m \in 1..(n - 1) : f[m] = j
      OBVIOUS
    <2>1. PICK m \in 1..N : s[m] = j
      BY <1>onto
    <2>2. m # n
      BY <1>7, <2>1
    <2>3. ~(n < m)
      BY <1>2, <1>7, <2>1
    <2>4. m \in 1..(n - 1)
      BY <1>1, <2>2, <2>3
    <2> QED BY <2>1, <2>4
  <1> HIDE DEF f
  <1>11. f \in Bijection(1..(n - 1), ahead)
    BY <1>8, <1>9, <1>10, Fun_IsBij
  <1>12. ExistsBijection(1..(n - 1), ahead)
    BY <1>11 DEF ExistsBijection
  <1>13. n - 1 \in Nat
    BY <1>1
  <1>14. Cardinality(ahead) = n - 1
    BY <1>12, <1>13, FS_CountingElements
  <1>15. n = Cardinality(ahead) + 1
    BY <1>1, <1>14
  <1> QED BY <1>7, <1>15 DEF N

ReadingFields == {"phase", "request", "size", "page", "count", "seen", "steady", "left", "came", "late"}

ReadingShape(r) ==
    /\ r = [k \in DOMAIN r |-> r[k]] /\ DOMAIN r = ReadingFields
    /\ r.phase \in {"asked", "counted", "refused", "done"}
    /\ r.request \in Listings /\ r.size \in PageSizes
    /\ r.page \in Nat \ {0} /\ r.count \in Nat
    /\ r.seen \in [Ids -> Nat] /\ r.steady \subseteq Ids
    /\ r.left \in BOOLEAN /\ r.came \in BOOLEAN /\ r.late \in BOOLEAN
    /\ r.late => r.came

\* How many rows the pages before have
Turned(r) == (r.page - 1) * r.size

\* What stands before the page has been seen
OnWay(r, req, i) ==
    LET ahead == Cardinality(AheadOf(req, i))
    IN  /\ r.seen[i] >= 1 \/ ahead >= Turned(r)
        /\ ~r.came => r.seen[i] = IF ahead < Turned(r) THEN 1 ELSE 0

\* While a list is read
UnderWay(r, req) ==
    /\ r.steady \subseteq Rows(req)
    /\ r.page = 1 => \A i \in Ids : r.seen[i] = 0
    /\ r.phase = "counted" /\ ~r.left /\ ~r.late => Cardinality(Rows(req)) = r.count
    /\ ~r.left => \A i \in r.steady : Placed(req, i) => OnWay(r, req, i)

ListingInv ==
    /\ table \in [Ids -> (SUBSET Marks) \cup {Gone}]
    /\ moment \in [Ids -> Nat]
    /\ writes \in 0..MaxWrites
    /\ reading # NoReading => ReadingShape(reading)
    /\ \A req \in Listings :
          reading # NoReading /\ reading.phase \in {"asked", "counted"} /\ reading.request = req
             => UnderWay(reading, req)
    /\ PagesMissNothing

LEMMA ListingInvInit == ListingInit => ListingInv
  <1> SUFFICES ASSUME ListingInit PROVE ListingInv
    OBVIOUS
  <1>1. table \in [Ids -> (SUBSET Marks) \cup {Gone}]
    BY ListingAssumption DEF ListingInit
  <1>2. moment \in [Ids -> Nat] /\ writes \in 0..MaxWrites
    BY ListingAssumption DEF ListingInit
  <1>3. NoReading.phase = "idle"
    BY DEF NoReading
  <1> QED BY <1>1, <1>2, <1>3 DEF ListingInit, ListingInv, PagesMissNothing

\* Rows that are listed are finitely many, and there.
LEMMA RowsShape ==
    ASSUME NEW req \in Listings
    PROVE  /\ Rows(req) \subseteq Existing /\ Rows(req) \subseteq Ids /\ IsFiniteSet(Rows(req))
           /\ Rows(req)' \subseteq Existing' /\ Rows(req)' \subseteq Ids /\ IsFiniteSet(Rows(req)')
  <1>1. Rows(req) \subseteq Existing /\ Rows(req)' \subseteq Existing'
    BY ListedShape, ListedShapeNext DEF Shaped, IsList, Rows
  <1>2. Existing \subseteq Ids /\ Existing' \subseteq Ids
    BY DEF Existing
  <1> QED BY <1>1, <1>2, ListingAssumption, FS_Subset

\* What is ahead of a row is finitely much
LEMMA AheadShape ==
    ASSUME NEW req \in Listings, NEW i
    PROVE  /\ IsFiniteSet(AheadOf(req, i)) /\ Cardinality(AheadOf(req, i)) \in Nat
           /\ IsFiniteSet(AheadOf(req, i)') /\ Cardinality(AheadOf(req, i)') \in Nat
  <1>1. AheadOf(req, i) \subseteq Rows(req) /\ AheadOf(req, i)' \subseteq Rows(req)'
    BY DEF AheadOf
  <1>2. IsFiniteSet(AheadOf(req, i)) /\ IsFiniteSet(AheadOf(req, i)')
    BY <1>1, RowsShape, FS_Subset
  <1> QED BY <1>2, FS_CardinalityType

LEMMA PageArithmetic ==
    ASSUME NEW page \in Nat \ {0}, NEW size \in Nat
    PROVE  /\ (page - 1) * size \in Nat /\ page * size \in Nat
           /\ page * size = (page - 1) * size + size
           /\ page = 1 => (page - 1) * size = 0
           /\ (page + 1 - 1) * size = page * size
  OBVIOUS

\* Pages have a size.
LEMMA SizeShape == \A size \in PageSizes : size \in Nat \ {0}
  BY ListingAssumption

\* A browser begins: all is steady, nothing seen.
LEMMA BeginKeeps ==
    ASSUME ListingInv, NEW req \in Listings, NEW size \in PageSizes, BeginReading(req, size)
    PROVE  ListingInv'
  <1>0. PICK r : r = [phase |-> "asked", request |-> req, size |-> size, page |-> 1, count |-> 0,
                   seen |-> [i \in Ids |-> 0], steady |-> Rows(req),
                   left |-> FALSE, came |-> FALSE, late |-> FALSE]
    OBVIOUS
  <1>1. reading' = r /\ UNCHANGED <<table, writes>>
    BY <1>0 DEF BeginReading, Rows
  <1>2. moment' \in [Ids -> Nat]
    <2>1. CASE req.of = "events"
      BY <2>1, ListingAssumption DEF BeginReading
    <2>2. CASE req.of # "events"
      BY <2>2 DEF BeginReading, ListingInv
    <2> QED BY <2>1, <2>2
  <1>3. /\ r.phase = "asked" /\ r.request = req /\ r.size = size /\ r.page = 1 /\ r.count = 0
        /\ r.seen = [i \in Ids |-> 0] /\ r.steady = Rows(req)
        /\ r.left = FALSE /\ r.came = FALSE /\ r.late = FALSE
        /\ r = [k \in DOMAIN r |-> r[k]] /\ DOMAIN r = ReadingFields
    BY <1>0 DEF ReadingFields
  <1>4. ReadingShape(r)
    <2>1. r.seen \in [Ids -> Nat]
      BY <1>3
    <2>2. r.steady \subseteq Ids
      BY <1>3, RowsShape
    <2>3. r.page \in Nat \ {0} /\ r.count \in Nat /\ r.size \in PageSizes /\ r.request \in Listings
      BY <1>3
    <2>4. r.left \in BOOLEAN /\ r.came \in BOOLEAN /\ r.late \in BOOLEAN /\ ~r.late
      BY <1>3
    <2>5. r.phase \in {"asked", "counted", "refused", "done"}
      BY <1>3
    <2>6. r = [k \in DOMAIN r |-> r[k]] /\ DOMAIN r = ReadingFields
      BY <1>3
    <2> QED BY <2>1, <2>2, <2>3, <2>4, <2>5, <2>6, Zenon DEF ReadingShape
  <1>5. Rows(req)' = Rows(req)
    <2>1. CASE req.of = "events"
      <3>1. Rows(req) = Existing /\ Rows(req)' = Existing'
        BY <2>1, ListedShape, ListedShapeNext DEF Shaped
      <3> QED BY <1>1, <3>1 DEF Existing, Marked
    <2>2. CASE req.of # "events"
      <3>1. UNCHANGED <<table, moment>>
        BY <1>1, <2>2 DEF BeginReading
      <3>2. Listed(req)' = Listed(req)
        BY <3>1 DEF Listed, QueryList, QueryArchive, MyQueries, QueryFavorites, DashboardList, MyDashboards,
                    DashboardFavorites, UserList, EventList, OrderResults, FilterByTags, Filtered,
                    QueriesOf, QuerySearch, DashboardsOf, Marked, Existing, Unordered, ById, LatestFirst
      <3> QED BY <3>2 DEF Rows
    <2> QED BY <2>1, <2>2
  <1>6. Turned(r) = 0
    BY <1>3, SizeShape DEF Turned
  <1>7. \A i \in Ids : OnWay(r, req, i)'
    <2> SUFFICES ASSUME NEW i \in Ids PROVE OnWay(r, req, i)'
      OBVIOUS
    <2>1. r.seen[i] = 0
      BY <1>3
    <2> QED BY <1>6, <2>1, AheadShape DEF OnWay
  <1>8. UnderWay(r, req)'
    <2>1. \A i \in r.steady : i \in Ids
      BY <1>3, RowsShape
    <2> QED BY <1>3, <1>5, <1>7, <2>1 DEF UnderWay
  <1>9. PagesMissNothing'
    BY <1>1, <1>3 DEF PagesMissNothing
  <1>10. r.request = req
    BY <1>3
  <1>11. writes' \in 0..MaxWrites /\ table' \in [Ids -> (SUBSET Marks) \cup {Gone}]
    BY <1>1 DEF ListingInv
  <1>12. \A q \in Listings : r.request = q => UnderWay(r, q)'
    BY <1>8, <1>10, Zenon
  <1> QED BY <1>1, <1>2, <1>4, <1>9, <1>11, <1>12, Zenon DEF ListingInv

\* Writes while a list is read: the reader knows what they may have done.
LEMMA NoticeKeeps ==
    ASSUME ListingInv, reading # NoReading, Notice,
           table' \in [Ids -> (SUBSET Marks) \cup {Gone}], moment' \in [Ids -> Nat],
           reading.request.of # "events" => moment' = moment,
           reading.request.of = "events" =>
              Existing \subseteq Existing' /\ \A j \in Existing : moment'[j] = moment[j]
    PROVE  ListingInv'
  <1>1. PICK req : req = reading.request
    OBVIOUS
  <1>2. PICK o : o = reading
    OBVIOUS
  <1>3. /\ ReadingShape(o) /\ o.phase \in {"asked", "counted"} /\ req = o.request
        /\ req \in Listings /\ UnderWay(o, req)
    <2>1. ReadingShape(o) /\ o.phase \in {"asked", "counted"} /\ req = o.request
      BY <1>1, <1>2 DEF ListingInv, Notice
    <2>2. req \in Listings
      BY <2>1 DEF ReadingShape
    <2> QED BY <1>2, <2>1, <2>2 DEF ListingInv
  <1> DEFINE came == Rows(req)' \ Rows(req) # {}
             left == Rows(req) \ Rows(req)' # {}
  <1>4. PICK r : r = [o EXCEPT !.steady = @ \cap Rows(req)', !.left = @ \/ left,
                               !.came = @ \/ came, !.late = @ \/ (o.phase = "counted" /\ came)]
    OBVIOUS
  <1>5. reading' = r /\ writes' \in 0..MaxWrites
    <2>1. writes' \in 0..MaxWrites
      BY ListingAssumption DEF Notice, ListingInv
    <2>2. reading' = r
      BY <1>1, <1>2, <1>3, <1>4 DEF Notice, Rows
    <2> QED BY <2>1, <2>2
  <1>6. o = [k \in DOMAIN o |-> o[k]] /\ DOMAIN o = ReadingFields
    BY <1>3 DEF ReadingShape
  <1>7. /\ r.phase = o.phase /\ r.request = req /\ r.size = o.size /\ r.page = o.page /\ r.count = o.count
        /\ r.seen = o.seen /\ r.steady = o.steady \cap Rows(req)'
        /\ r.left = (o.left \/ left) /\ r.came = (o.came \/ came)
        /\ r.late = (o.late \/ (o.phase = "counted" /\ came))
        /\ DOMAIN r = ReadingFields
    BY <1>3, <1>4, <1>6 DEF ReadingFields
  <1>8. r = [k \in DOMAIN r |-> r[k]]
    BY <1>4
  <1>9. ReadingShape(r)
    BY <1>3, <1>7, <1>8 DEF ReadingShape
  <1>10. ~r.left => ~o.left /\ Rows(req) \subseteq Rows(req)'
    BY <1>3, <1>7 DEF ReadingShape
  <1>11. ~r.came => ~o.came /\ Rows(req)' \subseteq Rows(req)
    BY <1>3, <1>7 DEF ReadingShape
  <1>12. o.phase = "counted" /\ ~r.late => ~o.late /\ Rows(req)' \subseteq Rows(req)
    BY <1>3, <1>7 DEF ReadingShape
  <1> HIDE DEF came, left
  <1>13. Turned(r) = Turned(o)
    BY <1>7 DEF Turned
  <1>14. ASSUME ~r.left, NEW i \in r.steady, Placed(req, i)'
         PROVE  OnWay(r, req, i)'
    <2>1. i \in o.steady /\ i \in Rows(req) /\ i \in Rows(req)' /\ i \in Ids
      BY <1>3, <1>7, <1>14, RowsShape DEF UnderWay
    <2>2. IsOrdered(req)
      BY <1>14 DEF Placed, IsOrdered
    <2>3. Listed(req).order = OrderOf(req) /\ Listed(req)'.order = OrderOf(req)
      BY <1>3, <2>2, ListedShape, ListedShapeNext DEF Shaped
    <2>4. Placed(req, i)
      BY <1>1, <1>14, <2>1, <1>3, RowsShape DEF Placed
    <2>5. OnWay(o, req, i)
      BY <1>3, <1>10, <1>14, <2>1, <2>4 DEF UnderWay
    <2>6. \A j \in Rows(req) : Before(OrderOf(req), j, i) = Before(OrderOf(req), j, i)'
      BY <1>1, <1>3, <2>1, RowsShape DEF Before, OrderOf
    <2>7. AheadOf(req, i) \subseteq AheadOf(req, i)'
      BY <1>10, <1>14, <2>3, <2>6 DEF AheadOf
    <2>8. ~r.came => AheadOf(req, i)' = AheadOf(req, i)
      BY <1>11, <2>3, <2>6, <2>7 DEF AheadOf
    <2>9. Cardinality(AheadOf(req, i)) <= Cardinality(AheadOf(req, i)')
      BY <1>3, <2>7, AheadShape, FS_Subset
    <2>10. /\ Cardinality(AheadOf(req, i)) \in Nat /\ Cardinality(AheadOf(req, i)') \in Nat
           /\ o.seen[i] \in Nat /\ Turned(o) \in Nat
      BY <1>3, <2>1, AheadShape, PageArithmetic, SizeShape DEF ReadingShape, Turned
    <2>11. ~r.came => Cardinality(AheadOf(req, i)') = Cardinality(AheadOf(req, i))
      BY <2>8
    <2>12. r.seen[i] = o.seen[i]
      BY <1>7
    <2> QED BY <1>11, <1>13, <2>5, <2>9, <2>10, <2>11, <2>12 DEF OnWay
  <1>15. UnderWay(r, req)'
    <2>1. r.steady \subseteq Rows(req)'
      BY <1>7
    <2>2. r.page = 1 => \A i \in Ids : r.seen[i] = 0
      BY <1>3, <1>7 DEF UnderWay
    <2>3. r.phase = "counted" /\ ~r.left /\ ~r.late => Cardinality(Rows(req)') = r.count
      <3> SUFFICES ASSUME r.phase = "counted", ~r.left, ~r.late PROVE Cardinality(Rows(req)') = r.count
        OBVIOUS
      <3>1. Rows(req)' = Rows(req)
        BY <1>7, <1>10, <1>12
      <3> QED BY <1>3, <1>7, <1>10, <1>12, <3>1 DEF UnderWay
    <2> QED BY <1>14, <2>1, <2>2, <2>3 DEF UnderWay
  <1>16. r.phase # "done"
    BY <1>3, <1>7
  <1>17. PagesMissNothing'
    BY <1>5, <1>16 DEF PagesMissNothing
  <1>18. \A q \in Listings : r.request = q => UnderWay(r, q)'
    BY <1>7, <1>15, Zenon
  <1> QED BY <1>5, <1>9, <1>17, <1>18, Zenon DEF ListingInv

\* Each write is one the reader is told of.
LEMMA WritesKeep ==
    ASSUME ListingInv, NEW i \in Ids,
           \/ \E look \in Looks : AddRow(i, look)
           \/ \E look \in Looks \cup {Gone} : ChangeRow(i, look)
           \/ \E t \in Moments : RecordEvent(i, t)
           \/ Star(i) \/ Unstar(i)
    PROVE  ListingInv'
  <1> USE DEF ListingInv
  <1>1. ASSUME NEW look \in Looks, AddRow(i, look) PROVE ListingInv'
    <2>1. table' \in [Ids -> (SUBSET Marks) \cup {Gone}]
      BY <1>1, ListingAssumption DEF AddRow
    <2> QED BY <1>1, <2>1, NoticeKeeps DEF AddRow
  <1>2. ASSUME NEW look \in Looks \cup {Gone}, ChangeRow(i, look) PROVE ListingInv'
    <2>1. table' \in [Ids -> (SUBSET Marks) \cup {Gone}]
      BY <1>2, ListingAssumption DEF ChangeRow
    <2> QED BY <1>2, <2>1, NoticeKeeps DEF ChangeRow
  <1>3. ASSUME NEW t \in Moments, RecordEvent(i, t) PROVE ListingInv'
    <2>1. table' \in [Ids -> (SUBSET Marks) \cup {Gone}] /\ moment' \in [Ids -> Nat]
      BY <1>3, ListingAssumption DEF RecordEvent
    <2>2. i \notin Existing
      BY <1>3 DEF RecordEvent, Existing, Marked, Gone
    <2>3. Existing \subseteq Existing' /\ \A j \in Existing : moment'[j] = moment[j]
      BY <1>3, <2>2 DEF RecordEvent, Existing, Marked
    <2> QED BY <1>3, <2>1, <2>3, NoticeKeeps DEF RecordEvent
  <1>4. CASE Star(i)
    <2>1. table' \in [Ids -> (SUBSET Marks) \cup {Gone}]
      <3>1. table[i] \cup {"starred"} \in SUBSET Marks
        BY <1>4 DEF Star, MayBeStarred, Marks
      <3> QED BY <1>4, <3>1 DEF Star
    <2> QED BY <1>4, <2>1, NoticeKeeps DEF Star, MayBeStarred
  <1>5. CASE Unstar(i)
    <2>1. table' \in [Ids -> (SUBSET Marks) \cup {Gone}]
      <3>1. table[i] \ {"starred"} \in SUBSET Marks
        BY <1>5 DEF Unstar, MayBeStarred
      <3> QED BY <1>5, <3>1 DEF Unstar
    <2> QED BY <1>5, <2>1, NoticeKeeps DEF Unstar, MayBeStarred
  <1> QED BY <1>1, <1>2, <1>3, <1>4, <1>5

\* While nothing is written, the lists and their order stay.
LEMMA ListsStay ==
    ASSUME UNCHANGED <<table, moment>>
    PROVE  \A req : /\ Listed(req)' = Listed(req) /\ Rows(req)' = Rows(req)
                        /\ \A i : /\ AheadOf(req, i)' = AheadOf(req, i)
                                  /\ Placed(req, i)' = Placed(req, i)
  <1> SUFFICES ASSUME NEW req
               PROVE  /\ Listed(req)' = Listed(req) /\ Rows(req)' = Rows(req)
                      /\ \A i : /\ AheadOf(req, i)' = AheadOf(req, i)
                                /\ Placed(req, i)' = Placed(req, i)
    OBVIOUS
  <1>1. Existing' = Existing
    BY DEF Existing, Marked
  <1>2. Listed(req)' = Listed(req)
    BY DEF Listed, QueryList, QueryArchive, MyQueries, QueryFavorites, DashboardList, MyDashboards,
           DashboardFavorites, UserList, EventList, OrderResults, FilterByTags, Filtered,
           QueriesOf, QuerySearch, DashboardsOf, Marked, Existing, Unordered, ById, LatestFirst
  <1>3. Rows(req)' = Rows(req)
    BY <1>2 DEF Rows
  <1>4. \A i : AheadOf(req, i)' = AheadOf(req, i)
    BY <1>2, <1>3 DEF AheadOf, Before
  <1>5. \A i : Placed(req, i)' = Placed(req, i)
    BY <1>1 DEF Placed
  <1> QED BY <1>2, <1>3, <1>4, <1>5

\* The count is the number of rows at that moment.
LEMMA CountKeeps ==
    ASSUME ListingInv, Count
    PROVE  ListingInv'
  <1>1. PICK o : o = reading
    OBVIOUS
  <1>2. PICK req : req = o.request
    OBVIOUS
  <1>3. reading # NoReading /\ o.phase = "asked" /\ UNCHANGED <<table, moment, writes>>
    BY <1>1 DEF Count, NoReading
  <1>4. ReadingShape(o) /\ req \in Listings /\ UnderWay(o, req)
    BY <1>1, <1>2, <1>3 DEF ListingInv, ReadingShape
  <1>5. o = [k \in DOMAIN o |-> o[k]] /\ DOMAIN o = ReadingFields
    BY <1>4 DEF ReadingShape
  <1>6. PICK count : count = Cardinality(Rows(req))
    OBVIOUS
  <1>7. count \in Nat
    BY <1>4, <1>6, RowsShape, FS_CardinalityType
  <1>8. PICK phase \in {"refused", "counted"} : reading' = [o EXCEPT !.phase = phase, !.count = count, !.late = FALSE]
    BY <1>1, <1>2, <1>6 DEF Count, Rows
  <1>9. PICK r : r = [o EXCEPT !.phase = phase, !.count = count, !.late = FALSE]
    OBVIOUS
  <1>10. /\ r.phase = phase /\ r.request = req /\ r.size = o.size /\ r.page = o.page /\ r.count = count
         /\ r.seen = o.seen /\ r.steady = o.steady /\ r.left = o.left /\ r.came = o.came /\ r.late = FALSE
         /\ DOMAIN r = ReadingFields
    BY <1>2, <1>5, <1>9 DEF ReadingFields
  <1>11. r = [k \in DOMAIN r |-> r[k]]
    BY <1>9
  <1>12. ReadingShape(r)
    BY <1>4, <1>7, <1>10, <1>11 DEF ReadingShape
  <1>13. UnderWay(r, req)'
    <2>1. Rows(req)' = Rows(req) /\ \A i : Placed(req, i)' = Placed(req, i)
      BY <1>3, ListsStay
    <2>2. \A i : OnWay(o, req, i) => OnWay(r, req, i)'
      <3>1. \A i : AheadOf(req, i)' = AheadOf(req, i)
        BY <1>3, ListsStay
      <3> QED BY <1>10, <3>1 DEF OnWay, Turned
    <2> QED BY <1>4, <1>6, <1>10, <2>1, <2>2 DEF UnderWay
  <1>14. PagesMissNothing'
    BY <1>8, <1>9, <1>10 DEF PagesMissNothing
  <1>15. \A q \in Listings : r.request = q => UnderWay(r, q)'
    BY <1>10, <1>13, Zenon
  <1>16. reading' = r /\ UNCHANGED <<table, moment, writes>>
    BY <1>3, <1>8, <1>9
  <1>17. table' \in [Ids -> (SUBSET Marks) \cup {Gone}] /\ moment' \in [Ids -> Nat] /\ writes' \in 0..MaxWrites
    BY <1>16 DEF ListingInv
  <1> QED BY <1>12, <1>14, <1>15, <1>16, <1>17, Zenon DEF ListingInv

\* What a reader has after the page of these rows
Fetched(o, s) ==
    LET on == { n \in DOMAIN s : n > (o.page - 1) * o.size /\ n <= o.page * o.size }
        page == { s[n] : n \in on }
    IN  IF page = {} /\ o.page > 1 THEN [o EXCEPT !.phase = "refused"]
        ELSE [o EXCEPT
                !.seen = [i \in Ids |-> IF i \in page THEN @[i] + 1 ELSE @[i]],
                !.phase = IF o.page * o.size < o.count THEN "asked" ELSE "done",
                !.page = IF o.page * o.size < o.count THEN @ + 1 ELSE @]

\* A page that is fetched: what is on it has been seen once more.
LEMMA FetchKeeps ==
    ASSUME ListingInv, Fetch
    PROVE  ListingInv'
  <1>1. PICK o : o = reading
    OBVIOUS
  <1>2. PICK req : req = o.request
    OBVIOUS
  <1>3. reading # NoReading /\ o.phase = "counted" /\ UNCHANGED <<table, moment, writes>>
    BY <1>1 DEF Fetch, NoReading
  <1>4. ReadingShape(o) /\ req \in Listings /\ UnderWay(o, req)
    BY <1>1, <1>2, <1>3 DEF ListingInv, ReadingShape
  <1>5. o = [k \in DOMAIN o |-> o[k]] /\ DOMAIN o = ReadingFields
    BY <1>4 DEF ReadingShape
  <1> DEFINE before == (o.page - 1) * o.size
             upto == o.page * o.size
             N == Cardinality(Rows(req))
  <1>6. /\ o.page \in Nat \ {0} /\ o.size \in Nat \ {0} /\ o.count \in Nat
        /\ before \in Nat /\ upto \in Nat /\ before < upto /\ N \in Nat
        /\ o.page = 1 => before = 0
        /\ before = Turned(o)
    <2>1. o.page \in Nat \ {0} /\ o.size \in Nat \ {0} /\ o.count \in Nat
      BY <1>4, SizeShape DEF ReadingShape
    <2>2. before \in Nat /\ upto \in Nat /\ upto = before + o.size /\ (o.page = 1 => before = 0)
      BY <2>1, PageArithmetic
    <2>3. N \in Nat
      BY <1>4, RowsShape, FS_CardinalityType
    <2> HIDE DEF before, upto, N
    <2>4. before < upto
      BY <2>1, <2>2
    <2>5. before = Turned(o)
      BY DEF Turned, before
    <2> QED BY <2>1, <2>2, <2>3, <2>4, <2>5
  <1>7. PICK s \in Arrangements(Listed(req)) :
           LET on == { n \in DOMAIN s : n > before /\ n <= upto }
               page == { s[n] : n \in on }
           IN  reading' =
                 IF page = {} /\ o.page > 1 THEN [o EXCEPT !.phase = "refused"]
                 ELSE [o EXCEPT
                         !.seen = [i \in Ids |-> IF i \in page THEN @[i] + 1 ELSE @[i]],
                         !.phase = IF upto < o.count THEN "asked" ELSE "done",
                         !.page = IF upto < o.count THEN @ + 1 ELSE @]
    <2>1. \E s \in Arrangements(Listed(reading.request)) : reading' = Fetched(reading, s)
      BY Zenon DEF Fetch, Fetched
    <2>2. PICK s \in Arrangements(Listed(req)) : reading' = Fetched(o, s)
      BY <1>1, <1>2, <2>1
    <2> QED BY <2>2, Zenon DEF Fetched
  <1> HIDE DEF before, upto, N
  <1>8. PICK page : page = { s[n] : n \in { m \in DOMAIN s : m > before /\ m <= upto } }
    OBVIOUS
  <1>9. s \in [1..N -> Rows(req)]
    BY DEF Arrangements, N, Rows
  <1>rest. /\ writes' \in 0..MaxWrites /\ table' \in [Ids -> (SUBSET Marks) \cup {Gone}]
           /\ moment' \in [Ids -> Nat]
    BY <1>3 DEF ListingInv
  <1>10. CASE page = {} /\ o.page > 1
    <2>1. PICK r : r = [o EXCEPT !.phase = "refused"]
      OBVIOUS
    <2>2. reading' = r
      BY <1>7, <1>8, <1>10, <2>1
    <2>3. /\ r.phase = "refused" /\ r.request = req /\ r.size = o.size /\ r.page = o.page /\ r.count = o.count
          /\ r.seen = o.seen /\ r.steady = o.steady /\ r.left = o.left /\ r.came = o.came /\ r.late = o.late
          /\ DOMAIN r = ReadingFields /\ r = [k \in DOMAIN r |-> r[k]]
      BY <1>2, <1>5, <2>1 DEF ReadingFields
    <2>4. ReadingShape(r)
      BY <1>4, <2>3 DEF ReadingShape
    <2> QED BY <1>rest, <2>2, <2>3, <2>4 DEF ListingInv, PagesMissNothing
  <1>11. CASE ~(page = {} /\ o.page > 1)
    <2>1. PICK r : r = [o EXCEPT
                         !.seen = [i \in Ids |-> IF i \in page THEN @[i] + 1 ELSE @[i]],
                         !.phase = IF upto < o.count THEN "asked" ELSE "done",
                         !.page = IF upto < o.count THEN @ + 1 ELSE @]
      OBVIOUS
    <2>2. reading' = r
      BY <1>7, <1>8, <1>11, <2>1
    <2>3. /\ r.phase = (IF upto < o.count THEN "asked" ELSE "done")
          /\ r.request = req /\ r.size = o.size
          /\ r.page = (IF upto < o.count THEN o.page + 1 ELSE o.page)
          /\ r.count = o.count
          /\ r.seen = [i \in Ids |-> IF i \in page THEN o.seen[i] + 1 ELSE o.seen[i]]
          /\ r.steady = o.steady /\ r.left = o.left /\ r.came = o.came /\ r.late = o.late
          /\ DOMAIN r = ReadingFields /\ r = [k \in DOMAIN r |-> r[k]]
      BY <1>2, <1>5, <2>1 DEF ReadingFields
    <2>4. ReadingShape(r)
      <3>1. r.seen \in [Ids -> Nat]
        BY <1>4, <2>3 DEF ReadingShape
      <3>2. r.page \in Nat \ {0} /\ r.phase \in {"asked", "counted", "refused", "done"}
        BY <1>6, <2>3
      <3> QED BY <1>4, <2>3, <3>1, <3>2 DEF ReadingShape
    <2>5. \A i \in Ids : /\ o.seen[i] \in Nat
                         /\ r.seen[i] = IF i \in page THEN o.seen[i] + 1 ELSE o.seen[i]
      BY <1>4, <2>3 DEF ReadingShape
    <2>6. ~o.left /\ ~o.late => N = o.count
      BY <1>3, <1>4 DEF UnderWay, N
    \* A row whose place is determined: it is on this page, on one before or on one to come
    <2>7. ASSUME ~o.left, NEW i \in o.steady, Placed(req, i)
          PROVE  \E n \in 1..N : /\ n = Cardinality(AheadOf(req, i)) + 1
                                 /\ i \in page <=> before < n /\ n <= upto
      <3>1. i \in Rows(req) /\ i \in Existing /\ Rows(req) \subseteq Existing
            /\ Rows(req) \subseteq Ids /\ IsFiniteSet(Rows(req))
        BY <1>4, <2>7, RowsShape DEF UnderWay
      <3>2. IsOrdered(req) /\ IsList(Listed(req)) /\ Listed(req).order = OrderOf(req)
        BY <1>4, <2>7, ListedShape DEF Placed, IsOrdered, Shaped
      <3>3. Listed(req) = [rows |-> Rows(req), order |-> OrderOf(req)]
        BY <3>2 DEF IsList, Rows
      <3>4. \A j \in Rows(req) \ {i} : ~(Before(OrderOf(req), i, j) /\ Before(OrderOf(req), j, i))
        <4>1. CASE req.of = "events"
          <5>1. \A j \in Rows(req) \ {i} : moment[j] # moment[i] /\ moment[j] \in Nat /\ moment[i] \in Nat
            BY <2>7, <3>1, <4>1 DEF Placed, ListingInv
          <5> QED BY <4>1, <5>1 DEF OrderOf, Before
        <4>2. CASE req.of # "events"
          <5>1. \A j \in Rows(req) \ {i} : i \in Nat /\ j \in Nat
            BY <3>1, ListingAssumption
          <5> QED BY <4>2, <5>1 DEF OrderOf, Before
        <4> QED BY <4>1, <4>2
      <3>5. AheadOf(req, i) = { j \in Rows(req) \ {i} : Before(OrderOf(req), j, i) }
        BY <3>2 DEF AheadOf
      <3>6. PICK n \in 1..N : s[n] = i /\ n = Cardinality(AheadOf(req, i)) + 1
        <4>1. s \in Arrangements([rows |-> Rows(req), order |-> OrderOf(req)])
          BY <1>7, <3>3
        <4>2. PICK ahead : ahead = AheadOf(req, i)
          OBVIOUS
        <4>3. \A j : j \in ahead <=> j \in Rows(req) \ {i} /\ Before(OrderOf(req), j, i)
          BY <3>5, <4>2
        <4>4. \E n \in 1..Cardinality(Rows(req)) : s[n] = i /\ n = Cardinality(ahead) + 1
          BY <3>1, <3>4, <4>1, <4>3, Position
        <4> QED BY <4>2, <4>4 DEF N
      <3>7. \A m \in 1..N : s[m] = i => m = n
        <4>1. \A k, m \in 1..N : k < m => s[k] # s[m]
          BY <1>9, <3>3 DEF Arrangements
        <4> QED BY <1>6, <3>6, <4>1
      <3>8. i \in page <=> before < n /\ n <= upto
        BY <1>6, <1>8, <1>9, <3>6, <3>7
      <3> QED BY <3>6, <3>8
    <2>8. CASE upto < o.count
      <3>1. Turned(r) = upto
        BY <1>6, <2>3, <2>8, PageArithmetic DEF Turned, upto
      <3>2. ASSUME ~r.left, NEW i \in r.steady, Placed(req, i)
            PROVE  OnWay(r, req, i)
        <4>1. i \in o.steady /\ ~o.left /\ i \in Ids
          BY <1>4, <2>3, <3>2 DEF ReadingShape
        <4>2. PICK n \in 1..N : /\ n = Cardinality(AheadOf(req, i)) + 1
                                /\ i \in page <=> before < n /\ n <= upto
          BY <2>7, <3>2, <4>1
        <4>3. OnWay(o, req, i)
          BY <1>4, <3>2, <4>1 DEF UnderWay
        <4>4. Cardinality(AheadOf(req, i)) \in Nat
          BY <1>4, AheadShape
        <4> QED BY <1>6, <2>3, <2>5, <3>1, <4>1, <4>2, <4>3, <4>4 DEF OnWay
      <3>3. UnderWay(r, req)
        <4>1. r.page # 1 /\ r.phase = "asked"
          BY <1>6, <2>3, <2>8
        <4> QED BY <1>4, <2>3, <3>2, <4>1 DEF UnderWay
      <3>4. UnderWay(r, req)'
        <4>1. Rows(req)' = Rows(req) /\ \A i : Placed(req, i)' = Placed(req, i)
          BY <1>3, ListsStay
        <4>2. \A i : OnWay(r, req, i) => OnWay(r, req, i)'
          <5>1. \A i : AheadOf(req, i)' = AheadOf(req, i)
            BY <1>3, ListsStay
          <5> QED BY <5>1 DEF OnWay, Turned
        <4> QED BY <3>3, <4>1, <4>2 DEF UnderWay
      <3>5. \A q \in Listings : r.request = q => UnderWay(r, q)'
        BY <2>3, <3>4, Zenon
      <3>6. PagesMissNothing'
        BY <2>2, <2>3, <2>8 DEF PagesMissNothing
      <3> QED BY <1>rest, <2>2, <2>4, <3>5, <3>6, Zenon DEF ListingInv
    <2>9. CASE ~(upto < o.count)
      <3>1. r.phase = "done" /\ r.page = o.page
        BY <2>3, <2>9
      <3>2. ASSUME NEW i \in r.steady, r.page = 1 \/ Placed(req, i), ~r.left, ~r.late
            PROVE  r.seen[i] >= 1 /\ (~r.came => r.seen[i] = 1)
        <4>1. i \in o.steady /\ ~o.left /\ ~o.late /\ i \in Ids
          BY <1>4, <2>3, <3>2 DEF ReadingShape
        <4>2. N <= upto
          BY <1>6, <2>6, <2>9, <4>1
        <4>3. CASE r.page = 1
          <5>1. o.seen[i] = 0 /\ before = 0
            BY <1>4, <1>6, <3>1, <4>1, <4>3 DEF UnderWay
          <5>2. i \in Rows(req) /\ IsFiniteSet(Rows(req))
            BY <1>4, <4>1, RowsShape DEF UnderWay
          <5>3. PICK n \in 1..N : s[n] = i
            <6>1. \A k, m \in 1..N : k < m => s[k] # s[m]
              BY <1>9 DEF Arrangements
            <6>2. s \in Injection(1..N, Rows(req))
              <7>1. \A k, m \in 1..N : s[k] = s[m] => k = m
                BY <1>6, <6>1
              <7> QED BY <1>9, <7>1, Fun_IsInj
            <6>3. s \in Surjection(1..N, Rows(req))
              <7>1. N \in Nat
                BY <1>6
              <7>2. Cardinality(1..N) = N
                BY <7>1, CountUpTo
              <7> QED BY <5>2, <6>2, <7>2, FS_Injection DEF N
            <6> QED BY <5>2, <6>3 DEF Surjection
          <5>4. i \in page
            BY <1>6, <1>8, <1>9, <4>2, <5>1, <5>3
          <5> QED BY <2>5, <4>1, <5>1, <5>4
        <4>4. CASE Placed(req, i)
          <5>1. PICK n \in 1..N : /\ n = Cardinality(AheadOf(req, i)) + 1
                                  /\ i \in page <=> before < n /\ n <= upto
            BY <2>7, <4>1, <4>4
          <5>2. OnWay(o, req, i)
            BY <1>4, <4>1, <4>4 DEF UnderWay
          <5>3. Cardinality(AheadOf(req, i)) \in Nat
            BY <1>4, AheadShape
          <5> QED BY <1>6, <2>3, <2>5, <4>1, <4>2, <5>1, <5>2, <5>3 DEF OnWay
        <4> QED BY <3>2, <4>3, <4>4
      <3>3. \A i : Placed(req, i)' = Placed(req, i)
        BY <1>3, ListsStay
      <3>4. PagesMissNothing'
        <4> SUFFICES ASSUME NEW i \in r.steady, r.page = 1 \/ Placed(req, i)'
                     PROVE  /\ ~r.left /\ ~r.late => r.seen[i] >= 1
                            /\ ~r.left /\ ~r.came => r.seen[i] = 1
          BY <2>2, <2>3 DEF PagesMissNothing
        <4>1. ~r.came => ~r.late
          BY <2>4 DEF ReadingShape
        <4> QED BY <3>2, <3>3, <4>1
      <3> QED BY <1>rest, <2>2, <2>4, <3>1, <3>4 DEF ListingInv
    <2> QED BY <2>8, <2>9
  <1> QED BY <1>10, <1>11

\* Every step keeps the invariant.
LEMMA ListingInvNext == ListingInv /\ [ListingNext]_listingVars => ListingInv'
  <1> SUFFICES ASSUME ListingInv, [ListingNext]_listingVars PROVE ListingInv'
    OBVIOUS
  <1>1. ASSUME NEW i \in Ids,
               \/ \E look \in Looks : AddRow(i, look)
               \/ \E look \in Looks \cup {Gone} : ChangeRow(i, look)
               \/ \E t \in Moments : RecordEvent(i, t)
               \/ Star(i) \/ Unstar(i)
        PROVE  ListingInv'
    BY <1>1, WritesKeep
  <1>2. ASSUME NEW req \in Listings, NEW size \in PageSizes, BeginReading(req, size)
        PROVE  ListingInv'
    BY <1>2, BeginKeeps
  <1>3. CASE Count
    BY <1>3, CountKeeps
  <1>4. CASE Fetch
    BY <1>4, FetchKeeps
  <1>5. CASE UNCHANGED listingVars
    <2>1. UNCHANGED <<table, moment>> /\ reading' = reading /\ writes' = writes
      BY <1>5 DEF listingVars
    <2>2. PICK r : r = reading
      OBVIOUS
    <2>3. \A req : UnderWay(r, req) => UnderWay(r, req)'
      <3> SUFFICES ASSUME NEW req, UnderWay(r, req) PROVE UnderWay(r, req)'
        OBVIOUS
      <3>1. Rows(req)' = Rows(req) /\ \A i : Placed(req, i)' = Placed(req, i)
        BY <2>1, ListsStay
      <3>2. \A i : OnWay(r, req, i) => OnWay(r, req, i)'
        <4>1. \A i : AheadOf(req, i)' = AheadOf(req, i)
          BY <2>1, ListsStay
        <4> QED BY <4>1 DEF OnWay, Turned
      <3> QED BY <3>1, <3>2 DEF UnderWay
    <2>4. PagesMissNothing'
      <3>1. \A req, i : Placed(req, i)' = Placed(req, i)
        BY <2>1, ListsStay
      <3> QED BY <2>1, <3>1 DEF ListingInv, PagesMissNothing
    <2> QED BY <2>1, <2>2, <2>3, <2>4 DEF ListingInv
  <1> QED BY <1>1, <1>2, <1>3, <1>4, <1>5 DEF ListingNext

\* The invariant holds in every state.
LEMMA ListingInvariant == ListingSpec => []ListingInv
  <1> QED BY ListingInvInit, ListingInvNext, PTL DEF ListingSpec

\* Lists and what a reader has of them keep their types, for any table, requests and sizes of pages.
THEOREM ListingTypeCorrect == ListingSpec => []ListingTypeOK
  <1>1. ListingInv => ListingTypeOK
    BY DEF ListingInv, ListingTypeOK, ReadingShape, NoReading
  <1> QED BY <1>1, ListingInvariant, PTL

(***************************************************************************)
(* A reader who turned all pages has seen every row that was listed all    *)
(* the while and whose place the order determines, and once if no row came *)
(* in: for lists of any length, pages of any size and any writes between   *)
(* the count of a page and its rows (paginate, handlers/base.py).          *)
(***************************************************************************)
THEOREM PagesAreComplete == ListingSpec => []PagesMissNothing
  <1>1. ListingInv => PagesMissNothing
    BY DEF ListingInv
  <1> QED BY <1>1, ListingInvariant, PTL

-----------------------------------------------------------------------------
(* The components side by side *)

WorkspaceInv == part \in Parts /\ IInv /\ SessionInv /\ ArchivingInv /\ ListingInv

\* A component that moves keeps its invariant, and the others keep theirs.
LEMMA WorkspaceInvStep == WorkspaceInv /\ [WorkspaceNext]_workspaceVars => WorkspaceInv'
<1> SUFFICES ASSUME WorkspaceInv, [WorkspaceNext]_workspaceVars PROVE WorkspaceInv'
  OBVIOUS
<1>1. /\ UNCHANGED part
      /\ [Next]_vars /\ [SessionNext]_sessionVars /\ [ArchivingNext]_archivingVars /\ [ListingNext]_listingVars
  BY DEF WorkspaceNext, workspaceVars
<1> QED
  BY <1>1, NextIInv, SessionInvNext, ArchivingStep, ListingInvNext DEF WorkspaceInv

\* What users do in their browsers keeps its types, each component next to the others.
THEOREM WorkspaceTypeCorrect == WorkspaceSpec => []WorkspaceTypeOK
<1>1. WorkspaceInit => WorkspaceInv
  BY InitIInv, SessionInvInit, ArchivingInitInv, ListingInvInit DEF WorkspaceInit, WorkspaceInv
<1>2. SessionInv => SessionTypeOK
  BY TypesThen
<1>3. ListingInv => ListingTypeOK
  BY DEF ListingInv, ListingTypeOK, ReadingShape, NoReading
<1>4. IInv => TypeOK
  BY DEF IInv
<1>5. ArchivingInv => ArchivingTypeOK
  BY DEF ArchivingInv
<1>6. WorkspaceInv => WorkspaceTypeOK
  BY <1>2, <1>3, <1>4, <1>5 DEF WorkspaceInv, WorkspaceTypeOK
<1> QED
  BY <1>1, <1>6, WorkspaceInvStep, PTL DEF WorkspaceSpec
=============================================================================
