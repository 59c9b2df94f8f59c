--------------------------- MODULE DashboardProofs ---------------------------
(***************************************************************************)
(* Proofs about Dashboard, for any number of logins, accounts, clicks and   *)
(* documents.                                                               *)
(***************************************************************************)
EXTENDS Dashboard, FiniteSetTheorems, TLAPS

-----------------------------------------------------------------------------
(* The inductive invariant *)

ListType  == [data : Data \cup {None}, invalid : BOOLEAN, failed : BOOLEAN]
FetchType == [token : Tokens \cup {None}, answer : {None, "ok", "unauthorized"},
              data : Data \cup {None}]
Buttons   == {"create", "activate", "delete", "upload", "erase", "connect", "dryRun"}
CallType  == [n : Nat, page : Pages, op : Buttons, token : Tokens, answer : Answers,
              from : {"page", "left", "gone"}]

\* The calls that tenant-api may still serve, by their numbers.
Open == {c.n : c \in {k \in calls : k.answer = None}}

\* No version is ahead of what was sent and is not waiting any more.
CallsInv ==
    /\ calls \subseteq CallType
    /\ \A c \in calls : c.n \in 1..made /\ c.op \in Ops[c.page]
    /\ \A c, d \in calls : c.n = d.n => c = d
    /\ \A a \in Accounts, p \in Pages : version[a][p] + Cardinality(Open) <= made

\* Whoever asks, and whatever has been answered or is cached, is of a session since
\* the tab was loaded.
SeenInv ==
    /\ token # None => Account(token) \in seen
    /\ \A p \in Pages :
          /\ list[p].data # None => list[p].data.owner \in seen
          /\ fetch[p] # None /\ fetch[p].token # None => Account(fetch[p].token) \in seen
          /\ fetch[p] # None /\ fetch[p].answer = "ok" =>
                fetch[p].data \in Data /\ fetch[p].data.owner \in seen

\* An answer under way is as new as the change the user was told of.
WritesInv ==
    \A p \in Pages : told[p] # None =>
        /\ told[p].version <= version[told[p].owner][p]
        /\ fetch[p] # None /\ fetch[p].answer = "ok" /\ fetch[p].data.owner = told[p].owner
           => fetch[p].data.version >= told[p].version

IInv == TypeOK /\ CallsInv /\ SeenInv /\ WritesInv /\ ReadYourWrites

-----------------------------------------------------------------------------
(* Calls *)

LEMMA OpenFinite ==
    ASSUME TypeOK, CallsInv
    PROVE  Open \subseteq 1..made /\ IsFiniteSet(Open) /\ Cardinality(Open) \in Nat
  <1>1. Open \subseteq 1..made
    BY DEF Open, CallsInv
  <1>2. IsFiniteSet(1..made)
    <2>1. 1 \in Int /\ made \in Int
      BY DEF TypeOK
    <2> QED
      BY <2>1, FS_Interval
  <1>3. IsFiniteSet(Open)
    BY <1>1, <1>2, FS_Subset
  <1> QED
    BY <1>1, <1>3, FS_CardinalityType

\* Calls are answered, dropped or relabelled, and none is served.
LEMMA CallsFewer ==
    ASSUME TypeOK, CallsInv, UNCHANGED <<version, made>>, Open' \subseteq Open,
           calls' \subseteq CallType, \A d \in calls' : d.n \in 1..made /\ d.op \in Ops[d.page],
           \A d, e \in calls' : d.n = e.n => d = e
    PROVE  CallsInv'
  <1>1. Cardinality(Open') <= Cardinality(Open) /\ Cardinality(Open') \in Nat
    BY OpenFinite, FS_Subset, FS_CardinalityType
  <1>2. \A a \in Accounts, p \in Pages : version[a][p] + Cardinality(Open') <= made
    <2>1. ASSUME NEW a \in Accounts, NEW p \in Pages
          PROVE  version[a][p] \in Nat /\ made \in Nat
      BY DEF TypeOK
    <2> QED
      BY <1>1, <2>1, OpenFinite DEF CallsInv
  <1> QED
    BY <1>2 DEF CallsInv

LEMMA CallsSame ==
    ASSUME CallsInv, UNCHANGED <<calls, version, made>>
    PROVE  CallsInv'
  BY DEF CallsInv, Open

LEMMA CallsLeft ==
    ASSUME TypeOK, CallsInv, calls' = Left, UNCHANGED <<version, made>>
    PROVE  CallsInv'
  <1>1. ASSUME NEW d \in calls'
        PROVE  \E c \in calls : d = IF c.from = "page" THEN [c EXCEPT !.from = "left"] ELSE c
    BY DEF Left
  <1>2. ASSUME NEW c \in calls, NEW d,
               d = IF c.from = "page" THEN [c EXCEPT !.from = "left"] ELSE c
        PROVE  /\ d \in CallType /\ d.n = c.n /\ d.page = c.page /\ d.op = c.op
               /\ d.answer = c.answer
    BY <1>2 DEF CallsInv, CallType
  <1>3. Open' \subseteq Open
    BY <1>1, <1>2 DEF Open
  <1>4. \A d \in calls' : d \in CallType /\ d.n \in 1..made /\ d.op \in Ops[d.page]
    BY <1>1, <1>2 DEF CallsInv
  <1>5. ASSUME NEW d \in calls', NEW e \in calls', d.n = e.n
        PROVE  d = e
    <2>1. PICK c \in calls : d = IF c.from = "page" THEN [c EXCEPT !.from = "left"] ELSE c
      BY <1>1
    <2>2. PICK b \in calls : e = IF b.from = "page" THEN [b EXCEPT !.from = "left"] ELSE b
      BY <1>1
    <2>3. c = b
      BY <1>2, <1>5, <2>1, <2>2 DEF CallsInv
    <2> QED
      BY <2>1, <2>2, <2>3
  <1> QED
    BY <1>3, <1>4, <1>5, CallsFewer

LEMMA CallsReloaded ==
    ASSUME TypeOK, CallsInv, NEW k, Reload(k), UNCHANGED <<version, made>>
    PROVE  CallsInv'
  <1>1. ASSUME NEW d \in calls'
        PROVE  \E c \in calls : c.answer = None /\ d = [c EXCEPT !.from = "gone"]
    BY DEF Reload
  <1>2. ASSUME NEW c \in calls, NEW d, d = [c EXCEPT !.from = "gone"]
        PROVE  /\ d \in CallType /\ d.n = c.n /\ d.page = c.page /\ d.op = c.op
               /\ d.answer = c.answer
    BY <1>2 DEF CallsInv, CallType
  <1>3. Open' \subseteq Open
    BY <1>1, <1>2 DEF Open
  <1>4. \A d \in calls' : d \in CallType /\ d.n \in 1..made /\ d.op \in Ops[d.page]
    BY <1>1, <1>2 DEF CallsInv
  <1>5. ASSUME NEW d \in calls', NEW e \in calls', d.n = e.n
        PROVE  d = e
    <2>1. PICK c \in calls : d = [c EXCEPT !.from = "gone"]
      BY <1>1
    <2>2. PICK b \in calls : e = [b EXCEPT !.from = "gone"]
      BY <1>1
    <2>3. c = b
      BY <1>2, <1>5, <2>1, <2>2 DEF CallsInv
    <2> QED
      BY <2>1, <2>2, <2>3
  <1> QED
    BY <1>3, <1>4, <1>5, CallsFewer

\* A click takes the next number.
LEMMA CallsSent ==
    ASSUME TypeOK, CallsInv, NEW page \in Pages, NEW op \in Ops[page], op \in Buttons,
           token \in Tokens, made' = made + 1, UNCHANGED version,
           calls' = calls \cup {[n |-> made + 1, page |-> page, op |-> op,
                                token |-> token, answer |-> None, from |-> "page"]}
    PROVE  CallsInv'
  <1> DEFINE new == [n |-> made + 1, page |-> page, op |-> op,
                     token |-> token, answer |-> None, from |-> "page"]
  <1>0. made \in Nat
    BY DEF TypeOK
  <1>1. /\ new \in CallType /\ new.n = made + 1 /\ new.page = page /\ new.op = op
        /\ new.answer = None
    BY <1>0 DEF CallType, Answers
  <1>2. calls' = calls \cup {new}
    OBVIOUS
  <1> HIDE DEF new
  <1>3. Open' = Open \cup {made + 1}
    BY <1>1, <1>2 DEF Open
  <1>4. Cardinality(Open') <= Cardinality(Open) + 1 /\ Cardinality(Open') \in Nat
    <2>1. made + 1 \notin Open
      BY <1>0, OpenFinite
    <2>2. Cardinality(Open \cup {made + 1}) = Cardinality(Open) + 1
      BY <2>1, OpenFinite, FS_AddElement
    <2> QED
      BY <1>3, <2>2, OpenFinite
  <1>5. \A a \in Accounts, p \in Pages : version'[a][p] + Cardinality(Open') <= made'
    <2>1. ASSUME NEW a \in Accounts, NEW p \in Pages
          PROVE  version[a][p] \in Nat
      BY DEF TypeOK
    <2> QED
      BY <1>0, <1>2, <1>4, <2>1, OpenFinite DEF CallsInv
  <1>6. \A c \in calls' : c \in CallType /\ c.n \in 1..made' /\ c.op \in Ops[c.page]
    BY <1>0, <1>1, <1>2 DEF CallsInv
  <1>7. \A c, d \in calls' : c.n = d.n => c = d
    BY <1>0, <1>1, <1>2 DEF CallsInv
  <1> QED
    BY <1>5, <1>6, <1>7 DEF CallsInv

\* Serving a call takes its number off the open ones.
LEMMA CallsAnswered ==
    ASSUME TypeOK, CallsInv, NEW c \in calls, c.answer = None,
           NEW answer \in {"ok", "noContent", "refused", "unauthorized"}, Answered(c, answer)
    PROVE  /\ calls' \subseteq CallType
           /\ \A d \in calls' : d.n \in 1..made /\ d.op \in Ops[d.page]
           /\ \A d, e \in calls' : d.n = e.n => d = e
           /\ Open' = Open \ {c.n} /\ c.n \in Open
           /\ Cardinality(Open') = Cardinality(Open) - 1 /\ Cardinality(Open') \in Nat
  <1>0. answer # None /\ answer \in Answers
    BY DashboardAssumption DEF Answers
  <1> DEFINE new == [c EXCEPT !.answer = answer]
  <1>1. /\ new \in CallType /\ new.n = c.n /\ new.page = c.page /\ new.op = c.op
        /\ new.answer = answer
    <2>1. c \in CallType
      BY DEF CallsInv
    <2> QED
      BY <1>0, <2>1 DEF CallType
  <1>2. calls' \subseteq (calls \ {c}) \cup {new} /\ calls \ {c} \subseteq calls'
    BY DEF Answered
  <1> HIDE DEF new
  <1>3. \A d \in calls' : d \in CallType /\ d.n \in 1..made /\ d.op \in Ops[d.page]
    BY <1>1, <1>2 DEF CallsInv
  <1>4. \A d, e \in calls' : d.n = e.n => d = e
    BY <1>1, <1>2 DEF CallsInv
  <1>5. Open' = Open \ {c.n}
    <2>1. ASSUME NEW n \in Open'
          PROVE  n \in Open \ {c.n}
      <3>1. PICK d \in calls' : d.answer = None /\ d.n = n
        BY DEF Open
      <3>2. d \in calls \ {c}
        BY <1>0, <1>1, <1>2, <3>1
      <3> QED
        BY <3>1, <3>2 DEF Open, CallsInv
    <2>2. ASSUME NEW n \in Open, n # c.n
          PROVE  n \in Open'
      <3>1. PICK d \in calls : d.answer = None /\ d.n = n
        BY DEF Open
      <3>2. d \in calls'
        BY <1>2, <2>2, <3>1
      <3> QED
        BY <3>1, <3>2 DEF Open
    <2> QED
      BY <2>1, <2>2
  <1>6. c.n \in Open
    BY DEF Open
  <1>7. Cardinality(Open') = Cardinality(Open) - 1 /\ Cardinality(Open') \in Nat
    BY <1>5, <1>6, OpenFinite, FS_RemoveElement, FS_CardinalityType
  <1> QED
    BY <1>3, <1>4, <1>5, <1>6, <1>7

\* A new version of one list.
LEMMA VersionUp ==
    ASSUME TypeOK, CallsInv, NEW c \in calls, version' = NewVersion(c)
    PROVE  /\ version' \in [Accounts -> [Pages -> Nat]]
           /\ \A a \in Accounts, p \in Pages :
                 version[a][p] <= version'[a][p] /\ version'[a][p] <= version[a][p] + 1
  <1>1. c.token \in Tokens /\ c.page \in Pages
    BY DEF CallsInv, CallType
  <1>2. PICK b \in Accounts, q \in Pages : b = Account(c.token) /\ q = c.page
    BY <1>1 DEF Accounts
  <1>3. version' = [version EXCEPT ![b][q] = @ + 1]
    BY <1>2 DEF NewVersion
  <1>4. version \in [Accounts -> [Pages -> Nat]]
    BY DEF TypeOK
  <1> QED
    BY <1>3, <1>4

LEMMA CallsServed ==
    ASSUME TypeOK, CallsInv, NEW c \in calls, ServeCall(c)
    PROVE  /\ CallsInv'
           /\ version' \in [Accounts -> [Pages -> Nat]]
           /\ \A a \in Accounts, p \in Pages : version[a][p] <= version'[a][p]
  <1>1. c.answer = None /\ made' = made
    BY DEF ServeCall
  <1>2. PICK answer \in {"ok", "noContent", "refused", "unauthorized"} : Answered(c, answer)
    BY DEF ServeCall
  <1>3. /\ version' \in [Accounts -> [Pages -> Nat]]
        /\ \A a \in Accounts, p \in Pages :
              version[a][p] <= version'[a][p] /\ version'[a][p] <= version[a][p] + 1
    <2>1. CASE UNCHANGED version
      BY <2>1 DEF TypeOK
    <2>2. CASE version' = NewVersion(c)
      BY <2>2, VersionUp
    <2> QED
      BY <2>1, <2>2 DEF ServeCall
  <1>4. \A a \in Accounts, p \in Pages : version'[a][p] + Cardinality(Open') <= made
    <2>1. ASSUME NEW a \in Accounts, NEW p \in Pages
          PROVE  version'[a][p] + Cardinality(Open') <= made
      <3>1. version[a][p] \in Nat /\ version'[a][p] \in Nat /\ made \in Nat
        BY <1>3 DEF TypeOK
      <3>2. version[a][p] + Cardinality(Open) <= made
        BY DEF CallsInv
      <3>3. Cardinality(Open') = Cardinality(Open) - 1 /\ Cardinality(Open) \in Nat
        BY <1>1, <1>2, CallsAnswered, OpenFinite
      <3> QED
        BY <1>3, <3>1, <3>2, <3>3
    <2> QED
      BY <2>1
  <1> QED
    BY <1>1, <1>2, <1>3, <1>4, CallsAnswered DEF CallsInv

LEMMA CallsRemoved ==
    ASSUME TypeOK, CallsInv, NEW c \in calls, calls' = calls \ {c}, UNCHANGED <<version, made>>
    PROVE  CallsInv'
  <1>1. Open' \subseteq Open
    BY DEF Open
  <1> QED
    BY <1>1, CallsFewer DEF CallsInv

\* A page is open only with a token.
LEMMA OpenPage ==
    ASSUME TypeOK, NEW page \in {"flows", "kb", "settings"}, route = page
    PROVE  page \in Pages /\ page \in tour /\ token \in Tokens
  <1>1. page \in tour
    BY DEF TypeOK
  <1>2. page \in Pages
    BY <1>1 DEF TypeOK, Pages
  <1>3. token \in 1..issued /\ issued \in 0..MaxLogins
    BY DEF TypeOK
  <1> QED
    BY <1>1, <1>2, <1>3, DashboardAssumption DEF Tokens

LEMMA CallsStep ==
    ASSUME TypeOK, CallsInv, [Next]_vars
    PROVE  CallsInv'
  <1>1. ASSUME \/ \E p \in Pages : Focus(p) \/ ServeFetch(p) \/ FetchFails(p)
               \/ Poll \/ Login
               \/ \E t \in Tokens : Lapse(t)
               \/ \E opens \in BOOLEAN : Dialog(opens)
               \/ \E a \in Accounts, d \in Docs : Indexer(a, d)
               \/ UNCHANGED vars
        PROVE  CallsInv'
    <2>1. UNCHANGED <<calls, version, made>>
      BY <1>1 DEF Focus, ServeFetch, FetchFails, Poll, Login, Lapse, Dialog, Indexer, vars, server
    <2> QED
      BY <2>1, CallsSame
  <1>2. ASSUME Logout \/ \E p \in Pages : Navigate(p)
        PROVE  CallsInv'
    BY <1>2, CallsLeft DEF Logout, Navigate, server
  <1>3. ASSUME Refresh \/ LoginRefused
        PROVE  CallsInv'
    BY <1>3, CallsReloaded DEF Refresh, LoginRefused, SessionEnds, server
  <1>4. ASSUME NEW p \in Pages, FetchReturns(p)
        PROVE  CallsInv'
    BY <1>4, CallsReloaded, CallsSame DEF FetchReturns, SessionEnds, server
  <1>5. ASSUME NEW page \in {"flows", "kb", "settings"}, NEW op \in Buttons, op \in Ops[page],
               route = page, made' = made + 1, UNCHANGED version,
               calls' = calls \cup {[n |-> made + 1, page |-> page, op |-> op,
                                    token |-> token, answer |-> None, from |-> "page"]}
        PROVE  CallsInv'
    BY <1>5, OpenPage, CallsSent
  <1>6. /\ "create" \in Ops["flows"] /\ "activate" \in Ops["flows"] /\ "delete" \in Ops["flows"]
        /\ "upload" \in Ops["kb"] /\ "erase" \in Ops["kb"]
        /\ "connect" \in Ops["settings"] /\ "dryRun" \in Ops["settings"]
    BY DEF Ops
  <1> USE DEF Buttons
  <1>7. ASSUME HandleCreate \/ \E op \in {"activate", "delete"} : HandleFlow(op)
        PROVE  CallsInv'
    BY <1>5, <1>6, <1>7 DEF HandleCreate, HandleFlow, Send, server
  <1>8. ASSUME HandleFileChange \/ HandleDelete
        PROVE  CallsInv'
    BY <1>5, <1>6, <1>8 DEF HandleFileChange, HandleDelete, Send, server
  <1>9. ASSUME Connect \/ HandleDryRun
        PROVE  CallsInv'
    BY <1>5, <1>6, <1>9 DEF Connect, HandleDryRun, Send, server
  <1>10. ASSUME NEW c \in calls, ServeCall(c)
         PROVE  CallsInv'
    BY <1>10, CallsServed
  <1>11. ASSUME NEW c \in calls, CallReturns(c)
         PROVE  CallsInv'
    <2>1. calls' = calls \ {c} \/ SessionEnds
      BY <1>11 DEF CallReturns
    <2>2. UNCHANGED <<version, made>>
      BY <1>11 DEF CallReturns, server
    <2> QED
      BY <2>1, <2>2, CallsRemoved, CallsReloaded DEF SessionEnds
  <1> QED
    BY <1>1, <1>2, <1>3, <1>4, <1>7, <1>8, <1>9, <1>10, <1>11 DEF Next, Request, Load

-----------------------------------------------------------------------------
(* The session, the server and the cache *)

SessionTyped ==
    /\ token \in (1..issued) \cup {None}
    /\ tour \in Tours /\ route \in tour \cup {"login"}
    /\ dialog \in BOOLEAN /\ (dialog => route = "flows")
    /\ route # "login" => token # None
    /\ issued \in 0..MaxLogins /\ seen \subseteq Accounts

ServerTyped ==
    /\ version \in [Accounts -> [Pages -> Nat]]
    /\ docs \in [Accounts -> [Docs -> Statuses]]
    /\ lapsed \subseteq 1..issued
    /\ made \in 0..MaxCalls

CacheTyped ==
    /\ list \in [Pages -> ListType]
    /\ fetch \in [Pages -> {None} \cup FetchType]
    /\ told \in [Pages -> {None} \cup [owner : Accounts, version : 0..MaxCalls]]

\* TypeOK by its parts; that a version stays in range follows from CallsInv.
LEMMA Parts == TypeOK => SessionTyped /\ ServerTyped /\ CacheTyped
  BY DEF TypeOK, SessionTyped, ServerTyped, CacheTyped, ListType, FetchType

LEMMA Whole ==
    ASSUME SessionTyped', ServerTyped', CacheTyped', CallsInv', Cardinality(Open') \in Nat
    PROVE  TypeOK'
  <1>1. \A c \in calls' : /\ c.page \in Pages /\ c.op \in Ops[c.page]
                          /\ c.token \in Tokens \cup {None} /\ c.answer \in Answers
                          /\ c.from \in {"page", "left", "gone"} /\ c.n \in 1..made'
    BY DEF CallsInv, CallType
  <1>2. version' \in [Accounts -> [Pages -> 0..MaxCalls]]
    <2>1. ASSUME NEW a \in Accounts, NEW p \in Pages
          PROVE  version'[a][p] \in 0..MaxCalls
      <3>1. version'[a][p] + Cardinality(Open') <= made' /\ version'[a][p] \in Nat
        BY DEF CallsInv, ServerTyped
      <3>2. made' \in 0..MaxCalls
        BY DEF ServerTyped
      <3> QED
        BY <3>1, <3>2, DashboardAssumption
    <2> QED
      BY <2>1 DEF ServerTyped
  <1> QED
    BY <1>1, <1>2 DEF TypeOK, SessionTyped, ServerTyped, CacheTyped, ListType, FetchType

LEMMA OpenFiniteAfter ==
    ASSUME CallsInv', ServerTyped'
    PROVE  Cardinality(Open') \in Nat
  <1>1. Open' \subseteq 1..made'
    BY DEF Open, CallsInv
  <1>2. 1 \in Int /\ made' \in Int
    BY DEF ServerTyped
  <1>3. IsFiniteSet(1..made')
    BY <1>2, FS_Interval
  <1>4. IsFiniteSet(Open')
    BY <1>1, <1>3, FS_Subset
  <1> QED
    BY <1>4, FS_CardinalityType

-----------------------------------------------------------------------------
(* What may happen to the fetches *)

Started(t) == [token |-> t, answer |-> None, data |-> None]

\* Fetches go on, are given up or are started with the present token.
Restarts ==
    /\ fetch' \in [Pages -> {None} \cup FetchType]
    /\ \A p \in Pages : fetch'[p] \in {None, fetch[p], Started(token')}

\* The lists keep their data, and what is invalid stays so.
SameData ==
    /\ list' \in [Pages -> ListType]
    /\ \A p \in Pages : /\ list'[p].data = list[p].data
                        /\ list[p].invalid => list'[p].invalid

SeenToken == token' # None => Account(token') \in seen'

LEMMA StartedTyped ==
    ASSUME NEW t \in Tokens \cup {None}
    PROVE  /\ Started(t) \in FetchType /\ Started(t).token = t
           /\ Started(t).answer = None /\ None # "ok"
  BY DashboardAssumption DEF Started, FetchType

\* No answer arrives in the cache.
LEMMA Quiet ==
    ASSUME IInv, SessionTyped', ServerTyped', CallsInv', Restarts, SameData, SeenToken,
           UNCHANGED told, seen \subseteq seen',
           \A a \in Accounts, p \in Pages : version[a][p] <= version'[a][p]
    PROVE  IInv'
  <1>1. CacheTyped /\ ServerTyped
    BY Parts DEF IInv
  <1>2. TypeOK'
    BY <1>1, Whole, OpenFiniteAfter DEF CacheTyped, Restarts, SameData
  <1>3. token' \in Tokens \cup {None}
    <2>1. token' \in (1..issued') \cup {None} /\ issued' \in 0..MaxLogins
      BY DEF SessionTyped
    <2> QED
      BY <2>1, DashboardAssumption DEF Tokens
  <1>4. SeenInv'
    <2>1. ASSUME NEW p \in Pages
          PROVE  /\ list'[p].data # None => list'[p].data.owner \in seen'
                 /\ fetch'[p] # None /\ fetch'[p].token # None
                       => Account(fetch'[p].token) \in seen'
                 /\ fetch'[p] # None /\ fetch'[p].answer = "ok" =>
                       fetch'[p].data \in Data /\ fetch'[p].data.owner \in seen'
      BY <1>3, StartedTyped DEF IInv, SeenInv, Restarts, SameData, SeenToken
    <2> QED
      BY <2>1 DEF SeenInv, SeenToken
  <1>5. WritesInv'
    <2>1. ASSUME NEW p \in Pages, told[p] # None
          PROVE  /\ told[p].version <= version'[told[p].owner][p]
                 /\ fetch'[p] # None /\ fetch'[p].answer = "ok"
                       /\ fetch'[p].data.owner = told[p].owner
                    => fetch'[p].data.version >= told[p].version
      <3>1. told[p].owner \in Accounts /\ told[p].version \in Nat
        BY <1>1, <2>1, DashboardAssumption DEF CacheTyped
      <3>2. told[p].version <= version[told[p].owner][p]
        BY <2>1 DEF IInv, WritesInv
      <3>3. told[p].version <= version'[told[p].owner][p]
        BY <1>1, <3>1, <3>2 DEF ServerTyped
      <3> QED
        BY <1>3, <2>1, <3>3, StartedTyped DEF IInv, WritesInv, Restarts
    <2> QED
      BY <2>1 DEF WritesInv
  <1>6. ReadYourWrites'
    BY DEF IInv, ReadYourWrites, SameData
  <1> QED
    BY <1>2, <1>4, <1>5, <1>6 DEF IInv

\* The tab is loaded again.
LEMMA Emptied ==
    ASSUME IInv, SessionTyped', CallsInv', SeenToken, issued' = issued,
           list' = [p \in Pages |-> Empty], fetch' \in [Pages -> {None, Started(token')}],
           UNCHANGED <<told, version, docs, lapsed, made>>
    PROVE  IInv'
  <1>1. CacheTyped /\ ServerTyped
    BY Parts DEF IInv
  <1>2. token' \in Tokens \cup {None}
    <2>1. token' \in (1..issued') \cup {None} /\ issued' \in 0..MaxLogins
      BY DEF SessionTyped
    <2> QED
      BY <2>1, DashboardAssumption DEF Tokens
  <1>3. ServerTyped'
    BY <1>1 DEF ServerTyped
  <1>4. CacheTyped'
    <2>1. Empty \in ListType
      BY DEF Empty, ListType
    <2> QED
      BY <1>1, <1>2, <2>1, StartedTyped DEF CacheTyped
  <1>5. TypeOK'
    BY <1>3, <1>4, Whole, OpenFiniteAfter
  <1>6. \A p \in Pages : list'[p].data = None
    BY DEF Empty
  <1>7. SeenInv'
    BY <1>2, <1>6, StartedTyped DEF SeenInv, SeenToken
  <1>8. WritesInv'
    BY <1>2, StartedTyped DEF IInv, WritesInv
  <1>9. ReadYourWrites'
    BY <1>6 DEF ReadYourWrites
  <1> QED
    BY <1>5, <1>7, <1>8, <1>9 DEF IInv

-----------------------------------------------------------------------------
(* The steps *)

LEMMA Known ==
    ASSUME IInv
    PROVE  /\ SessionTyped /\ ServerTyped /\ CacheTyped
           /\ token \in Tokens \cup {None} /\ 1..issued \subseteq Tokens
           /\ token # None => Account(token) \in seen /\ Account(token) \in Accounts
           /\ NewFetch = Started(token)
  <1>1. SessionTyped /\ ServerTyped /\ CacheTyped
    BY Parts DEF IInv
  <1>2. token \in (1..issued) \cup {None} /\ issued \in 0..MaxLogins
    BY <1>1 DEF SessionTyped
  <1>3. token \in Tokens \cup {None} /\ 1..issued \subseteq Tokens
    BY <1>2, DashboardAssumption DEF Tokens
  <1> QED
    BY <1>1, <1>3 DEF IInv, SeenInv, Accounts, NewFetch, Started

\* One fetch starts, or is over.
LEMMA OneFetch ==
    ASSUME IInv, NEW p \in Pages, NEW f \in {None, Started(token)},
           fetch' = [fetch EXCEPT ![p] = f], token' = token
    PROVE  Restarts
  <1>1. f \in {None} \cup FetchType
    BY Known, StartedTyped
  <1>2. fetch \in [Pages -> {None} \cup FetchType]
    BY Known DEF CacheTyped
  <1> QED
    BY <1>1, <1>2 DEF Restarts

LEMMA NoFetch ==
    ASSUME IInv, UNCHANGED fetch
    PROVE  Restarts
  BY Known DEF Restarts, CacheTyped

LEMMA SameLists ==
    ASSUME IInv, UNCHANGED list
    PROVE  SameData
  BY Known DEF SameData, CacheTyped

LEMMA SameVersions ==
    ASSUME IInv, UNCHANGED version
    PROVE  \A a \in Accounts, p \in Pages : version[a][p] <= version'[a][p]
  <1>1. ASSUME NEW a \in Accounts, NEW p \in Pages
        PROVE  version[a][p] \in Nat
    BY Known DEF ServerTyped
  <1> QED
    BY <1>1

\* The queries of a page that opens.
LEMMA OpenedStarts ==
    ASSUME IInv, NEW p, NEW t \in Tokens \cup {None}, NEW old \in BOOLEAN,
           fetch' = Opened(p, t, old), token' = t
    PROVE  Restarts
  <1>1. \A q \in Pages : fetch'[q] \in {fetch[q], Started(t)}
    BY DEF Opened, Started
  <1>2. fetch' = [q \in Pages |-> fetch'[q]]
    BY DEF Opened
  <1>3. fetch \in [Pages -> {None} \cup FetchType]
    BY Known DEF CacheTyped
  <1> QED
    BY <1>1, <1>2, <1>3, StartedTyped DEF Restarts

LEMMA SessionEndsStep ==
    ASSUME IInv, SessionEnds, UNCHANGED <<server, made>>, CallsInv'
    PROVE  IInv'
  <1>1. /\ token' = None /\ dialog' = FALSE /\ route' = "login" /\ seen' = {}
        /\ list' = [p \in Pages |-> Empty] /\ fetch' = [p \in Pages |-> None]
        /\ UNCHANGED <<tour, issued, told, version, docs, lapsed, made>>
    BY DEF SessionEnds, Reload, server
  <1>2. SessionTyped'
    BY <1>1, Known DEF SessionTyped
  <1>3. SeenToken
    BY <1>1 DEF SeenToken
  <1> QED
    BY <1>1, <1>2, <1>3, Emptied

LEMMA RefreshStep ==
    ASSUME IInv, Refresh, CallsInv'
    PROVE  IInv'
  <1>1. /\ token' = token /\ dialog' = FALSE
        /\ route' = IF token = None THEN "login" ELSE route
        /\ seen' = IF token = None THEN {} ELSE {Account(token)}
        /\ list' = [p \in Pages |-> Empty]
        /\ UNCHANGED <<tour, issued, told, version, docs, lapsed, made>>
    BY DEF Refresh, Reload, server
  <1>2. fetch' \in [Pages -> {None, Started(token')}]
    BY <1>1, Known DEF Refresh
  <1>3. SessionTyped'
    BY <1>1, Known DEF SessionTyped
  <1>4. SeenToken
    BY <1>1 DEF SeenToken
  <1> QED
    BY <1>1, <1>2, <1>3, <1>4, Emptied

LEMMA LoginStep ==
    ASSUME IInv, Login, CallsInv'
    PROVE  IInv'
  <1>1. /\ issued < MaxLogins /\ issued' = issued + 1 /\ token' = issued + 1
        /\ route' = "flows" /\ seen' = seen \cup {Account(issued + 1)}
        /\ UNCHANGED <<tour, dialog, list, told, version, docs, lapsed, made>>
        /\ route = "login"
    BY DEF Login, server
  <1>2. issued \in 0..MaxLogins
    BY Known DEF SessionTyped
  <1>3. issued + 1 \in Tokens /\ issued' \in 0..MaxLogins /\ token' \in 1..issued'
    BY <1>1, <1>2, DashboardAssumption DEF Tokens
  <1>4. token' # None /\ Account(issued + 1) \in Accounts
    BY <1>1, <1>3, DashboardAssumption DEF Accounts
  <1>5. "flows" \in tour
    BY Known, DashboardAssumption DEF SessionTyped
  <1>6. SessionTyped'
    BY <1>1, <1>3, <1>4, <1>5, Known DEF SessionTyped
  <1>7. ServerTyped'
    <2>1. lapsed \subseteq 1..issued'
      BY <1>1, <1>2, Known DEF ServerTyped
    <2> QED
      BY <1>1, <2>1, Known DEF ServerTyped
  <1>8. PICK old \in BOOLEAN : fetch' = Opened("flows", issued', old)
    BY DEF Login
  <1>9. Restarts
    BY <1>1, <1>3, <1>8, OpenedStarts
  <1>10. SeenToken
    BY <1>1 DEF SeenToken
  <1> QED
    BY <1>1, <1>6, <1>7, <1>9, <1>10, SameLists, SameVersions, Quiet

LEMMA LeaveStep ==
    ASSUME IInv, CallsInv', Logout \/ \E p \in Pages : Navigate(p)
    PROVE  IInv'
  <1>1. /\ dialog' = FALSE
        /\ UNCHANGED <<tour, list, issued, seen, told, version, docs, lapsed, made>>
    BY DEF Logout, Navigate, server
  <1>2. ServerTyped'
    BY <1>1, Known DEF ServerTyped
  <1>3. ASSUME Logout
        PROVE  SessionTyped' /\ SeenToken /\ Restarts
    <2>1. token' = None /\ route' = "login" /\ UNCHANGED fetch
      BY <1>3 DEF Logout
    <2> QED
      BY <1>1, <2>1, Known, NoFetch DEF SessionTyped, SeenToken
  <1>4. ASSUME NEW p \in Pages, Navigate(p)
        PROVE  SessionTyped' /\ SeenToken /\ Restarts
    <2>1. p \in tour /\ route' = p /\ route # "login" /\ token' = token
      BY <1>4 DEF Navigate
    <2>2. PICK old \in BOOLEAN : fetch' = Opened(p, token, old)
      BY <1>4 DEF Navigate
    <2>3. Restarts
      BY <2>1, <2>2, Known, OpenedStarts
    <2> QED
      BY <1>1, <2>1, <2>3, Known DEF SessionTyped, SeenToken
  <1> QED
    BY <1>1, <1>2, <1>3, <1>4, SameLists, SameVersions, Quiet

\* The session goes on, and nothing arrives.
LEMMA SameSession ==
    ASSUME IInv, CallsInv', ServerTyped', Restarts, SameData, UNCHANGED <<session, told>>,
           \A a \in Accounts, p \in Pages : version[a][p] <= version'[a][p]
    PROVE  IInv'
  <1>1. UNCHANGED <<tour, token, route, dialog, issued, seen>>
    BY DEF session
  <1>2. SessionTyped' /\ SeenToken
    BY <1>1, Known DEF SessionTyped, SeenToken
  <1> QED
    BY <1>1, <1>2, Quiet

LEMMA FetchStep ==
    ASSUME IInv, CallsInv', Poll \/ \E p \in Pages : Focus(p) \/ FetchFails(p)
    PROVE  IInv'
  <1>1. UNCHANGED <<session, version, docs, lapsed, made, told>>
    BY DEF Poll, Focus, FetchFails, server
  <1>2. ServerTyped'
    BY <1>1, Known DEF ServerTyped, session
  <1>3. ASSUME Poll \/ \E p \in Pages : Focus(p)
        PROVE  Restarts /\ SameData
    <2>1. UNCHANGED list /\ token' = token
      BY <1>3 DEF Poll, Focus, session
    <2>2. PICK p \in Pages : fetch' = [fetch EXCEPT ![p] = Started(token)]
      BY <1>3, Known, DashboardAssumption DEF Poll, Focus
    <2> QED
      BY <2>1, <2>2, OneFetch, SameLists
  <1>4. ASSUME NEW p \in Pages, FetchFails(p)
        PROVE  Restarts /\ SameData
    <2>1. /\ token' = token /\ fetch' = [fetch EXCEPT ![p] = None]
          /\ list' = [list EXCEPT ![p].failed = (p = "flows")]
      BY <1>4 DEF FetchFails, session
    <2>2. SameData
      <3>1. list \in [Pages -> ListType]
        BY Known DEF CacheTyped
      <3>2. PICK failed \in BOOLEAN : list' = [list EXCEPT ![p].failed = failed]
        BY <2>1
      <3> DEFINE new == [list[p] EXCEPT !.failed = failed]
      <3>3. list[p] \in ListType
        BY <3>1
      <3>4. new \in ListType
        BY <3>3 DEF ListType
      <3>5. new.data = list[p].data /\ new.invalid = list[p].invalid
        BY <3>3 DEF ListType
      <3>6. list' = [list EXCEPT ![p] = new]
        BY <3>2
      <3> HIDE DEF new
      <3> QED
        BY <3>1, <3>4, <3>5, <3>6 DEF SameData
    <2> QED
      BY <2>1, <2>2, OneFetch
  <1> QED
    BY <1>1, <1>2, <1>3, <1>4, SameVersions, SameSession

LEMMA DialogStep ==
    ASSUME IInv, CallsInv', NEW opens \in BOOLEAN, Dialog(opens)
    PROVE  IInv'
  <1>1. /\ route = "flows" /\ dialog' = opens
        /\ UNCHANGED <<tour, token, route, issued, seen, version, docs, lapsed, made>>
        /\ UNCHANGED <<list, fetch, told>>
    BY DEF Dialog, server
  <1>2. SessionTyped' /\ SeenToken /\ ServerTyped'
    BY <1>1, Known DEF SessionTyped, SeenToken, ServerTyped
  <1> QED
    BY <1>1, <1>2, NoFetch, SameLists, SameVersions, Quiet

\* tenant-api, its clock, and the indexer.
LEMMA ServerStep ==
    ASSUME IInv, CallsInv', \/ \E t \in Tokens : Lapse(t)
                            \/ \E a \in Accounts, d \in Docs : Indexer(a, d)
    PROVE  IInv'
  <1>1. UNCHANGED <<session, version, list, fetch, made, told>>
    BY DEF Lapse, Indexer
  <1>2. ASSUME NEW t \in Tokens, Lapse(t)
        PROVE  lapsed' \subseteq 1..issued' /\ docs' = docs
    BY <1>2, Known DEF Lapse, session, ServerTyped
  <1>3. ASSUME NEW a \in Accounts, NEW d \in Docs, Indexer(a, d)
        PROVE  docs' \in [Accounts -> [Docs -> Statuses]] /\ lapsed' = lapsed
    <2>1. PICK s \in Statuses : docs' = [docs EXCEPT ![a][d] = s]
      BY <1>3 DEF Indexer, Statuses
    <2> QED
      BY <1>3, <2>1, Known DEF Indexer, ServerTyped
  <1>4. ServerTyped'
    BY <1>1, <1>2, <1>3, Known DEF ServerTyped, session
  <1> QED
    BY <1>1, <1>4, NoFetch, SameLists, SameVersions, SameSession

\* A click.
LEMMA SendStep ==
    ASSUME IInv, CallsInv', NEW page, NEW op, Send(page, op)
    PROVE  IInv'
  <1>1. /\ made < MaxCalls /\ made' = made + 1
        /\ UNCHANGED <<session, version, docs, lapsed, list, fetch, told>>
    BY DEF Send, server
  <1>2. made' \in 0..MaxCalls
    BY <1>1, Known, DashboardAssumption DEF ServerTyped
  <1>3. ServerTyped'
    BY <1>1, <1>2, Known DEF ServerTyped, session
  <1> QED
    BY <1>1, <1>3, NoFetch, SameLists, SameVersions, SameSession

LEMMA ServeCallStep ==
    ASSUME IInv, CallsInv', NEW c \in calls, ServeCall(c)
    PROVE  IInv'
  <1>1. UNCHANGED <<session, lapsed, list, fetch, made, told>>
    BY DEF ServeCall
  <1>2. /\ version' \in [Accounts -> [Pages -> Nat]]
        /\ \A a \in Accounts, p \in Pages : version[a][p] <= version'[a][p]
    BY CallsServed DEF IInv
  <1>3. c.token \in Tokens
    BY DEF IInv, CallsInv, CallType
  <1>4. PICK a \in Accounts : a = Account(c.token)
    BY <1>3 DEF Accounts
  <1>5. docs' = docs \/ \E d \in Docs, s \in Statuses : docs' = [docs EXCEPT ![a][d] = s]
    BY <1>4 DEF ServeCall, Statuses
  <1>6. docs' \in [Accounts -> [Docs -> Statuses]]
    <2>1. docs \in [Accounts -> [Docs -> Statuses]]
      BY Known DEF ServerTyped
    <2>2. ASSUME NEW d \in Docs, NEW s \in Statuses, docs' = [docs EXCEPT ![a][d] = s]
          PROVE  docs' \in [Accounts -> [Docs -> Statuses]]
      BY <2>1, <2>2
    <2> QED
      BY <1>5, <2>1, <2>2
  <1>7. ServerTyped'
    BY <1>1, <1>2, <1>6, Known DEF ServerTyped, session
  <1> QED
    BY <1>1, <1>2, <1>7, NoFetch, SameLists, SameSession

\* A fetch gets its answer.
LEMMA FetchAnswered ==
    ASSUME IInv, CallsInv', NEW p \in Pages, NEW f \in FetchType, f.token = None,
           fetch' = [fetch EXCEPT ![p] = f], UNCHANGED <<session, server, list, made, told>>,
           f.answer = "ok" => /\ f.data \in Data /\ f.data.owner \in seen
                              /\ told[p] # None /\ f.data.owner = told[p].owner
                                 => f.data.version >= told[p].version
    PROVE  IInv'
  <1>1. UNCHANGED <<tour, token, route, dialog, issued, seen, version, docs, lapsed>>
    BY DEF session, server
  <1>2. SessionTyped' /\ ServerTyped'
    BY <1>1, Known DEF SessionTyped, ServerTyped
  <1>3. fetch \in [Pages -> {None} \cup FetchType]
    BY Known DEF CacheTyped
  <1>4. CacheTyped'
    BY <1>3, Known DEF CacheTyped
  <1>5. TypeOK'
    BY <1>2, <1>4, Whole, OpenFiniteAfter
  <1>6. fetch'[p] = f /\ \A q \in Pages \ {p} : fetch'[q] = fetch[q]
    BY <1>3
  <1>7. SeenInv'
    BY <1>1, <1>6 DEF IInv, SeenInv
  <1>8. WritesInv'
    BY <1>1, <1>6 DEF IInv, WritesInv
  <1>9. ReadYourWrites'
    BY DEF IInv, ReadYourWrites
  <1> QED
    BY <1>5, <1>7, <1>8, <1>9 DEF IInv

LEMMA ServeFetchStep ==
    ASSUME IInv, CallsInv', NEW p \in Pages, ServeFetch(p)
    PROVE  IInv'
  <1>1. UNCHANGED <<session, server, list, made, told>> /\ fetch[p] # None
    BY DEF ServeFetch
  <1>2. CASE fetch' = [fetch EXCEPT ![p] =
                         [token |-> None, answer |-> "unauthorized", data |-> None]]
    <2> DEFINE f == [token |-> None, answer |-> "unauthorized", data |-> None]
    <2>1. f \in FetchType /\ f.token = None /\ f.answer # "ok"
      BY DEF FetchType
    <2>2. fetch' = [fetch EXCEPT ![p] = f]
      BY <1>2
    <2> HIDE DEF f
    <2> QED
      BY <1>1, <2>1, <2>2, FetchAnswered
  <1>3. ASSUME Authorized(fetch[p].token),
               LET a == Account(fetch[p].token) IN
               fetch' = [fetch EXCEPT ![p] =
                         [token |-> None, answer |-> "ok",
                          data |-> [owner |-> a, version |-> version[a][p], docs |-> Shown(p, a)]]]
        PROVE  IInv'
    <2>1. fetch[p].token \in Tokens /\ fetch[p].token # None
      BY <1>3, DashboardAssumption DEF Authorized
    <2>2. PICK a \in Accounts : a = Account(fetch[p].token) /\ a \in seen
      BY <1>1, <2>1 DEF IInv, SeenInv, Accounts
    <2>3. version[a][p] \in 0..MaxCalls
      BY DEF IInv, TypeOK
    <2>4. Shown(p, a) \in [Docs -> Statuses]
      BY Known DEF ServerTyped, Shown, Statuses
    <2> DEFINE data == [owner |-> a, version |-> version[a][p], docs |-> Shown(p, a)]
               f == [token |-> None, answer |-> "ok", data |-> data]
    <2>5. data \in Data /\ data.owner = a /\ data.version = version[a][p]
      BY <2>3, <2>4 DEF Data
    <2> HIDE DEF data
    <2>6. f \in FetchType /\ f.token = None /\ f.data = data
      BY <2>5 DEF FetchType
    <2>7. fetch' = [fetch EXCEPT ![p] = f]
      BY <1>3, <2>2 DEF data
    <2> HIDE DEF f
    <2>8. told[p] # None /\ a = told[p].owner => data.version >= told[p].version
      <3>1. told[p] # None => told[p].version \in 0..MaxCalls
        BY Known DEF CacheTyped
      <3> QED
        BY <2>3, <2>5, <3>1 DEF IInv, WritesInv
    <2> QED
      BY <1>1, <2>2, <2>5, <2>6, <2>7, <2>8, FetchAnswered
  <1> QED
    BY <1>2, <1>3 DEF ServeFetch

LEMMA FetchReturnsStep ==
    ASSUME IInv, CallsInv', NEW p \in Pages, FetchReturns(p)
    PROVE  IInv'
  <1>1. UNCHANGED <<server, made>> /\ fetch[p] # None
    BY DEF FetchReturns
  <1>2. CASE SessionEnds
    BY <1>1, <1>2, SessionEndsStep
  <1>3. CASE ~SessionEnds
    <2>1. /\ fetch[p].answer = "ok" /\ fetch' = [fetch EXCEPT ![p] = None]
          /\ list' = [list EXCEPT ![p] = [Empty EXCEPT !.data = fetch[p].data]]
          /\ UNCHANGED <<session, told>>
      BY <1>3 DEF FetchReturns
    <2>2. UNCHANGED <<tour, token, route, dialog, issued, seen, version, docs, lapsed>>
      BY <1>1, <2>1 DEF session, server
    <2>3. fetch[p].data \in Data /\ fetch[p].data.owner \in seen
      BY <1>1, <2>1 DEF IInv, SeenInv
    <2>4. PICK data \in Data : data = fetch[p].data
      BY <2>3
    <2> DEFINE new == [Empty EXCEPT !.data = data]
    <2>5. new \in ListType /\ new.data = data
      <3>1. Empty \in ListType
        BY DEF Empty, ListType
      <3> QED
        BY <3>1 DEF ListType
    <2>6. list' = [list EXCEPT ![p] = new]
      BY <2>1, <2>4
    <2> HIDE DEF new
    <2>7. /\ list \in [Pages -> ListType] /\ fetch \in [Pages -> {None} \cup FetchType]
          /\ SessionTyped' /\ ServerTyped'
      BY <1>1, <2>2, Known DEF CacheTyped, SessionTyped, ServerTyped
    <2>8. CacheTyped'
      BY <2>1, <2>5, <2>6, <2>7, Known DEF CacheTyped
    <2>9. TypeOK'
      BY <2>7, <2>8, Whole, OpenFiniteAfter
    <2>10. /\ list'[p].data = data /\ fetch'[p] = None
           /\ \A q \in Pages \ {p} : list'[q] = list[q] /\ fetch'[q] = fetch[q]
      BY <2>1, <2>5, <2>6, <2>7
    <2>11. SeenInv'
      BY <2>2, <2>3, <2>4, <2>10 DEF IInv, SeenInv
    <2>12. WritesInv'
      BY <2>1, <2>2, <2>10 DEF IInv, WritesInv
    <2>13. ReadYourWrites'
      BY <1>1, <2>1, <2>4, <2>10 DEF IInv, WritesInv, ReadYourWrites
    <2> QED
      BY <2>9, <2>11, <2>12, <2>13 DEF IInv
  <1> QED
    BY <1>2, <1>3

\* A confirmation arrives: the list of its page is invalid from now on.
LEMMA ConfirmedStep ==
    ASSUME IInv, CallsInv', NEW c \in calls, c.answer = "ok", c.op # "dryRun", CallReturns(c)
    PROVE  IInv'
  <1>1. /\ list' = [list EXCEPT ![c.page].invalid = TRUE]
        /\ fetch' = Invalidated(c.page)
        /\ told' = IF Mounted(c.page) /\ list[c.page].data # None
                   THEN [told EXCEPT ![c.page] =
                           [owner   |-> Account(c.token),
                            version |-> version[Account(c.token)][c.page]]]
                   ELSE told
        /\ dialog' = (dialog /\ ~(c.op = "create" /\ c.from = "page"))
        /\ UNCHANGED <<tour, token, route, issued, seen, version, docs, lapsed, made>>
    BY DEF CallReturns, server
  <1>2. c.page \in Pages /\ c.token \in Tokens
    BY DEF IInv, CallsInv, CallType
  <1>3. PICK p \in Pages, a \in Accounts : p = c.page /\ a = Account(c.token)
    BY <1>2 DEF Accounts
  <1>4. /\ list \in [Pages -> ListType] /\ fetch \in [Pages -> {None} \cup FetchType]
        /\ told \in [Pages -> {None} \cup [owner : Accounts, version : 0..MaxCalls]]
        /\ token' \in Tokens \cup {None}
    BY <1>1, Known DEF CacheTyped
  <1>5. SessionTyped' /\ ServerTyped' /\ SeenToken
    BY <1>1, Known DEF SessionTyped, ServerTyped, SeenToken
  <1> DEFINE new == [list[p] EXCEPT !.invalid = TRUE]
  <1>6. new \in ListType /\ new.data = list[p].data /\ new.invalid = TRUE
    <2>1. list[p] \in ListType
      BY <1>4
    <2> QED
      BY <2>1 DEF ListType
  <1>7. list' = [list EXCEPT ![p] = new]
    BY <1>1, <1>3
  <1> HIDE DEF new
  <1>8. SameData /\ list'[p].invalid
    BY <1>4, <1>6, <1>7 DEF SameData
  <1>9. fetch' \in {fetch, [fetch EXCEPT ![p] = Started(token)]}
    BY <1>1, <1>3, Known DEF Invalidated
  <1>10. Restarts
    BY <1>1, <1>9, NoFetch, OneFetch
  <1>11. CASE told' = told
    BY <1>1, <1>5, <1>8, <1>10, <1>11, SameVersions, Quiet
  <1>12. CASE told' # told
    <2>1. /\ Mounted(p) /\ list[p].data # None
          /\ told' = [told EXCEPT ![p] = [owner |-> a, version |-> version[a][p]]]
      BY <1>1, <1>3, <1>12
    <2>2. fetch' = [fetch EXCEPT ![p] = Started(token)]
      BY <1>1, <1>3, <2>1, Known DEF Invalidated
    <2>3. version[a][p] \in 0..MaxCalls
      BY DEF IInv, TypeOK
    <2>4. /\ told'[p] = [owner |-> a, version |-> version[a][p]]
          /\ \A q \in Pages \ {p} : told'[q] = told[q]
          /\ told' \in [Pages -> {None} \cup [owner : Accounts, version : 0..MaxCalls]]
      BY <1>4, <2>1, <2>3
    <2>5. fetch'[p] = Started(token) /\ \A q \in Pages \ {p} : fetch'[q] = fetch[q]
      BY <1>4, <2>2
    <2>6. /\ Started(token).answer # "ok" /\ Started(token).token = token
      BY Known, StartedTyped
    <2>7. CacheTyped'
      BY <1>8, <1>10, <2>4 DEF CacheTyped, SameData, Restarts
    <2>8. TypeOK'
      BY <1>5, <2>7, Whole, OpenFiniteAfter
    <2>9. SeenInv'
      BY <1>1, <1>8, <2>5, <2>6, Known DEF IInv, SeenInv, SameData
    <2>10. WritesInv'
      BY <1>1, <2>3, <2>4, <2>5, <2>6 DEF IInv, WritesInv
    <2>11. ReadYourWrites'
      BY <1>8, <2>4 DEF IInv, ReadYourWrites, SameData
    <2> QED
      BY <2>8, <2>9, <2>10, <2>11 DEF IInv
  <1> QED
    BY <1>11, <1>12

LEMMA CallReturnsStep ==
    ASSUME IInv, CallsInv', NEW c \in calls, CallReturns(c)
    PROVE  IInv'
  <1>1. UNCHANGED <<server, made>>
    BY DEF CallReturns
  <1>2. CASE SessionEnds
    BY <1>1, <1>2, SessionEndsStep
  <1>3. CASE c.answer = "ok" /\ c.op # "dryRun"
    BY <1>3, ConfirmedStep
  <1>4. CASE UNCHANGED <<session, list, fetch, told>>
    <2>1. UNCHANGED <<version, docs, lapsed>>
      BY <1>1 DEF server
    <2>2. ServerTyped'
      BY <1>1, <1>4, <2>1, Known DEF ServerTyped, session
    <2> QED
      BY <1>4, <2>1, <2>2, NoFetch, SameLists, SameVersions, SameSession
  <1> QED
    BY <1>2, <1>3, <1>4 DEF CallReturns

LEMMA Step ==
    ASSUME IInv, [Next]_vars
    PROVE  IInv'
  <1>1. CallsInv'
    BY CallsStep DEF IInv
  <1>2. ASSUME Poll \/ \E p \in Pages : Focus(p) \/ FetchFails(p)
        PROVE  IInv'
    BY <1>1, <1>2, FetchStep
  <1>3. ASSUME NEW p \in Pages, ServeFetch(p) \/ FetchReturns(p)
        PROVE  IInv'
    BY <1>1, <1>3, ServeFetchStep, FetchReturnsStep
  <1>4. ASSUME Logout \/ \E p \in Pages : Navigate(p)
        PROVE  IInv'
    BY <1>1, <1>4, LeaveStep
  <1>5. ASSUME Login \/ Refresh \/ LoginRefused
        PROVE  IInv'
    BY <1>1, <1>5, LoginStep, RefreshStep, SessionEndsStep DEF LoginRefused
  <1>6. ASSUME \/ \E t \in Tokens : Lapse(t)
               \/ \E a \in Accounts, d \in Docs : Indexer(a, d)
        PROVE  IInv'
    BY <1>1, <1>6, ServerStep
  <1>7. ASSUME NEW opens \in BOOLEAN, Dialog(opens)
        PROVE  IInv'
    BY <1>1, <1>7, DialogStep
  <1>8. ASSUME \/ HandleCreate \/ HandleFileChange \/ HandleDelete \/ Connect \/ HandleDryRun
               \/ \E op \in {"activate", "delete"} : HandleFlow(op)
        PROVE  IInv'
    BY <1>1, <1>8, SendStep
       DEF HandleCreate, HandleFileChange, HandleDelete, Connect, HandleDryRun, HandleFlow
  <1>9. ASSUME NEW c \in calls, ServeCall(c) \/ CallReturns(c)
        PROVE  IInv'
    BY <1>1, <1>9, ServeCallStep, CallReturnsStep
  <1>10. CASE UNCHANGED vars
    <2>1. /\ UNCHANGED <<session, version, docs, lapsed, made, told, list, fetch>>
      BY <1>10 DEF vars, server
    <2>2. ServerTyped'
      BY <2>1, Known DEF ServerTyped, session
    <2> QED
      BY <1>1, <2>1, <2>2, NoFetch, SameLists, SameVersions, SameSession
  <1> QED
    BY <1>2, <1>3, <1>4, <1>5, <1>6, <1>7, <1>8, <1>9, <1>10 DEF Next, Request, Load

LEMMA Start == Init => IInv
  <1> SUFFICES ASSUME Init PROVE IInv
    OBVIOUS
  <1>1. Open = {} /\ Cardinality(Open) = 0
    BY FS_EmptySet DEF Init, Open
  <1>2. TypeOK
    <2>1. Empty \in ListType
      BY DEF Empty, ListType
    <2>2. list \in [Pages -> ListType] /\ fetch \in [Pages -> {None} \cup FetchType]
      BY <2>1 DEF Init
    <2>3. /\ version \in [Accounts -> [Pages -> 0..MaxCalls]] /\ made \in 0..MaxCalls
          /\ docs \in [Accounts -> [Docs -> Statuses]]
      BY DashboardAssumption DEF Init, Statuses
    <2>4. /\ token \in (1..issued) \cup {None} /\ tour \in Tours /\ route = "login"
          /\ dialog = FALSE /\ calls = {} /\ issued \in 0..MaxLogins /\ lapsed = {}
          /\ seen = {} /\ told \in [Pages -> {None}]
      BY DashboardAssumption DEF Init
    <2> QED
      BY <2>2, <2>3, <2>4 DEF TypeOK, ListType, FetchType
  <1>3. CallsInv
    BY <1>1 DEF Init, CallsInv
  <1>4. SeenInv /\ WritesInv /\ ReadYourWrites
    BY DEF Init, SeenInv, WritesInv, ReadYourWrites, Empty
  <1> QED
    BY <1>2, <1>3, <1>4 DEF IInv

LEMMA Invariant == Spec => []IInv
  <1>1. IInv /\ [Next]_vars => IInv'
    BY Step
  <1> QED
    BY Start, <1>1, PTL DEF Spec

-----------------------------------------------------------------------------
(* The theorems *)

\* The tab and tenant-api keep their types: an open page always has a token, and no
\* list has more versions than changes were sent (TypeOK).
THEOREM TypeCorrect == Spec => []TypeOK
  BY Invariant, PTL DEF IInv

\* App.tsx, FlowsPage, KbPage: for any number of clicks and fetches that overlap, a
\* list that was on the screen when a change of it was confirmed, and is not marked as
\* invalid, is at least as new as that change (ReadYourWrites).
THEOREM WritesAreRead == Spec => []ReadYourWrites
  BY Invariant, PTL DEF IInv

\* api.ts on 401: whatever answers are late, the cache holds lists of accounts only
\* that were logged in since the tab was loaded (NothingFromBeforeTheReload).
THEOREM CacheOfThisLoad == Spec => []NothingFromBeforeTheReload
  <1>1. IInv => NothingFromBeforeTheReload
    BY DEF IInv, SeenInv, NothingFromBeforeTheReload
  <1> QED
    BY Invariant, <1>1, PTL

=============================================================================
