--------------------------- MODULE AccountsProofs ---------------------------
(* Theorems about Accounts for every set of requests, addresses and slugs.   *)
EXTENDS Accounts, SequenceTheorems, TLAPS

(* The tables that TypeOK does not type are total on the requests.           *)
TablesAreTotal ==
    /\ slug = [a \in Actors |-> slug[a]]
    /\ pending = [a \in Actors |-> pending[a]]
    /\ begun = [a \in Actors |-> begun[a]]

(* A committed user has the lower-cased address of its registration, and a   *)
(* committed organization or project is one of a finished request.           *)
RowsAreCommitted ==
    /\ \A u \in users : u.email = Lower[EmailOf[u.id]]
    /\ \A o \in orgs : pc[o.id] = "201"

(* Nobody holds an entry that is committed, and a transaction holds the      *)
(* entries of the rows it has inserted.                                      *)
EntriesAreHeld ==
    /\ \A a \in Actors : pending[a] \cap Committed = {}
    /\ \A r \in Registrations : pc[r] \in {"look", "insert", "commit"} =>
         EmailEntry(r) \in pending[r]
    /\ \A a \in Named : pc[a] = "commit" => SlugEntry(a, slug[a]) \in pending[a]

(* A request in progress is still entitled to what it was granted.           *)
AccessHolds ==
    \A a \in Actors \ Registrations : pc[a] \in Open => Authenticated(a) /\ Granted(a)

(* What a request found free was not committed when it began.                *)
LooksAreRecent ==
    /\ \A a \in Actors : begun[a] \subseteq Committed
    /\ \A r \in Registrations : pc[r] = "user" => EmailEntry(r) \notin begun[r]
    /\ \A a \in Named : pc[a] = "insert" =>
         \/ SlugEntry(a, slug[a]) \notin begun[a]
         \/ a \notin Registrations /\ try[a] > MaxSuffix

(* The slugs a request may settle on.                                        *)
Slugs(a) ==
    {Base(a)} \cup {Append(Base(a), n) : n \in 2..MaxSuffix}
      \cup IF a \in Registrations THEN {Append(Base(a), a)} ELSE {}

SlugsAreOwn ==
    /\ \A a \in Named : pc[a] \in {"insert", "commit"} => slug[a] \in Slugs(a)
    /\ \A o \in orgs : o.slug \in Slugs(o.id)

(* The inductive invariant.                                                  *)
IInv ==
    /\ TypeOK /\ TablesAreTotal /\ RowsAreCommitted /\ EntriesAreHeld /\ AccessHolds
    /\ LooksAreRecent /\ SlugsAreOwn
    /\ AccountsAreWhole /\ TenantsAreSeparate /\ ConflictsAreRaces

----------------------------------------------------------------------------
(* A step of one request, its handler's or a failure.                        *)
StepOf(a) == Step(a) \/ RollBack(a)

(* What the step of a leaves of the other requests.                          *)
OthersStay(a) ==
    \A x \in Actors \ {a} :
      /\ pc'[x] = pc[x] /\ try'[x] = try[x] /\ slug'[x] = slug[x]
      /\ pending'[x] = pending[x] /\ begun'[x] = begun[x]

TablesAreTyped ==
    /\ pc \in [Actors -> {"idle"} \cup Open \cup Answers]
    /\ try \in [Actors -> 1..MaxSuffix + 1]
    /\ TablesAreTotal

(* The end of a transaction.                                                 *)
LEMMA Ending ==
    ASSUME TablesAreTyped, NEW a \in Actors, NEW l \in Answers, End(a, l)
    PROVE  /\ TablesAreTyped' /\ OthersStay(a)
           /\ pc'[a] = l /\ pending'[a] = {}
           /\ begun'[a] \subseteq begun[a]
           /\ l = "conflict" => UNCHANGED locals
<1>0. MaxSuffix \in Nat \ {0}
  BY AccountsAssumption
<1>1. 1 \in 1..MaxSuffix + 1
  BY <1>0
<1>2. /\ pc' \in [Actors -> {"idle"} \cup Open \cup Answers]
      /\ pc'[a] = l /\ \A x \in Actors \ {a} : pc'[x] = pc[x]
  BY DEF End, Goto, TablesAreTyped
<1>3. /\ pending' = [x \in Actors |-> pending'[x]]
      /\ pending'[a] = {} /\ \A x \in Actors \ {a} : pending'[x] = pending[x]
  BY DEF End, TablesAreTyped, TablesAreTotal
<1>4. CASE l = "conflict"
  BY <1>2, <1>3, <1>4 DEF End, TablesAreTyped, TablesAreTotal, OthersStay, locals
<1>5. CASE l # "conflict"
  <2>1. /\ try' = [try EXCEPT ![a] = 1]
        /\ slug' = [slug EXCEPT ![a] = <<>>]
        /\ begun' = [begun EXCEPT ![a] = {}]
    BY <1>5 DEF End
  <2>2. /\ try' \in [Actors -> 1..MaxSuffix + 1]
        /\ \A x \in Actors \ {a} : try'[x] = try[x]
    BY <1>1, <2>1 DEF TablesAreTyped
  <2>3. /\ slug' = [x \in Actors |-> slug'[x]]
        /\ \A x \in Actors \ {a} : slug'[x] = slug[x]
    BY <2>1 DEF TablesAreTyped, TablesAreTotal
  <2>4. /\ begun' = [x \in Actors |-> begun'[x]]
        /\ begun'[a] = {} /\ \A x \in Actors \ {a} : begun'[x] = begun[x]
    BY <2>1 DEF TablesAreTyped, TablesAreTotal
  <2> QED
    BY <1>2, <1>3, <1>5, <2>2, <2>3, <2>4 DEF TablesAreTyped, TablesAreTotal, OthersStay
<1> QED
  BY <1>4, <1>5

(* The step within a transaction.                                            *)
LEMMA Moving ==
    ASSUME TablesAreTyped, NEW a \in Actors, NEW l \in Open, Goto(a, l),
           \/ UNCHANGED slug
           \/ \E s : slug' = [slug EXCEPT ![a] = s],
           \/ UNCHANGED pending
           \/ \E e : pending' = [pending EXCEPT ![a] = @ \cup {e}],
           \/ UNCHANGED begun
           \/ begun' = [begun EXCEPT ![a] = Committed],
           UNCHANGED try
    PROVE  /\ TablesAreTyped' /\ OthersStay(a) /\ pc'[a] = l
           /\ pending[a] \subseteq pending'[a]
<1>1. /\ pc' \in [Actors -> {"idle"} \cup Open \cup Answers]
      /\ pc'[a] = l /\ \A x \in Actors \ {a} : pc'[x] = pc[x]
  BY DEF Goto, TablesAreTyped
<1>2. /\ slug' = [x \in Actors |-> slug'[x]]
      /\ \A x \in Actors \ {a} : slug'[x] = slug[x]
  BY DEF TablesAreTyped, TablesAreTotal
<1>3. /\ pending' = [x \in Actors |-> pending'[x]]
      /\ \A x \in Actors \ {a} : pending'[x] = pending[x]
      /\ pending[a] \subseteq pending'[a]
  BY DEF TablesAreTyped, TablesAreTotal
<1>4. /\ begun' = [x \in Actors |-> begun'[x]]
      /\ \A x \in Actors \ {a} : begun'[x] = begun[x]
  BY DEF TablesAreTyped, TablesAreTotal
<1> QED
  BY <1>1, <1>2, <1>3, <1>4 DEF TablesAreTyped, TablesAreTotal, OthersStay

(* The steps that end a transaction without committing it, and the answers.  *)
Gives(a) ==
    \E l \in Answers \ {"201"} :
      /\ End(a, l) /\ UNCHANGED rows
      /\ l = "conflict" =>
           \/ a \in Registrations /\ pc[a] = "user" /\ EmailEntry(a) \in Committed
           \/ /\ a \in Named /\ pc[a] = "insert" /\ Fits(slug[a])
              /\ SlugEntry(a, slug[a]) \in Committed
      /\ l = "too long" => a \in Named /\ pc[a] = "insert" /\ ~Fits(slug[a])

(* The steps within a transaction, each with what it finds.                  *)
Begins(a) ==
    /\ pc[a] = "idle" /\ UNCHANGED rows
    /\ \/ /\ a \in Registrations /\ EmailEntry(a) \notin Committed /\ Admit(a, "user")
       \/ /\ a \notin Registrations /\ Authenticated(a) /\ Granted(a)
          /\ a \in KeyCreators /\ Admit(a, "commit")
       \/ /\ a \notin Registrations /\ Authenticated(a) /\ Granted(a)
          /\ a \notin KeyCreators /\ Admit(a, "look")

Enters(a, e) ==
    /\ ~Busy(a, e) /\ e \notin Committed
    /\ pending' = [pending EXCEPT ![a] = @ \cup {e}]
    /\ UNCHANGED <<rows, locals>>

EntersUser(a) ==
    a \in Registrations /\ pc[a] = "user" /\ Enters(a, EmailEntry(a)) /\ Goto(a, "look")

EntersSlug(a) ==
    a \in Named /\ pc[a] = "insert" /\ Enters(a, SlugEntry(a, slug[a])) /\ Goto(a, "commit")

(* What a step can be.                                                       *)
LEMMA Kinds ==
    ASSUME NEW a \in Actors, StepOf(a)
    PROVE  \/ Gives(a) \/ Begins(a) \/ EntersUser(a) \/ EntersSlug(a)
           \/ a \in Named /\ (LookFree(a) \/ LookTaken(a) \/ GiveUp(a))
           \/ Commit(a)
<1>0. ASSUME NEW l \in {"404", "409", "500"}, End(a, l), UNCHANGED rows PROVE Gives(a)
  <2>1. l \in Answers \ {"201"} /\ l # "conflict" /\ l # "too long"
    BY <1>0 DEF Answers
  <2> QED
    BY <1>0, <2>1, Zenon DEF Gives
<1>1. CASE a \in Registrations /\ CheckEmail(a)
  <2>1. CASE EmailEntry(a) \in Committed
    BY <1>0, <1>1, <2>1 DEF CheckEmail
  <2>2. CASE EmailEntry(a) \notin Committed
    BY <1>1, <2>2, Zenon DEF CheckEmail, Begins
  <2> QED
    BY <2>1, <2>2
<1>2. CASE a \in Registrations /\ InsertUser(a)
  <2>0. pc[a] = "user" /\ ~Busy(a, EmailEntry(a)) /\ UNCHANGED rows
    BY <1>2 DEF InsertUser
  <2>1. CASE EmailEntry(a) \in Committed
    <3>1. End(a, "conflict")
      BY <1>2, <2>1, Zenon DEF InsertUser
    <3>2. "conflict" \in Answers \ {"201"} /\ "conflict" # "too long"
      BY DEF Answers
    <3> QED
      BY <1>2, <2>0, <2>1, <3>1, <3>2, Zenon DEF Gives
  <2>2. CASE EmailEntry(a) \notin Committed
    BY <1>2, <2>0, <2>2, Zenon DEF InsertUser, EntersUser, Enters
  <2> QED
    BY <2>1, <2>2
<1>3. CASE a \notin Registrations /\ CheckAccess(a)
  <2>0. pc[a] = "idle" /\ Authenticated(a) /\ UNCHANGED rows
    BY <1>3 DEF CheckAccess
  <2>1. CASE ~Granted(a)
    BY <1>0, <1>3, <2>1 DEF CheckAccess
  <2>2. CASE Granted(a) /\ a \in KeyCreators
    BY <1>3, <2>0, <2>2, Zenon DEF CheckAccess, Begins
  <2>3. CASE Granted(a) /\ a \notin KeyCreators
    BY <1>3, <2>0, <2>3, Zenon DEF CheckAccess, Begins
  <2> QED
    BY <2>1, <2>2, <2>3
<1>4. CASE a \in Named /\ Insert(a)
  <2>0. pc[a] = "insert" /\ UNCHANGED rows
    BY <1>4 DEF Insert
  <2>1. CASE ~Fits(slug[a])
    <3>1. End(a, "too long")
      BY <1>4, <2>1, Zenon DEF Insert
    <3>2. "too long" \in Answers \ {"201"} /\ "conflict" # "too long"
      BY DEF Answers
    <3> QED
      BY <1>4, <2>0, <2>1, <3>1, <3>2, Zenon DEF Gives
  <2>2. CASE Fits(slug[a]) /\ SlugEntry(a, slug[a]) \in Committed
    <3>1. End(a, "conflict")
      BY <1>4, <2>2, Zenon DEF Insert
    <3>2. "conflict" \in Answers \ {"201"} /\ "conflict" # "too long"
      BY DEF Answers
    <3> QED
      BY <1>4, <2>0, <2>2, <3>1, <3>2, Zenon DEF Gives
  <2>3. CASE Fits(slug[a]) /\ SlugEntry(a, slug[a]) \notin Committed
    BY <1>4, <2>0, <2>3, Zenon DEF Insert, EntersSlug, Enters
  <2> QED
    BY <2>1, <2>2, <2>3
<1>5. CASE RollBack(a)
  BY <1>0, <1>5 DEF RollBack
<1> QED
  BY <1>1, <1>2, <1>3, <1>4, <1>5 DEF StepOf, Step

(* A step moves one request, which has not been answered.                    *)
LEMMA OneMoves ==
    ASSUME TablesAreTyped, NEW a \in Actors, StepOf(a)
    PROVE  /\ TablesAreTyped' /\ OthersStay(a)
           /\ pc[a] \in {"idle"} \cup Open
           /\ pc'[a] = "201" <=> Commit(a)
           /\ pc'[a] \in Open \/ pending'[a] = {}
           /\ pc'[a] \in Open /\ pc[a] \in Open => pending[a] \subseteq pending'[a]
           /\ Commit(a) \/ UNCHANGED rows
           /\ pc'[a] # "idle"
<1>0. pc[a] \in {"idle"} \cup Open
  <2>1. CASE CheckEmail(a) \/ InsertUser(a) \/ CheckAccess(a) \/ LookFree(a)
    BY <2>1 DEF CheckEmail, InsertUser, CheckAccess, LookFree, Open
  <2>2. CASE LookTaken(a) \/ GiveUp(a) \/ Insert(a) \/ Commit(a) \/ RollBack(a)
    BY <2>2 DEF LookTaken, GiveUp, Insert, Commit, RollBack, Open
  <2> QED
    BY <2>1, <2>2 DEF StepOf, Step
<1>1. CASE Gives(a)
  <2>1. PICK l \in Answers \ {"201"} : End(a, l) /\ UNCHANGED rows
    BY <1>1 DEF Gives
  <2>2. pc'[a] = l /\ pending'[a] = {} /\ TablesAreTyped' /\ OthersStay(a)
    BY <2>1, Ending
  <2>3. ~Commit(a)
    <3>1. Commit(a) => pc'[a] = "201"
      BY Ending DEF Commit, Answers
    <3> QED
      BY <2>1, <2>2, <3>1
  <2> QED
    BY <1>0, <2>1, <2>2, <2>3 DEF Open, Answers
<1>2. CASE Commit(a)
  BY <1>0, <1>2, Ending DEF Commit, Answers, Open
<1>3. CASE Begins(a) \/ EntersUser(a) \/ EntersSlug(a)
  <2>1. PICK l \in Open : /\ Goto(a, l) /\ UNCHANGED <<rows, slug, try>>
                          /\ \/ UNCHANGED pending
                             \/ \E e : pending' = [pending EXCEPT ![a] = @ \cup {e}]
                          /\ \/ UNCHANGED begun
                             \/ begun' = [begun EXCEPT ![a] = Committed]
    BY <1>3 DEF Begins, Admit, EntersUser, EntersSlug, Enters, Open, locals
  <2>2. /\ TablesAreTyped' /\ OthersStay(a) /\ pc'[a] = l
        /\ pending[a] \subseteq pending'[a]
    BY <2>1, Moving
  <2>3. ~Commit(a)
    BY <2>2, Ending DEF Commit, Answers, Open
  <2> QED
    BY <1>0, <2>1, <2>2, <2>3 DEF Open
<1>4. CASE LookFree(a) \/ GiveUp(a)
  <2>1. PICK s : slug' = [slug EXCEPT ![a] = s]
    BY <1>4 DEF LookFree, GiveUp, Settle
  <2>2. "insert" \in Open /\ Goto(a, "insert") /\ UNCHANGED <<rows, try, pending, begun>>
    BY <1>4 DEF LookFree, GiveUp, Settle, Open
  <2>3. TablesAreTyped' /\ OthersStay(a) /\ pc'[a] = "insert"
    BY <2>1, <2>2, Moving
  <2>4. ~Commit(a)
    BY <2>3, Ending DEF Commit, Answers
  <2> QED
    BY <1>0, <2>2, <2>3, <2>4 DEF Open
<1>5. CASE LookTaken(a)
  <2>1. pc[a] = "look" /\ try[a] <= MaxSuffix /\ try' = [try EXCEPT ![a] = @ + 1]
        /\ UNCHANGED <<rows, pc, slug, pending, begun>>
    BY <1>5 DEF LookTaken
  <2>2. /\ try' \in [Actors -> 1..MaxSuffix + 1]
        /\ \A x \in Actors \ {a} : try'[x] = try[x]
    BY <2>1, AccountsAssumption DEF TablesAreTyped
  <2>3. TablesAreTyped' /\ OthersStay(a)
    BY <2>1, <2>2 DEF TablesAreTyped, TablesAreTotal, OthersStay
  <2>4. ~Commit(a)
    BY <2>1 DEF Commit
  <2> QED
    BY <1>0, <2>1, <2>3, <2>4 DEF Open
<1> QED
  BY <1>1, <1>2, <1>3, <1>4, <1>5, Kinds

----------------------------------------------------------------------------
(* The four kinds of requests.                                               *)
LEMMA Requests ==
    /\ Registrations \subseteq Named /\ OrgCreators \subseteq Named
    /\ ProjectCreators \subseteq Named /\ Named \subseteq Actors
    /\ KeyCreators \subseteq Actors /\ Named \cap KeyCreators = {}
    /\ Registrations \cap OrgCreators = {} /\ Registrations \cap ProjectCreators = {}
    /\ OrgCreators \cap ProjectCreators = {}
    /\ \A a \in Actors \ Registrations : UserOf[a] \in Registrations
BY AccountsAssumption DEF Named, Actors

(* The typing part of the invariant.                                         *)
LEMMA Typed == IInv => TablesAreTyped
BY DEF IInv, TypeOK, TablesAreTyped

(* The entries of the rows of a transaction.                                 *)
Entered(a) ==
    (IF a \in Registrations THEN {EmailEntry(a)} ELSE {})
      \cup (IF a \in Named THEN {SlugEntry(a, slug[a])} ELSE {})

(* What a commit writes, and its entries, which it has held.                 *)
LEMMA Committing ==
    ASSUME IInv, NEW a \in Actors, Commit(a)
    PROVE  /\ pc[a] = "commit" /\ pc'[a] = "201" /\ pending'[a] = {}
           /\ users' = IF a \in Registrations
                         THEN users \cup {[id |-> a, email |-> Lower[EmailOf[a]]]} ELSE users
           /\ orgs' = IF a \in Registrations \cup OrgCreators
                        THEN orgs \cup {[id |-> a, slug |-> slug[a]]} ELSE orgs
           /\ members' = IF a \in Registrations \cup OrgCreators
                THEN members \cup {<<IF a \in Registrations THEN a ELSE UserOf[a], a>>}
                ELSE members
           /\ projects' = IF a \in ProjectCreators
                THEN projects \cup {[id |-> a, org |-> OrgOf[a], slug |-> slug[a]]}
                ELSE projects
           /\ keys' = IF a \in KeyCreators
                THEN keys \cup {[id |-> a, project |-> ProjectOf[a]]} ELSE keys
           /\ Entered(a) \subseteq pending[a]
<1>1. pc[a] = "commit" /\ End(a, "201")
  BY DEF Commit
<1>2. pc'[a] = "201" /\ pending'[a] = {}
  BY <1>1, Ending, Typed DEF Answers
<1>3. Entered(a) \subseteq pending[a]
  BY <1>1, Requests DEF Entered, IInv, EntriesAreHeld
<1>4. /\ a \in Registrations \cup OrgCreators =>
           /\ orgs' = orgs \cup {[id |-> a, slug |-> slug[a]]}
           /\ members' = members \cup {<<IF a \in Registrations THEN a ELSE UserOf[a], a>>}
      /\ a \notin Registrations \cup OrgCreators => orgs' = orgs /\ members' = members
  BY Zenon DEF Commit
<1>5. users' = IF a \in Registrations
                 THEN users \cup {[id |-> a, email |-> Lower[EmailOf[a]]]} ELSE users
  BY DEF Commit
<1>6. projects' = IF a \in ProjectCreators
        THEN projects \cup {[id |-> a, org |-> OrgOf[a], slug |-> slug[a]]} ELSE projects
  BY DEF Commit
<1>7. keys' = IF a \in KeyCreators
                THEN keys \cup {[id |-> a, project |-> ProjectOf[a]]} ELSE keys
  BY DEF Commit
<1> QED
  BY <1>1, <1>2, <1>3, <1>4, <1>5, <1>6, <1>7

(* A commit adds its entries to the committed ones.                          *)
LEMMA CommitEnters ==
    ASSUME IInv, NEW a \in Actors, Commit(a)
    PROVE  Committed' = Committed \cup Entered(a)
<1>1. {<<"email", u.email>> : u \in users'} =
        {<<"email", u.email>> : u \in users}
          \cup IF a \in Registrations THEN {EmailEntry(a)} ELSE {}
  <2>1. CASE a \in Registrations
    <3>1. PICK v : v.email = Lower[EmailOf[a]] /\ users' = users \cup {v}
      BY <2>1, Committing
    <3> QED
      BY <2>1, <3>1, Zenon DEF EmailEntry
  <2>2. CASE a \notin Registrations
    BY <2>2, Committing
  <2> QED
    BY <2>1, <2>2
<1>2. {<<"organization", o.slug>> : o \in orgs'} =
        {<<"organization", o.slug>> : o \in orgs}
          \cup IF a \in Registrations \cup OrgCreators THEN {SlugEntry(a, slug[a])} ELSE {}
  <2>1. CASE a \in Registrations \cup OrgCreators
    <3>1. SlugEntry(a, slug[a]) = <<"organization", slug[a]>>
      BY <2>1, Requests DEF SlugEntry
    <3>2. PICK v : v.slug = slug[a] /\ orgs' = orgs \cup {v}
      BY <2>1, Committing
    <3> QED
      BY <2>1, <3>1, <3>2, Zenon
  <2>2. CASE a \notin Registrations \cup OrgCreators
    BY <2>2, Committing
  <2> QED
    BY <2>1, <2>2
<1>3. {<<"project", p.org, p.slug>> : p \in projects'} =
        {<<"project", p.org, p.slug>> : p \in projects}
          \cup IF a \in ProjectCreators THEN {SlugEntry(a, slug[a])} ELSE {}
  <2>1. CASE a \in ProjectCreators
    <3>1. SlugEntry(a, slug[a]) = <<"project", OrgOf[a], slug[a]>>
      BY <2>1 DEF SlugEntry
    <3>2. PICK v : v.org = OrgOf[a] /\ v.slug = slug[a] /\ projects' = projects \cup {v}
      BY <2>1, Committing
    <3> QED
      BY <2>1, <3>1, <3>2, Zenon
  <2>2. CASE a \notin ProjectCreators
    BY <2>2, Committing
  <2> QED
    BY <2>1, <2>2
<1>4. Entered(a) = (IF a \in Registrations THEN {EmailEntry(a)} ELSE {})
        \cup (IF a \in Registrations \cup OrgCreators THEN {SlugEntry(a, slug[a])} ELSE {})
        \cup (IF a \in ProjectCreators THEN {SlugEntry(a, slug[a])} ELSE {})
  BY DEF Entered, Named
<1> QED
  BY <1>1, <1>2, <1>3, <1>4 DEF Committed

(* Nothing that is committed is ever taken away.                             *)
LEMMA RowsGrow ==
    ASSUME IInv, NEW a \in Actors, StepOf(a)
    PROVE  /\ Committed \subseteq Committed' /\ members \subseteq members'
           /\ projects \subseteq projects'
           /\ \A x \in Actors : pc[x] = "201" => pc'[x] = "201"
<1>1. \A x \in Actors : pc[x] = "201" => pc'[x] = "201"
  BY OneMoves, Typed DEF OthersStay, Open
<1>2. CASE UNCHANGED rows
  BY <1>1, <1>2 DEF rows, Committed
<1>3. CASE Commit(a)
  BY <1>1, <1>3, Committing, CommitEnters
<1> QED
  BY <1>2, <1>3, OneMoves, Typed

(* What a transaction comes to hold.                                         *)
LEMMA Holding ==
    ASSUME IInv, NEW a \in Actors, StepOf(a)
    PROVE  \/ pending'[a] \subseteq pending[a]
           \/ \E e : /\ pending'[a] = pending[a] \cup {e} /\ UNCHANGED rows
                     /\ e \notin Committed /\ \A x \in Actors \ {a} : e \notin pending[x]
<1>1. CASE Gives(a)
  <2>1. PICK l \in Answers \ {"201"} : End(a, l)
    BY <1>1 DEF Gives
  <2> QED
    BY <2>1, Ending, Typed
<1>2. ASSUME NEW e, Enters(a, e) PROVE pending'[a] = pending[a] \cup {e}
  BY <1>2, Typed DEF Enters, TablesAreTyped, TablesAreTotal
<1>3. ASSUME NEW e, Enters(a, e)
      PROVE  /\ pending'[a] = pending[a] \cup {e} /\ UNCHANGED rows
             /\ e \notin Committed /\ \A x \in Actors \ {a} : e \notin pending[x]
  BY <1>2, <1>3 DEF Enters, Busy
<1>4. CASE EntersUser(a)
  BY <1>3, <1>4 DEF EntersUser
<1>5. CASE EntersSlug(a)
  BY <1>3, <1>5 DEF EntersSlug
<1>6. CASE Begins(a) \/ LookFree(a) \/ LookTaken(a) \/ GiveUp(a)
  BY <1>6 DEF Begins, Admit, LookFree, LookTaken, GiveUp
<1>7. CASE Commit(a)
  BY <1>7, Committing
<1> QED
  BY <1>1, <1>4, <1>5, <1>6, <1>7, Kinds

(* The part of TypeOK that types the rows.                                   *)
RowsAreTyped ==
    /\ \A u \in users : u.id \in Registrations /\ u.email \in Emails
    /\ \A o \in orgs : o.id \in Registrations \cup OrgCreators
    /\ members \subseteq Registrations \X (Registrations \cup OrgCreators)
    /\ \A p \in projects : p.id \in ProjectCreators /\ p.org = OrgOf[p.id]
    /\ \A k \in keys : k.id \in KeyCreators /\ k.project \in ProjectCreators

(* A committed row is one of its request.                                    *)
LEMMA RowTypes ==
    ASSUME IInv, NEW a \in Actors, Commit(a)
    PROVE  RowsAreTyped'
<1>0. RowsAreTyped
  BY DEF IInv, TypeOK, RowsAreTyped
<1>1. /\ \A r \in Registrations : Lower[EmailOf[r]] \in Emails
      /\ \A k \in KeyCreators : ProjectOf[k] \in ProjectCreators
  BY AccountsAssumption
<1>2. \A u \in users' : u.id \in Registrations /\ u.email \in Emails
  BY <1>0, <1>1, Committing DEF RowsAreTyped
<1>3. \A o \in orgs' : o.id \in Registrations \cup OrgCreators
  BY <1>0, Committing DEF RowsAreTyped
<1>4. members' \subseteq Registrations \X (Registrations \cup OrgCreators)
  BY <1>0, Committing, Requests DEF RowsAreTyped
<1>5. \A p \in projects' : p.id \in ProjectCreators /\ p.org = OrgOf[p.id]
  BY <1>0, Committing DEF RowsAreTyped
<1>6. \A k \in keys' : k.id \in KeyCreators /\ k.project \in ProjectCreators
  BY <1>0, <1>1, Committing DEF RowsAreTyped
<1> QED
  BY <1>2, <1>3, <1>4, <1>5, <1>6 DEF RowsAreTyped

(* The part of TypeOK that says what is unique.                              *)
RowsAreUnique ==
    /\ \A u, v \in users : Lower[EmailOf[u.id]] = Lower[EmailOf[v.id]] => u = v
    /\ \A o, q \in orgs : o.slug = q.slug => o = q
    /\ \A p, q \in projects : p.org = q.org /\ p.slug = q.slug => p = q

(* A committed row is no duplicate: its transaction held its entries, and no *)
(* entry held is a committed one.                                            *)
LEMMA Uniqueness ==
    ASSUME IInv, NEW a \in Actors, Commit(a)
    PROVE  RowsAreUnique'
<1>0. RowsAreUnique
  BY DEF IInv, TypeOK, RowsAreUnique
<1>1. Entered(a) \cap Committed = {}
  BY Committing DEF IInv, EntriesAreHeld
<1>2. \A u, v \in users' : Lower[EmailOf[u.id]] = Lower[EmailOf[v.id]] => u = v
  <2>1. CASE a \in Registrations
    <3>1. EmailEntry(a) \notin Committed
      BY <1>1, <2>1 DEF Entered
    <3>2. \A u \in users : u.email # Lower[EmailOf[a]]
      BY <3>1 DEF EmailEntry, Committed
    <3>3. \A u \in users : Lower[EmailOf[u.id]] # Lower[EmailOf[a]]
      BY <3>2 DEF IInv, RowsAreCommitted
    <3> QED
      BY <1>0, <2>1, <3>3, Committing DEF RowsAreUnique
  <2>2. CASE a \notin Registrations
    BY <1>0, <2>2, Committing DEF RowsAreUnique
  <2> QED
    BY <2>1, <2>2
<1>3. \A o, q \in orgs' : o.slug = q.slug => o = q
  <2>1. CASE a \in Registrations \cup OrgCreators
    <3>1. SlugEntry(a, slug[a]) \notin Committed
      BY <1>1, <2>1, Requests DEF Entered
    <3>2. <<"organization", slug[a]>> \notin Committed
      BY <2>1, <3>1, Requests DEF SlugEntry
    <3>3. \A o \in orgs : o.slug # slug[a]
      BY <3>2 DEF Committed
    <3> QED
      BY <1>0, <2>1, <3>3, Committing DEF RowsAreUnique
  <2>2. CASE a \notin Registrations \cup OrgCreators
    BY <1>0, <2>2, Committing DEF RowsAreUnique
  <2> QED
    BY <2>1, <2>2
<1>4. \A p, q \in projects' : p.org = q.org /\ p.slug = q.slug => p = q
  <2>1. CASE a \in ProjectCreators
    <3>1. SlugEntry(a, slug[a]) \notin Committed
      BY <1>1, <2>1, Requests DEF Entered
    <3>2. <<"project", OrgOf[a], slug[a]>> \notin Committed
      BY <2>1, <3>1 DEF SlugEntry
    <3>3. \A p \in projects : ~(p.org = OrgOf[a] /\ p.slug = slug[a])
      BY <3>2 DEF Committed
    <3> QED
      BY <1>0, <2>1, <3>3, Committing DEF RowsAreUnique
  <2>2. CASE a \notin ProjectCreators
    BY <1>0, <2>2, Committing DEF RowsAreUnique
  <2> QED
    BY <2>1, <2>2
<1> QED
  BY <1>2, <1>3, <1>4 DEF RowsAreUnique

(* The typing part of the induction.                                         *)
LEMMA TypeStep == ASSUME IInv, NEW a \in Actors, StepOf(a) PROVE TypeOK'
<1>1. TablesAreTyped' /\ OthersStay(a) /\ (pc'[a] \in Open \/ pending'[a] = {})
  BY OneMoves, Typed
<1>2. RowsAreTyped' /\ RowsAreUnique'
  <2>1. CASE Commit(a)
    BY <2>1, RowTypes, Uniqueness
  <2>2. CASE UNCHANGED rows
    BY <2>2 DEF rows, IInv, TypeOK, RowsAreTyped, RowsAreUnique
  <2> QED
    BY <2>1, <2>2, OneMoves, Typed
<1>3. \A x \in Actors : pending'[x] # {} => pc'[x] \in Open
  BY <1>1 DEF OthersStay, IInv, TypeOK
<1>4. \A x \in Actors \ {a} : pending'[a] \cap pending[x] = {}
  BY Holding DEF IInv, TypeOK
<1>5. \A x, y \in Actors : x # y => pending'[x] \cap pending'[y] = {}
  BY <1>1, <1>4 DEF OthersStay, IInv, TypeOK
<1> QED
  BY <1>1, <1>2, <1>3, <1>5 DEF TypeOK, TablesAreTyped, RowsAreTyped, RowsAreUnique

----------------------------------------------------------------------------
(* A slug is a base, short enough for a registration, and at most a suffix.  *)
LEMMA BaseShape ==
    ASSUME NEW a \in Named
    PROVE  \E b \in Bases : /\ Base(a) = <<b>> \/ Base(a) = <<b, 2>>
                            /\ a \in Registrations => Size[b] + 1 < MaxSize
<1>1. BaseOf[a] \in UNION {{<<b>>, <<b, 2>>} : b \in Bases}
  BY AccountsAssumption
<1>2. PICK b \in Bases : BaseOf[a] = <<b>> \/ BaseOf[a] = <<b, 2>>
  BY <1>1
<1>3. Head(BaseOf[a]) = b
  BY <1>2
<1>4. Cut[b] \in Bases /\ Size[Cut[b]] + 1 < MaxSize
  BY AccountsAssumption
<1>5. CASE a \in Registrations /\ Cut[b] # b
  BY <1>3, <1>4, <1>5 DEF Base
<1>6. CASE ~(a \in Registrations /\ Cut[b] # b)
  BY <1>2, <1>3, <1>4, <1>6 DEF Base
<1> QED
  BY <1>5, <1>6

(* A suffix behind a short sequence.                                         *)
LEMMA AppendTo ==
    ASSUME NEW b, NEW n
    PROVE  /\ Append(<<b>>, n) = <<b, n>>
           /\ Append(<<b, 2>>, n) = <<b, 2, n>>
<1> DEFINE S == {b, n, 2}
<1>1. Append(<<b>>, n) = <<b, n>>
  <2>1. /\ <<b>> \in Seq(S) /\ <<b, n>> \in Seq(S) /\ Append(<<b>>, n) \in Seq(S)
        /\ Len(<<b>>) = 1 /\ Len(<<b, n>>) = 2
    BY AppendProperties
  <2>2. /\ Len(Append(<<b>>, n)) = 2
        /\ Append(<<b>>, n)[1] = b /\ Append(<<b>>, n)[2] = n
    BY <2>1, AppendProperties
  <2>3. \A i \in 1..2 : Append(<<b>>, n)[i] = <<b, n>>[i]
    BY <2>2
  <2> HIDE DEF S
  <2> QED
    BY <2>1, <2>2, <2>3, SeqEqual
<1>2. Append(<<b, 2>>, n) = <<b, 2, n>>
  <2>1. /\ <<b, 2>> \in Seq(S) /\ <<b, 2, n>> \in Seq(S) /\ Append(<<b, 2>>, n) \in Seq(S)
        /\ Len(<<b, 2>>) = 2 /\ Len(<<b, 2, n>>) = 3
    BY AppendProperties
  <2>2. /\ Len(Append(<<b, 2>>, n)) = 3
        /\ Append(<<b, 2>>, n)[1] = b /\ Append(<<b, 2>>, n)[2] = 2
        /\ Append(<<b, 2>>, n)[3] = n
    BY <2>1, AppendProperties
  <2>3. \A i \in 1..3 : Append(<<b, 2>>, n)[i] = <<b, 2, n>>[i]
    BY <2>2
  <2> HIDE DEF S
  <2> QED
    BY <2>1, <2>2, <2>3, SeqEqual
<1> QED
  BY <1>1, <1>2

(* What a slug looks like.                                                   *)
LEMMA SlugShape ==
    ASSUME NEW a \in Named, NEW s \in Slugs(a)
    PROVE  \E b \in Bases :
             /\ \/ s = <<b>> \/ s = <<b, 2>>
                \/ \E n \in 2..MaxSuffix : s = <<b, n>> \/ s = <<b, 2, n>>
                \/ a \in Registrations /\ (s = <<b, a>> \/ s = <<b, 2, a>>)
             /\ a \in Registrations => Size[b] + 1 < MaxSize
<1>1. PICK b \in Bases : /\ Base(a) = <<b>> \/ Base(a) = <<b, 2>>
                         /\ a \in Registrations => Size[b] + 1 < MaxSize
  BY BaseShape
<1>2. \A n : Append(<<b>>, n) = <<b, n>> /\ Append(<<b, 2>>, n) = <<b, 2, n>>
  BY AppendTo
<1> QED
  BY <1>1, <1>2 DEF Slugs

(* The column has room for every slug a registration settles on.             *)
LEMMA RegistrationsFit ==
    ASSUME NEW a \in Registrations, NEW s \in Slugs(a)
    PROVE  Fits(s)
<1>0. \A b \in Bases : Size[b] \in Nat
  BY AccountsAssumption
<1>1. a \in Named /\ MaxSize \in Nat
  BY Requests, AccountsAssumption
<1>2. PICK b \in Bases :
             /\ \/ s = <<b>> \/ s = <<b, 2>>
                \/ \E n \in 2..MaxSuffix : s = <<b, n>> \/ s = <<b, 2, n>>
                \/ s = <<b, a>> \/ s = <<b, 2, a>>
             /\ Size[b] + 1 < MaxSize
  BY <1>1, SlugShape
<1>3. s[1] = b /\ Len(s) \in {1, 2, 3}
  BY <1>2
<1>4. Head(s) = s[1]
  BY <1>2
<1>5. Size[Head(s)] = Size[b] /\ Size[b] \in Nat
  BY <1>0, <1>3, <1>4
<1>6. ASSUME NEW k \in Nat, NEW n \in {1, 2, 3}, k + 1 < MaxSize
      PROVE  k + n - 1 <= MaxSize
  BY <1>1, <1>6
<1> QED
  BY <1>2, <1>3, <1>5, <1>6 DEF Fits

(* The digits a registration gives up to are in nobody else's slug.          *)
LEMMA OwnDigits ==
    ASSUME NEW a \in Registrations, NEW x \in Named, x # a
    PROVE  Append(Base(a), a) \notin Slugs(x)
<1>1. PICK b \in Bases : Base(a) = <<b>> \/ Base(a) = <<b, 2>>
  BY Requests, BaseShape
<1>2. Append(Base(a), a) = <<b, a>> \/ Append(Base(a), a) = <<b, 2, a>>
  BY <1>1, AppendTo
<1>3. a \notin Nat
  BY AccountsAssumption
<1>4. a # 2 /\ \A n \in 2..MaxSuffix : a # n
  BY <1>3
<1>5. ASSUME NEW s \in Slugs(x), s = Append(Base(a), a) PROVE FALSE
  <2>1. PICK c \in Bases :
             \/ s = <<c>> \/ s = <<c, 2>>
             \/ \E n \in 2..MaxSuffix : s = <<c, n>> \/ s = <<c, 2, n>>
             \/ x \in Registrations /\ (s = <<c, x>> \/ s = <<c, 2, x>>)
    BY SlugShape
  <2> QED
    BY <1>2, <1>4, <1>5, <2>1
<1> QED
  BY <1>5

(* The induction for the slugs.                                              *)
LEMMA SlugStep == ASSUME IInv, NEW a \in Actors, StepOf(a) PROVE SlugsAreOwn'
<1>0. OthersStay(a) /\ TablesAreTyped
  BY OneMoves, Typed
<1>1. Slugs(a) = {Base(a)} \cup {Append(Base(a), n) : n \in 2..MaxSuffix}
        \cup IF a \in Registrations THEN {Append(Base(a), a)} ELSE {}
  BY DEF Slugs
<1>2. ASSUME a \in Named, pc'[a] \in {"insert", "commit"} PROVE slug'[a] \in Slugs(a)
  <2>1. CASE LookFree(a)
    <3>1. try[a] \in 1..MaxSuffix
      <4>1. try[a] <= MaxSuffix /\ try[a] \in 1..MaxSuffix + 1 /\ MaxSuffix \in Nat
        BY <1>0, <2>1, AccountsAssumption DEF LookFree, TablesAreTyped
      <4> QED
        BY <4>1
    <3>2. Candidate(a) \in Slugs(a)
      <4>1. try[a] = 1 \/ try[a] \in 2..MaxSuffix
        BY <3>1
      <4> QED
        BY <1>1, <4>1 DEF Candidate
    <3> QED
      BY <1>0, <2>1, <3>2 DEF LookFree, Settle, TablesAreTyped, TablesAreTotal
  <2>2. CASE GiveUp(a)
    <3>1. slug' = [slug EXCEPT ![a] =
                     IF a \in Registrations THEN Append(Base(a), a) ELSE Base(a)]
      BY <2>2 DEF GiveUp, Settle
    <3> QED
      BY <1>0, <1>1, <3>1 DEF TablesAreTyped, TablesAreTotal
  <2>3. CASE EntersSlug(a)
    BY <1>2, <2>3 DEF EntersSlug, Enters, locals, IInv, SlugsAreOwn
  <2>4. CASE Begins(a) \/ EntersUser(a) \/ LookTaken(a)
    <3>1. pc'[a] = "user" \/ pc'[a] = "look"
      BY <1>0, <1>2, <2>4, Requests
         DEF Begins, Admit, EntersUser, LookTaken, Goto, TablesAreTyped
    <3> QED
      BY <1>2, <3>1
  <2>5. CASE Gives(a) \/ Commit(a)
    <3>1. PICK l \in Answers : End(a, l)
      BY <2>5 DEF Gives, Commit, Answers
    <3> QED
      BY <1>0, <1>2, <3>1, Ending DEF Answers
  <2> QED
    BY <2>1, <2>2, <2>3, <2>4, <2>5, Kinds
<1>3. \A x : Slugs(x)' = Slugs(x)
  BY DEF Slugs, Base
<1>4. \A x \in Named : pc'[x] \in {"insert", "commit"} => slug'[x] \in Slugs(x)
  BY <1>0, <1>2, Requests DEF OthersStay, IInv, SlugsAreOwn
<1>5. \A o \in orgs' : o.slug \in Slugs(o.id)
  <2>1. CASE UNCHANGED rows
    BY <2>1 DEF rows, IInv, SlugsAreOwn
  <2>2. CASE Commit(a) /\ a \in Registrations \cup OrgCreators
    <3>1. slug[a] \in Slugs(a)
      BY <2>2, Requests, Committing DEF IInv, SlugsAreOwn
    <3> QED
      BY <2>2, <3>1, Committing DEF IInv, SlugsAreOwn
  <2>3. CASE Commit(a) /\ a \notin Registrations \cup OrgCreators
    BY <2>3, Committing DEF IInv, SlugsAreOwn
  <2> QED
    BY <2>1, <2>2, <2>3, OneMoves, Typed
<1> QED
  BY <1>3, <1>4, <1>5 DEF SlugsAreOwn

(* The induction for what the looks find.                                    *)
LEMMA LookStep == ASSUME IInv, NEW a \in Actors, StepOf(a) PROVE LooksAreRecent'
<1>0. OthersStay(a) /\ TablesAreTyped /\ TablesAreTyped'
  BY OneMoves, Typed
<1>1. Committed \subseteq Committed'
  BY RowsGrow
<1>2. CASE Gives(a) \/ Commit(a)
  <2>1. PICK l \in Answers : End(a, l)
    BY <1>2 DEF Gives, Commit, Answers
  <2>2. pc'[a] = l /\ begun'[a] \subseteq begun[a]
    BY <1>0, <2>1, Ending
  <2>3. pc'[a] # "user" /\ pc'[a] # "insert"
    BY <2>2 DEF Answers
  <2>4. \A x \in Actors : begun'[x] \subseteq Committed'
    BY <1>0, <1>1, <2>2 DEF OthersStay, IInv, LooksAreRecent
  <2> QED
    BY <1>0, <2>3, <2>4, Requests
       DEF OthersStay, IInv, LooksAreRecent, EmailEntry, SlugEntry
<1>3. CASE Begins(a)
  <2>1. begun'[a] = Committed /\ pc'[a] # "insert"
        /\ (a \in Registrations => EmailEntry(a) \notin Committed)
    BY <1>0, <1>3, Requests
       DEF Begins, Admit, Goto, TablesAreTyped, TablesAreTotal
  <2>2. \A x \in Actors : begun'[x] \subseteq Committed'
    BY <1>0, <1>1, <2>1 DEF OthersStay, IInv, LooksAreRecent
  <2> QED
    BY <1>0, <2>1, <2>2, Requests
       DEF OthersStay, IInv, LooksAreRecent, EmailEntry, SlugEntry
<1>4. CASE EntersUser(a) \/ EntersSlug(a) \/ LookTaken(a)
  <2>1. UNCHANGED <<slug, begun>> /\ pc'[a] # "user" /\ pc'[a] # "insert"
    BY <1>0, <1>4
       DEF EntersUser, EntersSlug, Enters, LookTaken, Goto, locals, TablesAreTyped
  <2>2. \A x \in Actors : begun'[x] \subseteq Committed'
    BY <1>1, <2>1 DEF IInv, LooksAreRecent
  <2> QED
    BY <1>0, <2>1, <2>2, Requests
       DEF OthersStay, IInv, LooksAreRecent, EmailEntry, SlugEntry
<1>5. CASE a \in Named /\ (LookFree(a) \/ GiveUp(a))
  <2>1. /\ UNCHANGED <<rows, begun, try>> /\ pc'[a] = "insert" /\ pc[a] = "look"
        /\ begun[a] \subseteq Committed
    BY <1>0, <1>5 DEF LookFree, GiveUp, Settle, Goto, TablesAreTyped, IInv, LooksAreRecent
  <2>2. \A x \in Actors : begun'[x] \subseteq Committed'
    BY <1>1, <2>1 DEF IInv, LooksAreRecent
  <2>3. \/ SlugEntry(a, slug'[a]) \notin begun[a]
        \/ a \notin Registrations /\ try[a] > MaxSuffix
    <3>1. CASE LookFree(a)
      BY <1>0, <2>1, <3>1 DEF LookFree, Settle, TablesAreTyped, TablesAreTotal
    <3>2. CASE GiveUp(a) /\ a \notin Registrations
      BY <3>2 DEF GiveUp
    <3>3. CASE GiveUp(a) /\ a \in Registrations
      <4>1. slug'[a] = Append(Base(a), a)
        BY <1>0, <3>3 DEF GiveUp, Settle, TablesAreTyped, TablesAreTotal
      <4>2. \A o \in orgs : o.id # a /\ o.id \in Named /\ o.slug \in Slugs(o.id)
        BY <2>1, Requests DEF IInv, TypeOK, RowsAreCommitted, SlugsAreOwn
      <4>3. \A o \in orgs : o.slug # slug'[a]
        BY <3>3, <4>1, <4>2, OwnDigits
      <4>4. SlugEntry(a, slug'[a]) = <<"organization", slug'[a]>>
        BY <3>3, Requests DEF SlugEntry
      <4>5. SlugEntry(a, slug'[a]) \notin Committed
        BY <4>3, <4>4 DEF Committed
      <4> QED
        BY <2>1, <4>5
    <3> QED
      BY <1>5, <3>1, <3>2, <3>3
  <2>4. \A x \in Named : pc'[x] = "insert" =>
          \/ SlugEntry(x, slug'[x]) \notin begun'[x]
          \/ x \notin Registrations /\ try'[x] > MaxSuffix
    BY <1>0, <2>1, <2>3, Requests DEF OthersStay, IInv, LooksAreRecent
  <2>5. \A r \in Registrations : pc'[r] = "user" => EmailEntry(r) \notin begun'[r]
    BY <1>0, <2>1, Requests DEF OthersStay, IInv, LooksAreRecent
  <2> QED
    BY <2>2, <2>4, <2>5 DEF LooksAreRecent, EmailEntry, SlugEntry
<1> QED
  BY <1>2, <1>3, <1>4, <1>5, Kinds

(* The induction for the rows and their requests.                            *)
LEMMA RowStep == ASSUME IInv, NEW a \in Actors, StepOf(a) PROVE RowsAreCommitted'
<1>1. CASE UNCHANGED rows
  BY <1>1, RowsGrow, Requests DEF rows, IInv, TypeOK, RowsAreCommitted
<1>2. CASE Commit(a)
  <2>1. \A u \in users' : u.email = Lower[EmailOf[u.id]]
    BY <1>2, Committing DEF IInv, RowsAreCommitted
  <2>2. \A o \in orgs' : pc'[o.id] = "201"
    BY <1>2, Committing, RowsGrow, Requests DEF IInv, TypeOK, RowsAreCommitted
  <2> QED
    BY <2>1, <2>2 DEF RowsAreCommitted
<1> QED
  BY <1>1, <1>2, OneMoves, Typed

(* The induction for the entries of the unique constraints.                  *)
LEMMA EntryStep == ASSUME IInv, NEW a \in Actors, StepOf(a) PROVE EntriesAreHeld'
<1>0. OthersStay(a) /\ TablesAreTyped /\ TablesAreTyped'
  BY OneMoves, Typed
<1>1. \A x \in Actors : pending'[x] \cap Committed' = {}
  <2>1. CASE Commit(a)
    <3>1. pending'[a] = {} /\ Committed' = Committed \cup Entered(a)
          /\ Entered(a) \subseteq pending[a]
      BY <2>1, Committing, CommitEnters
    <3>2. \A x \in Actors \ {a} : pending[x] \cap Entered(a) = {}
      BY <3>1 DEF IInv, TypeOK
    <3> QED
      BY <1>0, <3>1, <3>2 DEF OthersStay, IInv, EntriesAreHeld
  <2>2. CASE UNCHANGED rows
    <3>1. Committed' = Committed
      BY <2>2 DEF rows, Committed
    <3>2. pending'[a] \cap Committed = {}
      BY Holding DEF IInv, EntriesAreHeld
    <3> QED
      BY <1>0, <3>1, <3>2 DEF OthersStay, IInv, EntriesAreHeld
  <2> QED
    BY <2>1, <2>2, OneMoves, Typed
<1>2. ASSUME a \in Registrations, pc'[a] \in {"look", "insert", "commit"}
      PROVE  EmailEntry(a) \in pending'[a]
  <2>1. CASE EntersUser(a)
    BY <1>0, <2>1 DEF EntersUser, Enters, TablesAreTyped, TablesAreTotal
  <2>2. CASE Begins(a)
    <3>1. pc'[a] = "user"
      BY <1>0, <1>2, <2>2, Requests DEF Begins, Admit, Goto, TablesAreTyped
    <3> QED
      BY <1>2, <3>1
  <2>3. CASE EntersSlug(a) \/ LookFree(a) \/ LookTaken(a) \/ GiveUp(a)
    <3>1. pc[a] \in {"look", "insert"} /\ pc'[a] \in Open /\ pc[a] \in Open
      BY <1>2, <2>3 DEF EntersSlug, LookFree, LookTaken, GiveUp, Open
    <3> QED
      BY <1>0, <1>2, <3>1, OneMoves DEF IInv, EntriesAreHeld
  <2>4. CASE Gives(a) \/ Commit(a)
    <3>1. PICK l \in Answers : End(a, l)
      BY <2>4 DEF Gives, Commit, Answers
    <3> QED
      BY <1>0, <1>2, <3>1, Ending DEF Answers
  <2> QED
    BY <2>1, <2>2, <2>3, <2>4, Kinds
<1>3. ASSUME a \in Named, pc'[a] = "commit"
      PROVE  SlugEntry(a, slug'[a]) \in pending'[a]
  <2>1. CASE EntersSlug(a)
    BY <1>0, <2>1 DEF EntersSlug, Enters, locals, TablesAreTyped, TablesAreTotal
  <2>2. CASE Gives(a) \/ Commit(a)
    <3>1. PICK l \in Answers : End(a, l)
      BY <2>2 DEF Gives, Commit, Answers
    <3> QED
      BY <1>0, <1>3, <3>1, Ending DEF Answers
  <2>3. CASE Begins(a) \/ EntersUser(a) \/ LookFree(a) \/ LookTaken(a) \/ GiveUp(a)
    <3>1. pc'[a] # "commit"
      BY <1>0, <1>3, <2>3, Requests
         DEF Begins, Admit, EntersUser, LookFree, LookTaken, GiveUp, Settle, Goto,
             TablesAreTyped
    <3> QED
      BY <1>3, <3>1
  <2> QED
    BY <2>1, <2>2, <2>3, Kinds
<1>4. \A r \in Registrations : pc'[r] \in {"look", "insert", "commit"} =>
        EmailEntry(r) \in pending'[r]
  BY <1>0, <1>2, Requests DEF OthersStay, IInv, EntriesAreHeld
<1>5. \A x \in Named : pc'[x] = "commit" => SlugEntry(x, slug'[x]) \in pending'[x]
  BY <1>0, <1>3, Requests DEF OthersStay, IInv, EntriesAreHeld
<1> QED
  BY <1>1, <1>4, <1>5 DEF EntriesAreHeld, EmailEntry, SlugEntry

(* The induction for what requests were granted: memberships and projects    *)
(* only grow, and a user's registration stays finished.                      *)
LEMMA AccessStep == ASSUME IInv, NEW a \in Actors, StepOf(a) PROVE AccessHolds'
<1>0. OthersStay(a) /\ TablesAreTyped
  BY OneMoves, Typed
<1>1. ASSUME NEW x \in Actors \ Registrations, Authenticated(x), Granted(x)
      PROVE  Authenticated(x)' /\ Granted(x)'
  <2>1. UserOf[x] \in Actors
    BY Requests
  <2>2. Authenticated(x)'
    BY <1>1, <2>1, RowsGrow DEF Authenticated
  <2>3. Granted(x)'
    BY <1>1, RowsGrow DEF Granted, IsMember, HasProject
  <2> QED
    BY <2>2, <2>3
<1>2. ASSUME a \notin Registrations, pc'[a] \in Open PROVE Authenticated(a) /\ Granted(a)
  <2>1. CASE Begins(a)
    BY <1>2, <2>1 DEF Begins
  <2>2. CASE pc[a] # "idle"
    <3>1. pc[a] \in Open
      BY <2>2, OneMoves, Typed
    <3> QED
      BY <1>2, <3>1 DEF IInv, AccessHolds
  <2>3. CASE Gives(a)
    <3>1. PICK l \in Answers : End(a, l)
      BY <2>3 DEF Gives
    <3> QED
      BY <1>0, <1>2, <3>1, Ending DEF Answers, Open
  <2>4. Begins(a) \/ pc[a] # "idle" \/ Gives(a)
    BY Kinds DEF EntersUser, EntersSlug, LookFree, LookTaken, GiveUp, Commit
  <2> QED
    BY <2>1, <2>2, <2>3, <2>4
<1>3. \A x \in Actors \ Registrations : pc'[x] \in Open => Authenticated(x) /\ Granted(x)
  BY <1>0, <1>2 DEF OthersStay, IInv, AccessHolds
<1> QED
  BY <1>1, <1>3 DEF AccessHolds

(* The induction for the accounts.                                           *)
LEMMA WholeStep == ASSUME IInv, NEW a \in Actors, StepOf(a) PROVE AccountsAreWhole'
<1>0. OthersStay(a) /\ pc[a] # "201"
  BY OneMoves, Typed DEF Open
<1>1. CASE ~Commit(a)
  <2>1. UNCHANGED rows /\ pc'[a] # "201"
    BY <1>1, OneMoves, Typed
  <2> QED
    BY <1>0, <2>1, Requests DEF OthersStay, rows, IInv, AccountsAreWhole
<1>2. CASE Commit(a)
  <2>1. pc'[a] = "201"
    BY <1>2, Committing
  <2>2. ASSUME NEW r \in Registrations
        PROVE  /\ (\E u \in users' : u.id = r) <=> pc'[r] = "201"
               /\ (\E o \in orgs' : o.id = r) <=> pc'[r] = "201"
               /\ <<r, r>> \in members' <=> pc'[r] = "201"
    <3>1. CASE r = a
      <4>1. PICK u : u.id = a /\ u \in users'
        BY <1>2, <3>1, Committing
      <4>2. PICK o : o.id = a /\ o \in orgs'
        BY <1>2, <3>1, Committing
      <4>3. <<r, r>> \in members'
        BY <1>2, <3>1, Committing
      <4> QED
        BY <2>1, <3>1, <4>1, <4>2, <4>3
    <3>2. CASE r # a
      <4>1. pc'[r] = pc[r]
        BY <1>0, <3>2, Requests DEF OthersStay
      <4>2. (\E u \in users' : u.id = r) <=> \E u \in users : u.id = r
        BY <1>2, <3>2, Committing
      <4>3. (\E o \in orgs' : o.id = r) <=> \E o \in orgs : o.id = r
        BY <1>2, <3>2, Committing
      <4>4. <<r, r>> \in members' <=> <<r, r>> \in members
        BY <1>2, <3>2, Committing
      <4> QED
        BY <4>1, <4>2, <4>3, <4>4 DEF IInv, AccountsAreWhole
    <3> QED
      BY <3>1, <3>2
  <2>3. ASSUME NEW o \in orgs' PROVE \E u \in users' : <<u.id, o.id>> \in members'
    <3>1. users \subseteq users' /\ members \subseteq members'
      BY <1>2, Committing
    <3>2. CASE o \in orgs
      BY <3>1, <3>2 DEF IInv, AccountsAreWhole
    <3>3. CASE o \notin orgs
      <4>1. o.id = a /\ a \in Registrations \cup OrgCreators
        BY <1>2, <3>3, Committing
      <4>2. CASE a \in Registrations
        BY <2>1, <2>2, <4>1, <4>2
      <4>3. CASE a \in OrgCreators
        <5>1. a \in Actors \ Registrations /\ UserOf[a] \in Registrations
          BY <4>3, Requests
        <5>2. pc[UserOf[a]] = "201"
          BY <1>2, <5>1, Committing DEF IInv, AccessHolds, Authenticated, Open
        <5>3. \E u \in users : u.id = UserOf[a]
          BY <5>1, <5>2 DEF IInv, AccountsAreWhole
        <5>4. <<UserOf[a], a>> \in members'
          BY <1>2, <4>3, <5>1, Committing
        <5> QED
          BY <3>1, <4>1, <5>3, <5>4
      <4> QED
        BY <4>1, <4>2, <4>3
    <3> QED
      BY <3>2, <3>3
  <2> QED
    BY <2>2, <2>3 DEF AccountsAreWhole
<1> QED
  BY <1>1, <1>2

(* The induction for the tenants.                                            *)
LEMMA TenantStep == ASSUME IInv, NEW a \in Actors, StepOf(a) PROVE TenantsAreSeparate'
<1>1. CASE ~Commit(a)
  BY <1>1, OneMoves, Typed DEF rows, IInv, TenantsAreSeparate
<1>2. CASE Commit(a)
  <2>1. members \subseteq members' /\ projects \subseteq projects'
    BY <1>2, Committing
  <2>2. a \notin Registrations => Granted(a)
    BY <1>2, Committing DEF IInv, AccessHolds, Open
  <2>3. \A p \in projects' : <<UserOf[p.id], p.org>> \in members'
    <3>1. CASE a \in ProjectCreators
      <4>1. <<UserOf[a], OrgOf[a]>> \in members
        BY <2>2, <3>1, Requests DEF Granted, IsMember
      <4> QED
        BY <1>2, <2>1, <3>1, <4>1, Committing DEF IInv, TenantsAreSeparate
    <3>2. CASE a \notin ProjectCreators
      BY <1>2, <2>1, <3>2, Committing DEF IInv, TenantsAreSeparate
    <3> QED
      BY <3>1, <3>2
  <2>4. \A k \in keys' : \E p \in projects' :
          p.id = k.project /\ <<UserOf[k.id], p.org>> \in members'
    <3>1. CASE a \in KeyCreators
      <4>1. PICK p \in projects : p.id = ProjectOf[a] /\ p.org = OrgOf[a]
        BY <2>2, <3>1, Requests DEF Granted, HasProject
      <4>2. <<UserOf[a], OrgOf[a]>> \in members
        BY <2>2, <3>1, Requests DEF Granted, IsMember
      <4>3. keys' = keys \cup {[id |-> a, project |-> ProjectOf[a]]}
        BY <1>2, <3>1, Committing
      <4>4. \A k \in keys : \E q \in projects' :
              q.id = k.project /\ <<UserOf[k.id], q.org>> \in members'
        BY <2>1 DEF IInv, TenantsAreSeparate
      <4>5. p \in projects' /\ p.id = ProjectOf[a] /\ <<UserOf[a], p.org>> \in members'
        BY <2>1, <4>1, <4>2
      <4>6. \A k \in keys' : k \in keys \/ (k.id = a /\ k.project = ProjectOf[a])
        BY <4>3
      <4>7. ASSUME NEW k \in keys'
            PROVE  \E q \in projects' :
                     q.id = k.project /\ <<UserOf[k.id], q.org>> \in members'
        <5>1. CASE k \in keys
          BY <4>4, <5>1
        <5>2. CASE k.id = a /\ k.project = ProjectOf[a]
          BY <4>5, <5>2
        <5> QED
          BY <4>6, <5>1, <5>2
      <4> QED
        BY <4>7
    <3>2. CASE a \notin KeyCreators
      BY <1>2, <2>1, <3>2, Committing DEF IInv, TenantsAreSeparate
    <3> QED
      BY <3>1, <3>2
  <2> QED
    BY <2>3, <2>4 DEF TenantsAreSeparate
<1> QED
  BY <1>1, <1>2

(* The induction for the conflicts.                                          *)
LEMMA ConflictStep == ASSUME IInv, NEW a \in Actors, StepOf(a) PROVE ConflictsAreRaces'
<1>0. OthersStay(a) /\ TablesAreTyped /\ Committed \subseteq Committed'
  BY OneMoves, Typed, RowsGrow
<1>1. CASE Gives(a)
  <2>1. PICK l \in Answers \ {"201"} :
          /\ End(a, l) /\ UNCHANGED rows
          /\ l = "conflict" =>
               \/ a \in Registrations /\ pc[a] = "user" /\ EmailEntry(a) \in Committed
               \/ /\ a \in Named /\ pc[a] = "insert" /\ Fits(slug[a])
                  /\ SlugEntry(a, slug[a]) \in Committed
          /\ l = "too long" => a \in Named /\ pc[a] = "insert" /\ ~Fits(slug[a])
    BY <1>1, Zenon DEF Gives
  <2>2. pc'[a] = l /\ (l = "conflict" => UNCHANGED locals)
    BY <1>0, <2>1, Ending
  <2>3. ASSUME pc'[a] = "conflict"
        PROVE  \/ a \in Registrations /\ EmailEntry(a) \in Committed' \ begun'[a]
               \/ SlugEntry(a, slug'[a]) \in Committed' \ begun'[a]
               \/ a \notin Registrations /\ try'[a] > MaxSuffix
    <3>1. UNCHANGED <<slug, begun, try>>
      BY <2>2, <2>3 DEF locals
    <3>2. CASE a \in Registrations /\ pc[a] = "user" /\ EmailEntry(a) \in Committed
      BY <1>0, <3>1, <3>2 DEF IInv, LooksAreRecent
    <3>3. CASE a \in Named /\ pc[a] = "insert" /\ SlugEntry(a, slug[a]) \in Committed
      BY <1>0, <3>1, <3>3 DEF IInv, LooksAreRecent
    <3> QED
      BY <2>1, <2>2, <2>3, <3>2, <3>3
  <2>4. ASSUME pc'[a] = "too long" PROVE a \notin Registrations
    <3>1. a \in Named /\ pc[a] = "insert" /\ ~Fits(slug[a])
      BY <2>1, <2>2, <2>4
    <3>2. slug[a] \in Slugs(a)
      BY <3>1 DEF IInv, SlugsAreOwn
    <3> QED
      BY <3>1, <3>2, RegistrationsFit
  <2>5. ASSUME NEW x \in Named
        PROVE  /\ pc'[x] = "conflict" =>
                    \/ x \in Registrations /\ EmailEntry(x) \in Committed' \ begun'[x]
                    \/ SlugEntry(x, slug'[x]) \in Committed' \ begun'[x]
                    \/ x \notin Registrations /\ try'[x] > MaxSuffix
               /\ pc'[x] = "too long" => x \notin Registrations
    <3>1. CASE x = a
      BY <2>3, <2>4, <3>1
    <3>2. CASE x # a
      BY <1>0, <3>2, Requests DEF OthersStay, IInv, ConflictsAreRaces
    <3> QED
      BY <3>1, <3>2
  <2> QED
    BY <2>5 DEF ConflictsAreRaces, EmailEntry, SlugEntry
<1>2. CASE ~Gives(a)
  <2>1. pc'[a] # "conflict" /\ pc'[a] # "too long"
    <3>1. CASE Begins(a) \/ EntersUser(a) \/ EntersSlug(a)
      BY <1>0, <3>1 DEF Begins, Admit, EntersUser, EntersSlug, Goto, TablesAreTyped
    <3>2. CASE LookFree(a) \/ LookTaken(a) \/ GiveUp(a)
      BY <1>0, <3>2 DEF LookFree, LookTaken, GiveUp, Settle, Goto, TablesAreTyped
    <3>3. CASE Commit(a)
      BY <3>3, Committing
    <3> QED
      BY <1>2, <3>1, <3>2, <3>3, Kinds
  <2>2. ASSUME NEW x \in Named
        PROVE  /\ pc'[x] = "conflict" =>
                    \/ x \in Registrations /\ EmailEntry(x) \in Committed' \ begun'[x]
                    \/ SlugEntry(x, slug'[x]) \in Committed' \ begun'[x]
                    \/ x \notin Registrations /\ try'[x] > MaxSuffix
               /\ pc'[x] = "too long" => x \notin Registrations
    <3>1. CASE x = a
      BY <2>1, <3>1
    <3>2. CASE x # a
      BY <1>0, <3>2, Requests DEF OthersStay, IInv, ConflictsAreRaces
    <3> QED
      BY <3>1, <3>2
  <2> QED
    BY <2>2 DEF ConflictsAreRaces, EmailEntry, SlugEntry
<1> QED
  BY <1>1, <1>2

----------------------------------------------------------------------------
(* The invariant holds at the start.                                         *)
LEMMA Initially == Init => IInv
<1> SUFFICES ASSUME Init PROVE IInv
  OBVIOUS
<1> USE DEF Init
<1>1. TypeOK
  <2>1. 1 \in 1..MaxSuffix + 1
    BY AccountsAssumption
  <2> QED
    BY <2>1 DEF TypeOK
<1>2. Committed = {}
  BY DEF Committed
<1>3. TablesAreTotal /\ RowsAreCommitted
  BY DEF TablesAreTotal, RowsAreCommitted
<1>4. EntriesAreHeld /\ AccessHolds /\ LooksAreRecent /\ SlugsAreOwn
  BY <1>2, Requests DEF EntriesAreHeld, AccessHolds, LooksAreRecent, SlugsAreOwn, Open
<1>5. AccountsAreWhole /\ TenantsAreSeparate /\ ConflictsAreRaces
  BY <1>2, Requests DEF AccountsAreWhole, TenantsAreSeparate, ConflictsAreRaces
<1> QED
  BY <1>1, <1>3, <1>4, <1>5 DEF IInv

(* Nothing changes when nothing happens.                                     *)
LEMMA Stuttering == IInv /\ UNCHANGED vars => IInv'
<1> SUFFICES ASSUME IInv, UNCHANGED vars PROVE IInv'
  OBVIOUS
<1> USE DEF vars, rows, locals, IInv
<1>1. TypeOK' /\ TablesAreTotal' /\ RowsAreCommitted' /\ AccountsAreWhole'
      /\ TenantsAreSeparate'
  BY DEF TypeOK, TablesAreTotal, RowsAreCommitted, AccountsAreWhole, TenantsAreSeparate
<1>2. Committed' = Committed
  BY DEF Committed
<1>3. /\ \A x : Slugs(x)' = Slugs(x) /\ EmailEntry(x)' = EmailEntry(x)
      /\ \A x : SlugEntry(x, slug[x])' = SlugEntry(x, slug[x])
      /\ \A x : Authenticated(x)' = Authenticated(x) /\ Granted(x)' = Granted(x)
  BY DEF Slugs, Base, EmailEntry, SlugEntry, Authenticated, Granted, IsMember, HasProject
<1>4. EntriesAreHeld' /\ AccessHolds' /\ LooksAreRecent' /\ SlugsAreOwn'
  BY <1>2, <1>3 DEF EntriesAreHeld, AccessHolds, LooksAreRecent, SlugsAreOwn
<1>5. ConflictsAreRaces'
  BY <1>2, <1>3 DEF ConflictsAreRaces
<1> QED
  BY <1>1, <1>4, <1>5

(* The invariant is inductive.                                               *)
LEMMA Invariance == Spec => []IInv
<1>1. ASSUME IInv, NEW a \in Actors, StepOf(a) PROVE IInv'
  <2>1. TablesAreTotal'
    BY <1>1, OneMoves, Typed DEF TablesAreTyped
  <2> QED
    BY <1>1, <2>1, TypeStep, RowStep, EntryStep, AccessStep, LookStep, SlugStep, WholeStep,
       TenantStep, ConflictStep DEF IInv
<1>2. IInv /\ [Next]_vars => IInv'
  BY <1>1, Stuttering DEF Next, StepOf
<1> QED
  BY <1>2, Initially, PTL DEF Spec

(* Every reachable state is well typed, no two accounts share an address and *)
(* no two organizations, or projects of one, a slug, however requests race.  *)
THEOREM TypeCorrect == Spec => []TypeOK
<1>1. IInv => TypeOK
  BY DEF IInv
<1> QED
  BY <1>1, Invariance, PTL

(* A registration leaves a user, an organization and a membership, or none   *)
(* of them; and every organization has an owner that exists.                 *)
THEOREM WholeOrNothing == Spec => []AccountsAreWhole
<1>1. IInv => AccountsAreWhole
  BY DEF IInv
<1> QED
  BY <1>1, Invariance, PTL

(* No project and no key is ever created in an organization its creator is   *)
(* not a member of.                                                          *)
THEOREM TenantsStaySeparate == Spec => []TenantsAreSeparate
<1>1. IInv => TenantsAreSeparate
  BY DEF IInv
<1> QED
  BY <1>1, Invariance, PTL

(* A request fails on a unique constraint only for an entry committed after  *)
(* it began, unless it had found all its suffixes taken; and the slug of a   *)
(* registration always fits its column.                                      *)
THEOREM ConflictsNeedRaces == Spec => []ConflictsAreRaces
<1>1. IInv => ConflictsAreRaces
  BY DEF IInv
<1> QED
  BY <1>1, Invariance, PTL
=============================================================================
