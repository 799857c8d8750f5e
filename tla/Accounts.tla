------------------------------ MODULE Accounts ------------------------------
(* Accounts and tenants: AuthService.register, OrganizationService.create,   *)
(* ProjectService.create and ApiKeyService.create as concurrent transactions *)
(* on users, organizations, user_organizations, projects and api_keys.       *)
(*                                                                           *)
(* The services look before they insert (email_exists, slug_exists), each    *)
(* look a statement of its own that sees committed rows.  What decides is    *)
(* the unique constraint: a pending INSERT holds its entry, another INSERT   *)
(* of that entry waits for it and fails if the first commits.                *)
(*                                                                           *)
(* A slug is the sequence of a base name and of the suffixes put behind it:  *)
(* <<b>> is "acme", <<b, 2>> is "acme-2".  The ids of rows are those of the  *)
(* requests that insert them.                                                *)
EXTENDS Naturals, Sequences, FiniteSets

CONSTANTS
    Registrations,  \* POST /auth/register
    OrgCreators,    \* POST /organizations
    ProjectCreators,\* POST /organizations/{org}/projects
    KeyCreators,    \* POST /organizations/{org}/projects/{project}/api-keys
    Emails,
    EmailOf,        \* Registrations -> Emails, as typed
    Lower,          \* Emails -> Emails, str.lower
    BaseOf,         \* the slug asked for, or what _slugify makes of the name
    Size,           \* base -> its length
    Cut,            \* base -> its first 90 characters
    MaxSize,        \* the length of the slug columns
    MaxSuffix,      \* the last suffix tried, 99
    UserOf,         \* request with a token -> the registration it is from
    OrgOf,          \* ProjectCreators \cup KeyCreators -> organization id
    ProjectOf       \* KeyCreators -> project id

Named == Registrations \cup OrgCreators \cup ProjectCreators
Actors == Named \cup KeyCreators
Bases == DOMAIN Size

ASSUME AccountsAssumption ==
    /\ Registrations \cap (OrgCreators \cup ProjectCreators \cup KeyCreators) = {}
    /\ OrgCreators \cap (ProjectCreators \cup KeyCreators) = {}
    /\ ProjectCreators \cap KeyCreators = {}
    /\ Registrations \cap Nat = {}    \* its digits are no suffix anybody tries
    /\ EmailOf \in [Registrations -> Emails]
    /\ Lower \in [Emails -> Emails]
    /\ \A e \in Emails : Lower[Lower[e]] = Lower[e]
    /\ BaseOf \in [Named -> UNION {{<<b>>, <<b, 2>>} : b \in Bases}]
    /\ Size \in [Bases -> Nat] /\ Cut \in [Bases -> Bases]
    /\ MaxSize \in Nat /\ MaxSuffix \in Nat \ {0}
    /\ \A b \in Bases : Size[Cut[b]] + 1 < MaxSize
    /\ UserOf \in [Actors \ Registrations -> Registrations]
    /\ OrgOf \in [ProjectCreators \cup KeyCreators -> Registrations \cup OrgCreators]
    /\ ProjectOf \in [KeyCreators -> ProjectCreators]

VARIABLES
    users,      \* committed rows: [id, email]
    orgs,       \* [id, slug]
    members,    \* <<user, organization>>, all of them owners
    projects,   \* [id, org, slug]
    keys,       \* [id, project]
    pc,         \* the next statement of each request, or its answer
    try,        \* the suffix its next look is for; 1 is the bare slug
    slug,       \* the slug it settled on
    pending,    \* the unique entries its open transaction has inserted
    begun       \* the entries committed when it began

rows == <<users, orgs, members, projects, keys>>
locals == <<try, slug, begun>>
vars == <<rows, pc, pending, locals>>

Open == {"user", "look", "insert", "commit"}

(* "500" is any failure; the two others are answered 500 as well.            *)
Answers == {"201", "404", "409", "500", "conflict", "too long"}

(* Entries of the unique constraints: users.email, organizations.slug,       *)
(* uq_project_org_slug.                                                      *)
EmailEntry(r) == <<"email", Lower[EmailOf[r]]>>
SlugEntry(a, s) ==
    IF a \in ProjectCreators THEN <<"project", OrgOf[a], s>> ELSE <<"organization", s>>

Committed ==
    {<<"email", u.email>> : u \in users} \cup {<<"organization", o.slug>> : o \in orgs}
      \cup {<<"project", p.org, p.slug>> : p \in projects}

(* Types; only a request in progress holds entries, never two the same; and   *)
(* two accounts never share an e-mail address, however it was typed, nor two  *)
(* organizations or two projects of one organization a slug.                  *)
TypeOK ==
    /\ \A u \in users : u.id \in Registrations /\ u.email \in Emails
    /\ \A o \in orgs : o.id \in Registrations \cup OrgCreators
    /\ members \subseteq Registrations \X (Registrations \cup OrgCreators)
    /\ \A p \in projects : p.id \in ProjectCreators /\ p.org = OrgOf[p.id]
    /\ \A k \in keys : k.id \in KeyCreators /\ k.project \in ProjectCreators
    /\ pc \in [Actors -> {"idle"} \cup Open \cup Answers]
    /\ try \in [Actors -> 1..MaxSuffix + 1]
    /\ \A a \in Actors : pending[a] # {} => pc[a] \in Open
    /\ \A a, b \in Actors : a # b => pending[a] \cap pending[b] = {}
    /\ \A u, v \in users : Lower[EmailOf[u.id]] = Lower[EmailOf[v.id]] => u = v
    /\ \A o, q \in orgs : o.slug = q.slug => o = q
    /\ \A p, q \in projects : p.org = q.org /\ p.slug = q.slug => p = q

Init ==
    /\ users = {} /\ orgs = {} /\ members = {} /\ projects = {} /\ keys = {}
    /\ pc = [a \in Actors |-> "idle"]
    /\ try = [a \in Actors |-> 1]
    /\ slug = [a \in Actors |-> <<>>]
    /\ pending = [a \in Actors |-> {}]
    /\ begun = [a \in Actors |-> {}]

Goto(a, l) == pc' = [pc EXCEPT ![a] = l]

(* The end of a transaction, with its answer.  What the handler remembered   *)
(* is gone, but kept here for a conflict, of which a property speaks.        *)
End(a, answer) ==
    /\ Goto(a, answer)
    /\ pending' = [pending EXCEPT ![a] = {}]
    /\ IF answer = "conflict" THEN UNCHANGED locals
       ELSE /\ try' = [try EXCEPT ![a] = 1]
            /\ slug' = [slug EXCEPT ![a] = <<>>]
            /\ begun' = [begun EXCEPT ![a] = {}]

Busy(a, e) == \E x \in Actors \ {a} : e \in pending[x]

----------------------------------------------------------------------------
(* The beginning of each request.                                            *)

Admit(a, next) ==
    /\ Goto(a, next)
    /\ begun' = [begun EXCEPT ![a] = Committed]
    /\ UNCHANGED <<try, slug, pending>>

(* register: email_exists looks for the lower-cased address.                 *)
CheckEmail(r) ==
    /\ pc[r] = "idle"
    /\ IF EmailEntry(r) \in Committed THEN End(r, "409") ELSE Admit(r, "user")
    /\ UNCHANGED rows

(* UserRepository.create.                                                    *)
InsertUser(r) ==
    /\ pc[r] = "user"
    /\ ~Busy(r, EmailEntry(r))
    /\ IF EmailEntry(r) \in Committed
         THEN End(r, "conflict")
         ELSE /\ pending' = [pending EXCEPT ![r] = @ \cup {EmailEntry(r)}]
              /\ Goto(r, "look")
              /\ UNCHANGED locals
    /\ UNCHANGED rows

(* get_current_user: the token is the one of a finished registration, and no *)
(* code deletes or disables a user, so the user is found.                    *)
Authenticated(a) == pc[UserOf[a]] = "201"

(* _require_org_access and _require_project_access; memberships and projects *)
(* only grow, so their two looks are one step.                               *)
IsMember(a) == <<UserOf[a], OrgOf[a]>> \in members

HasProjectAnywhere(k) == \E p \in projects : p.id = ProjectOf[k]

HasProject(k) == \E p \in projects : p.id = ProjectOf[k] /\ p.org = OrgOf[k]

Granted(a) ==
    /\ a \in ProjectCreators \cup KeyCreators => IsMember(a)
    /\ a \in KeyCreators => HasProject(a)

CheckAccess(a) ==
    /\ pc[a] = "idle"
    /\ Authenticated(a)
    /\ IF ~Granted(a) THEN End(a, "404")
       ELSE Admit(a, IF a \in KeyCreators THEN "commit" ELSE "look")
    /\ UNCHANGED rows

----------------------------------------------------------------------------
(* The slug.                                                                 *)

BaseUncut(a) == BaseOf[a]

(* _make_unique_slug cuts the base, the other two services do not.           *)
Base(a) ==
    LET b == Head(BaseOf[a]) IN
    IF a \in Registrations /\ Cut[b] # b THEN <<Cut[b]>> ELSE BaseOf[a]

Candidate(a) == IF try[a] = 1 THEN Base(a) ELSE Append(Base(a), try[a])

Settle(a, s) ==
    /\ slug' = [slug EXCEPT ![a] = s]
    /\ Goto(a, "insert")

(* slug_exists, slug_exists_in_org: one look.                                *)
LookFree(a) ==
    /\ pc[a] = "look" /\ try[a] <= MaxSuffix
    /\ SlugEntry(a, Candidate(a)) \notin Committed
    /\ Settle(a, Candidate(a))
    /\ UNCHANGED <<rows, try, pending, begun>>

LookTaken(a) ==
    /\ pc[a] = "look" /\ try[a] <= MaxSuffix
    /\ SlugEntry(a, Candidate(a)) \in Committed
    /\ try' = [try EXCEPT ![a] = @ + 1]
    /\ UNCHANGED <<rows, pc, slug, pending, begun>>

(* All are taken: a registration appends six random digits, which are taken  *)
(* for its own; the other two go on with the bare slug they found taken.     *)
GiveUp(a) ==
    /\ pc[a] = "look" /\ try[a] > MaxSuffix
    /\ Settle(a, IF a \in Registrations THEN Append(Base(a), a) ELSE Base(a))
    /\ UNCHANGED <<rows, try, pending, begun>>

Fits(s) == Size[Head(s)] + Len(s) - 1 <= MaxSize

InsertUnchecked(a) ==
    /\ pc[a] = "insert"
    /\ ~Busy(a, SlugEntry(a, slug[a]))
    /\ pending' = [pending EXCEPT ![a] = @ \cup {SlugEntry(a, slug[a])}]
    /\ Goto(a, "commit")
    /\ UNCHANGED <<rows, locals>>

(* The INSERT of the organization (and of its membership) or the project.    *)
Insert(a) ==
    /\ pc[a] = "insert"
    /\ IF ~Fits(slug[a]) THEN End(a, "too long")
       ELSE /\ ~Busy(a, SlugEntry(a, slug[a]))
            /\ IF SlugEntry(a, slug[a]) \in Committed
                 THEN End(a, "conflict")
                 ELSE /\ pending' = [pending EXCEPT ![a] = @ \cup {SlugEntry(a, slug[a])}]
                      /\ Goto(a, "commit")
                      /\ UNCHANGED locals
    /\ UNCHANGED rows

----------------------------------------------------------------------------
(* The end.                                                                  *)

Commit(a) ==
    /\ pc[a] = "commit"
    /\ End(a, "201")
    /\ users' = IF a \in Registrations
                  THEN users \cup {[id |-> a, email |-> Lower[EmailOf[a]]]} ELSE users
    /\ IF a \in Registrations \cup OrgCreators
         THEN /\ orgs' = orgs \cup {[id |-> a, slug |-> slug[a]]}
              /\ members' = members \cup
                   {<<IF a \in Registrations THEN a ELSE UserOf[a], a>>}
         ELSE UNCHANGED <<orgs, members>>
    /\ projects' = IF a \in ProjectCreators
                     THEN projects \cup {[id |-> a, org |-> OrgOf[a], slug |-> slug[a]]}
                     ELSE projects
    /\ keys' = IF a \in KeyCreators
                 THEN keys \cup {[id |-> a, project |-> ProjectOf[a]]} ELSE keys

RollBackKeepingEntries(a) ==
    /\ pc[a] \in Open
    /\ Goto(a, "500")
    /\ UNCHANGED <<rows, pending, locals>>

RollBackButUser(a) ==
    /\ pc[a] \in Open
    /\ End(a, "500")
    /\ users' = users \cup {[id |-> r, email |-> Lower[EmailOf[r]]] :
                              r \in {x \in {a} \cap Registrations : EmailEntry(x) \in pending[x]}}
    /\ UNCHANGED <<orgs, members, projects, keys>>

(* Any failure before the commit: nothing of the transaction remains.        *)
RollBack(a) ==
    /\ pc[a] \in Open
    /\ End(a, "500")
    /\ UNCHANGED rows

Step(a) ==
    \/ a \in Registrations /\ (CheckEmail(a) \/ InsertUser(a))
    \/ a \notin Registrations /\ CheckAccess(a)
    \/ a \in Named /\ (LookFree(a) \/ LookTaken(a) \/ GiveUp(a) \/ Insert(a))
    \/ Commit(a)

Next == \E a \in Actors : Step(a) \/ RollBack(a)

(* The server runs the handlers it has started.                              *)
Fairness == \A a \in Actors : WF_vars(Step(a))

Spec == Init /\ [][Next]_vars

FairSpec == Spec /\ Fairness

----------------------------------------------------------------------------
(* Properties *)

(* "If step 5 fails, nothing is persisted": a registration answered 201 left *)
(* a user with an organization of its own, any other answer left neither;    *)
(* and no organization is without an owner.                                  *)
AccountsAreWhole ==
    /\ \A r \in Registrations :
         /\ (\E u \in users : u.id = r) <=> pc[r] = "201"
         /\ (\E o \in orgs : o.id = r) <=> pc[r] = "201"
         /\ <<r, r>> \in members <=> pc[r] = "201"
    /\ \A o \in orgs : \E u \in users : <<u.id, o.id>> \in members

(* Every project and every API key, through its project, belongs to an       *)
(* organization its creator is a member of: naming one's own organization in *)
(* the URL opens no other tenant's project.                                  *)
TenantsAreSeparate ==
    /\ \A p \in projects : <<UserOf[p.id], p.org>> \in members
    /\ \A k \in keys : \E p \in projects :
         p.id = k.project /\ <<UserOf[k.id], p.org>> \in members

(* Looking for a free slug first leaves the constraint to races: a request   *)
(* runs into an entry only if that was committed after it began, except for  *)
(* an organization or project that found all its suffixes taken.  And a      *)
(* registration never asks for a slug longer than its column.                *)
ConflictsAreRaces ==
    \A a \in Named :
      /\ pc[a] = "conflict" =>
           \/ a \in Registrations /\ EmailEntry(a) \in Committed \ begun[a]
           \/ SlugEntry(a, slug[a]) \in Committed \ begun[a]
           \/ a \notin Registrations /\ try[a] > MaxSuffix
      /\ pc[a] = "too long" => a \notin Registrations

(* Requests wait for one another's entries but never in a circle: a          *)
(* registration holds its e-mail while it waits for its slug, and nobody     *)
(* holds a slug while waiting for an e-mail.  So, with no abort to rely on,  *)
(* all requests that are open end.                                           *)
EveryRequestEnds == []<>(\A a \in Actors : pc[a] \notin Open)
=============================================================================
