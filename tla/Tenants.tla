------------------------------- MODULE Tenants -------------------------------
(***************************************************************************)
(* Accounts of tenant-api: registration, login and the connecting of a      *)
(* WhatsApp number (application/auth, application/tenant) over the tables   *)
(* tenants and users.                                                       *)
(*                                                                          *)
(* A tenant stands for one registration request and the row it may lead to. *)
(* Requests interleave at every query.  The checks of email and password,   *)
(* the password hash and the encryption of the token come between queries   *)
(* and keep no state.                                                       *)
(***************************************************************************)
EXTENDS Integers, FiniteSets

CONSTANTS
    Tenants,    \* registration requests
    Slugs,      \* what generateSlug makes of tenant names
    Wanted(_),  \* the slugs that a registration may ask for
    Phones,     \* phone_number_id
    None,       \* NULL
    MaxConnects,\* bound: numbers connected
    MaxDbFaults \* bound: queries that raise

ASSUME TenantsAssumption ==
    /\ None \notin Tenants \cup Slugs \cup Phones
    /\ \A t \in Tenants : Wanted(t) \subseteq Slugs
    /\ MaxDbFaults \in Nat /\ MaxConnects \in Nat

VARIABLES
    reg,        \* where each registration stands
    slug,       \* tenants.slug of each row, None where there is no row
    users,      \* tenants that have a row in users, its owner
    phone,      \* tenants.phone_number_id, stored together with the access token
    connects,   \* how many numbers have been connected
    dbFaults    \* how many queries have raised

accounts == <<reg, slug, users>>
numbers  == <<phone, connects>>
tenants  == <<accounts, numbers, dbFaults>>

FindBySlug(s) == {t \in Tenants : slug[t] = s}
Owners(p)     == {t \in Tenants : phone[t] = p}

\* LoginUseCase, for the email and password of the owner of t.
CanLogin(t, s) == t \in FindBySlug(s) \cap users

TenantsInit ==
    /\ reg = [t \in Tenants |-> [at |-> "new", slug |-> None]]
    /\ slug = [t \in Tenants |-> None]
    /\ users = {}
    /\ phone = [t \in Tenants |-> None]
    /\ connects = 0
    /\ dbFaults = 0
RegisterTo(t, step, s) == reg' = [reg EXCEPT ![t] = [at |-> step, slug |-> s]]
-----------------------------------------------------------------------------

\* The slug is looked up before the password is hashed; 409 if it is taken.
RegisterFind(t, s) ==
    /\ reg[t].at = "new"
    /\ RegisterTo(t, IF FindBySlug(s) = {} THEN "free" ELSE "refused", s)
    /\ UNCHANGED <<slug, users, numbers, dbFaults>>

\* (mutant) no unique index on the slug
TenantInsert_Any(t) ==
    /\ reg[t].at = "free"
    /\ slug' = [slug EXCEPT ![t] = reg[t].slug]
    /\ RegisterTo(t, "tenant", reg[t].slug)
    /\ UNCHANGED <<users, numbers, dbFaults>>

\* The first insert; slug is UNIQUE.
TenantInsert(t) ==
    /\ reg[t].at = "free"
    /\ FindBySlug(reg[t].slug) = {}
    /\ slug' = [slug EXCEPT ![t] = reg[t].slug]
    /\ RegisterTo(t, "tenant", reg[t].slug)
    /\ UNCHANGED <<users, numbers, dbFaults>>

\* The second insert, and the answer 201 with a token.
UserInsert(t) ==
    /\ reg[t].at = "tenant"
    /\ users' = users \cup {t}
    /\ RegisterTo(t, "done", reg[t].slug)
    /\ UNCHANGED <<slug, numbers, dbFaults>>

\* An insert raises: the slug has been taken meanwhile, or the database fails.
\* A tenant that was inserted stays.
RegisterRaises(t) ==
    /\ reg[t].at \in {"free", "tenant"}
    /\ RegisterTo(t, "failed", reg[t].slug)
    /\ IF reg[t].at = "free" /\ FindBySlug(reg[t].slug) # {} THEN UNCHANGED dbFaults
       ELSE dbFaults < MaxDbFaults /\ dbFaults' = dbFaults + 1
    /\ UNCHANGED <<slug, users, numbers>>

\* Only the owner holds a token.  The read before it only finds the row; the
\* update writes number and token together, and raises if the number, which is
\* UNIQUE, belongs to another tenant.
Connect(t, p) ==
    /\ t \in users
    /\ Owners(p) = {}
    /\ connects < MaxConnects
    /\ connects' = connects + 1
    /\ phone' = [phone EXCEPT ![t] = p]
    /\ UNCHANGED <<accounts, dbFaults>>

Register(t) == (\E s \in Wanted(t) : RegisterFind(t, s)) \/ TenantInsert(t) \/ UserInsert(t)
               \/ RegisterRaises(t)

TenantsNext == \E t \in Tenants : Register(t) \/ \E p \in Phones : Connect(t, p)
-----------------------------------------------------------------------------

TenantsTypeOK ==
    /\ reg \in [Tenants -> [at : {"new", "free", "refused", "tenant", "done", "failed"},
                            slug : Slugs \cup {None}]]
    /\ slug \in [Tenants -> Slugs \cup {None}]
    /\ users \subseteq Tenants
    /\ phone \in [Tenants -> Phones \cup {None}]
    /\ connects \in 0..MaxConnects
    /\ dbFaults \in 0..MaxDbFaults

\* RegisterUseCase, LoginUseCase: the slug is looked up long before it is
\* inserted, and another registration may come in between.  Whoever got the
\* answer 201 can log in with the slug of its name, and nobody else can with it.
RegisteredCanLogin ==
    \A t \in Tenants : reg[t].at = "done" =>
        /\ CanLogin(t, reg[t].slug)
        /\ FindBySlug(reg[t].slug) = {t}
=============================================================================
