---------------------------- MODULE SkillCatalog ----------------------------
(***************************************************************************)
(* The Skill catalog and the host's access policy over it                  *)
(* (kolyan-agent/src/skills: catalog.rs, policy.rs, binding.rs), as reads  *)
(* of the journal.  The operations that append are Preparation's calls.    *)
(***************************************************************************)
EXTENDS FactJournal

CONSTANTS Acl,              \* [definition -> the Skill keys it may use]
          CatalogVersions   \* limits.catalog_versions
ASSUME SkillAssumption == CatalogVersions \in Nat \ {0}

Catalog == <<"catalog">>
CatalogRows == Rows(Catalog)
Registers(i) == CatalogRows[i].body.kind = "registered"

Registration(key, meta) ==
    [id |-> <<"registration", key>>, causes |-> <<>>,
     body |-> [kind |-> "registered", key |-> key, meta |-> meta]]
RegistrationAt(i) == FactRef(Catalog, i, CatalogRows[i].id)
Revocation(key, registration, op) ==
    [id |-> <<"revocation", op>>, causes |-> <<registration>>,
     body |-> [kind |-> "revoked", key |-> key, op |-> op]]

Entries == {i \in DOMAIN CatalogRows : Registers(i)}
EntriesOf(key) == {i \in Entries : CatalogRows[i].body.key = key}
RevocationsOf(key) ==
    {i \in DOMAIN CatalogRows \ Entries : CatalogRows[i].body.key = key}
Revoked == {CatalogRows[i].body.key : i \in DOMAIN CatalogRows \ Entries}
Operation(op) == {i \in DOMAIN CatalogRows \ Entries : CatalogRows[i].body.op = op}

\* what replay accepts: anything else is an Integrity or Capacity error of
\* every later use of the catalog
ReplayRegistration(i) ==
    /\ \A j \in EntriesOf(CatalogRows[i].body.key) : j >= i
    /\ Cardinality({j \in Entries : j < i}) < CatalogVersions
ReplayRevocation(i) ==
    LET body == CatalogRows[i].body
    IN  /\ \E j \in EntriesOf(body.key) :
               j < i /\ CatalogRows[i].causes = <<RegistrationAt(j)>>
        /\ \A j \in RevocationsOf(body.key) \cup Operation(body.op) : j >= i
Replays == /\ Len(CatalogRows) <= 2 * CatalogVersions
           /\ \A i \in DOMAIN CatalogRows :
                  IF Registers(i) THEN ReplayRegistration(i) ELSE ReplayRevocation(i)

\* SkillRuntime::discover: every key the policy allows must be registered,
\* and the ones not revoked are advertised with their registrations
Discoverable(def) == Replays /\ \A key \in Acl[def] : EntriesOf(key) # {}
Discover(def) == {[key |-> CatalogRows[i].body.key, meta |-> CatalogRows[i].body.meta,
                   registration |-> RegistrationAt(i)] :
                     i \in {j \in Entries : CatalogRows[j].body.key \in Acl[def] \ Revoked}}

\* mutant: the selection is only checked against the registrations
CheckCurrentUnrevoked(ad, def) ==
    /\ Replays
    /\ \A s \in ad : EntriesOf(s.key) # {}

\* check_current: the saved selection is still exactly what discovery gives
CheckCurrent(ad, def) ==
    /\ Replays
    /\ \A s \in ad : s.key \notin Revoked
    /\ Discoverable(def)
    /\ Discover(def) = ad
=============================================================================
