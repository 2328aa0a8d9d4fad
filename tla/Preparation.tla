---------------------------- MODULE Preparation ----------------------------
(***************************************************************************)
(* Preparation of an Agent invocation over the stores it spans: the        *)
(* instance registry (kolyan-server/src/instance_registry.rs), the         *)
(* invocation binding (kolyan-agent/src/binding.rs), the child's private   *)
(* context (private_context.rs, storage/initialization.rs), the Skill      *)
(* binding (skills/binding.rs), the archived input document and its source *)
(* fact (tasks/input.rs, runner/input.rs, preparation.rs), and at last the *)
(* Task's admission.  No transaction spans two stores: concurrent calls,   *)
(* of the same owner too, interleave between any two of them, and a crash  *)
(* leaves what was written.  The Skill catalog's own operations and        *)
(* skill.load run beside them.                                             *)
(***************************************************************************)
EXTENDS SkillCatalog

CONSTANTS Calls,          \* concurrent host calls
          Configs,        \* [calls, skills, capacity, refuses, crashes]: the call
                          \* each makes, whether the host has Skills, the registry's
                          \* capacity, whether inventory or Provider refuse, and the
                          \* bound on crashes
          MaxCasAttempts  \* MAX_CAS_ATTEMPTS, 32 in the code
ASSUME PreparationAssumption ==
    /\ MaxCasAttempts \in Nat \ {0}
    /\ \A c \in Configs :
           /\ c.capacity \in Nat \ {0} /\ c.skills \in BOOLEAN
           /\ DOMAIN c.calls \subseteq Calls
           /\ \A x \in DOMAIN c.calls :
                  /\ c.calls[x].op \in {"root", "child", "register", "revoke", "load"}
                  \* a child's identity is a digest of its parent's (delegation/admission.rs:98)
                  /\ c.calls[x].op = "child" => c.calls[x].parent # c.calls[x].owner

VARIABLES cfg,
          sessions,   \* private Session store: owner -> SessionInitialization
          artifacts,  \* archived input documents, pinned
          tasks,      \* Task service: owner -> the admitted definition
          w,          \* [Calls -> the call's progress]
          crashes
vars == <<journal, cfg, sessions, artifacts, tasks, w, crashes>>

Made == DOMAIN cfg.calls
Req(x) == cfg.calls[x]
Prepares(x) == Req(x).op \in {"root", "child"}
Preparers(o) == {x \in Made : Prepares(x) /\ Req(x).owner = o}
Owners == {Req(x).owner : x \in {y \in Made : Prepares(y)}}

-----------------------------------------------------------------------------
(* The facts of each store, and what its reads accept.                     *)

Registry == <<"instances">>
Reservation(o, position) ==
    [id |-> <<"reservation", o>>, causes |-> <<>>,
     body |-> [owner |-> o, instance |-> position]]
ReservedBy(o) == {i \in DOMAIN Rows(Registry) : Rows(Registry)[i].body.owner = o}
RegistryLoads ==
    /\ HeadOf(Registry) <= cfg.capacity
    /\ \A i \in DOMAIN Rows(Registry) :
           /\ Rows(Registry)[i] = Reservation(Rows(Registry)[i].body.owner, i)
           /\ ReservedBy(Rows(Registry)[i].body.owner) = {i}

\* AgentSnapshot: the digest covers the instance, definition and permissions
Snapshot(x) == [instance |-> w[x].instance, def |-> Req(x).def]

BindingStream(o) == <<"binding", o>>
Ownership(o) == FactRef(BindingStream(o), 1, BindingStream(o))
BindingDraft(o, kind, snap) ==
    [id |-> BindingStream(o), causes |-> <<>>,
     body |-> [owner |-> o, kind |-> kind, snap |-> snap]]
BindingOf(x) == BindingDraft(Req(x).owner, Req(x).op, Snapshot(x))
VerifyOwner(o, kinds, snap) ==
    \E kind \in kinds : Rows(BindingStream(o)) = <<BindingDraft(o, kind, snap)>>

ContextStream(o) == <<"context", o>>
ContextDraft(o, snap, msg) ==
    [id |-> ContextStream(o), causes |-> <<Ownership(o)>>,
     body |-> [owner |-> o, snap |-> snap, msg |-> msg]]
Initialization(snap, msg) == [snap |-> snap, msg |-> msg]
VerifiedInitialization(o, snap) ==
    /\ VerifyOwner(o, {"child"}, snap)
    /\ o \in DOMAIN sessions
    /\ sessions[o] = Initialization(snap, sessions[o].msg)
    /\ Rows(ContextStream(o)) = <<ContextDraft(o, snap, sessions[o].msg)>>

SkillStream(o, snap) == <<"skill", o, snap>>
SkillRef(o, snap) == FactRef(SkillStream(o, snap), 1, SkillStream(o, snap))
SkillDraft(o, snap, ad) ==
    [id |-> SkillStream(o, snap),
     causes |-> <<Ownership(o)>> \o SetToSeq({s.registration : s \in ad}),
     body |-> [ad |-> ad]]
SavedSelection(o, snap) == Rows(SkillStream(o, snap))[1].body.ad
RestoreBinding(o, snap) ==
    /\ HeadOf(SkillStream(o, snap)) = 1
    /\ Rows(SkillStream(o, snap))[1] = SkillDraft(o, snap, SavedSelection(o, snap))
    /\ Replays
    /\ \A s \in SavedSelection(o, snap) : \E i \in EntriesOf(s.key) :
           s.registration = RegistrationAt(i) /\ s.meta = CatalogRows[i].body.meta
    /\ VerifyOwner(o, {"root", "child"}, snap)
ValidateCurrent(o, snap) ==
    RestoreBinding(o, snap) /\ CheckCurrent(SavedSelection(o, snap), snap.def)

DocumentOf(r, snap) ==
    [def |-> r.def, msg |-> r.msg, ownership |-> Ownership(r.owner),
     parent |-> IF r.op = "child" THEN <<Ownership(r.parent)>> ELSE <<>>,
     initialization |-> IF r.op = "child"
                        THEN <<FactRef(ContextStream(r.owner), 1, ContextStream(r.owner))>>
                        ELSE <<>>,
     skill |-> IF cfg.skills THEN <<SkillRef(r.owner, snap)>> ELSE <<>>]
Document(x) == DocumentOf(Req(x), Snapshot(x))
Causes(doc) == doc.parent \o <<doc.ownership>> \o doc.initialization \o doc.skill
InputStream(o) == <<"input", o>>
InputDraft(o, kind, snap, doc) ==
    [id |-> InputStream(o), causes |-> Causes(doc),
     body |-> [kind |-> kind, scope |-> [owner |-> o, snap |-> snap], doc |-> doc]]
InputOf(x) == InputDraft(Req(x).owner, Req(x).op, Snapshot(x), Document(x))

\* the causal walk: three levels reach every fact these stores write
CausesOf(ref) == IF Resolves(ref) THEN Range(Rows(ref.stream)[ref.position].causes) ELSE {}
WithCauses(refs) == refs \cup UNION {CausesOf(ref) : ref \in refs}
ValidateCauses(causes, stream) ==
    /\ Len(causes) \in 1..32
    /\ IsInjective(causes)
    /\ \A ref \in WithCauses(WithCauses(WithCauses(Range(causes)))) :
           Resolves(ref) /\ ref.stream # stream
LoadVerifiedInput(o, snap, kind) ==
    /\ HeadOf(InputStream(o)) = 1
    /\ LET fact == Rows(InputStream(o))[1]
       IN  /\ fact.body.scope = [owner |-> o, snap |-> snap]
           /\ fact.body.kind = kind
           /\ ValidateCauses(fact.causes, InputStream(o))

\* verify_root_input and verify_child_input, which every later execution of
\* an admitted invocation starts with, the binding once loaded
LoadInputDocument(o, snap, kind) ==
    LoadVerifiedInput(o, snap, kind) /\ Rows(InputStream(o))[1].body.doc \in artifacts
VerifySkillOrigin(o, snap, doc) ==
    doc.skill # <<>> => doc.skill = <<SkillRef(o, snap)>> /\ RestoreBinding(o, snap)
VerifyInput(o, snap, kind, doc) ==
    /\ Rows(BindingStream(o)) = <<BindingDraft(o, kind, snap)>>
    /\ LoadInputDocument(o, snap, kind)
    /\ Rows(InputStream(o))[1].causes = Causes(doc)
    /\ doc.ownership = Ownership(o)
    /\ doc.def = snap.def
    /\ VerifySkillOrigin(o, snap, doc)
VerifyRootInput(o, snap, doc) ==
    VerifyInput(o, snap, "root", doc) /\ doc.parent = <<>> /\ doc.initialization = <<>>
VerifyChildInput(o, snap, doc) ==
    /\ VerifyInput(o, snap, "child", doc)
    /\ o \in DOMAIN tasks /\ tasks[o].snap = snap
    /\ \E p \in DOMAIN tasks : doc.parent = <<Ownership(p)>> /\ Resolves(Ownership(p))
    /\ VerifiedInitialization(o, snap)
    /\ doc.initialization = <<FactRef(ContextStream(o), 1, ContextStream(o))>>
    /\ doc.msg = sessions[o].msg

-----------------------------------------------------------------------------
(* Progress of a call: its stages in the order the code runs them, and the *)
(* step inside a stage.                                                    *)

Idle == [pc |-> "idle", sub |-> "read", head |-> 0, tries |-> 0, instance |-> 0,
         ad |-> {}, since |-> {}, res |-> None]

Init == /\ cfg \in Configs
        /\ journal = << >>
        /\ sessions = << >>
        /\ artifacts = {}
        /\ tasks = << >>
        /\ w = [x \in Calls |-> Idle]
        /\ crashes = 0

RootPath ==
    IF cfg.skills
    THEN <<"reserve", "save", "skills", "tools", "retain", "archive", "publish", "admit", "ended">>
    ELSE <<"reserve", "tools", "retain", "archive", "publish", "admit", "ended">>
ChildPath ==
    IF cfg.skills
    THEN <<"reserve", "retain", "context", "session", "initialized", "skills",
           "archive", "publish", "admit", "ended">>
    ELSE <<"reserve", "retain", "context", "session", "initialized",
           "archive", "publish", "admit", "ended">>
Path(x) == CASE Req(x).op = "root" -> RootPath
             [] Req(x).op = "child" -> ChildPath
             [] OTHER -> <<Req(x).op, "ended">>
After(x) == Path(x)[1 + CHOOSE i \in DOMAIN Path(x) : Path(x)[i] = w[x].pc]

Advance(x) == [w EXCEPT ![x].pc = After(x), ![x].sub = "read",
                        ![x].res = IF After(x) = "ended" THEN "ok" ELSE None]
Step(x, sub) == [w EXCEPT ![x].sub = sub]
Refuse(x, why) == [w EXCEPT ![x].pc = "ended", ![x].res = why]
At(x, pc, sub) == w[x].pc = pc /\ w[x].sub = sub
Written(stream, expected, draft) == journal' = Appended(stream, expected, draft)
Reads == UNCHANGED <<journal, cfg, sessions, artifacts, tasks, crashes>>
Writes == UNCHANGED <<cfg, sessions, artifacts, tasks, crashes>>

\* A child is admitted by its parent's running execution; skill.load runs in
\* the execution of an admitted invocation.
Start(x) ==
    /\ At(x, "idle", "read")
    /\ Req(x).op = "child" => Req(x).parent \in DOMAIN tasks
    /\ Req(x).op = "load" => Req(x).owner \in DOMAIN tasks
    /\ w' = [w EXCEPT ![x].pc = Path(x)[1], ![x].since = Revoked]
    /\ Reads

-----------------------------------------------------------------------------
(* InstanceRegistry::reserve                                               *)

ReserveLoad(x) ==
    LET o == Req(x).owner
    IN  /\ At(x, "reserve", "read")
        /\ w' = IF w[x].tries = MaxCasAttempts THEN Refuse(x, "Contention")
                ELSE IF ~RegistryLoads THEN Refuse(x, "Corrupt")
                ELSE IF ReservedBy(o) # {}
                     THEN [Advance(x) EXCEPT ![x].instance = CHOOSE i \in ReservedBy(o) : TRUE]
                ELSE IF HeadOf(Registry) >= cfg.capacity THEN Refuse(x, "Capacity")
                ELSE [Step(x, "append") EXCEPT ![x].head = HeadOf(Registry)]
        /\ Reads

\* mutant: only StalePosition counts as a lost race
ReserveAppendStaleOnly(x) ==
    LET o == Req(x).owner
        head == w[x].head
        draft == Reservation(o, head + 1)
        outcome == AppendOutcome(Registry, head, draft)
    IN  /\ At(x, "reserve", "append")
        /\ Written(Registry, head, draft)
        /\ Writes
        /\ w' = IF outcome = "ok"
                THEN [Advance(x) EXCEPT ![x].instance = head + 1]
                ELSE IF outcome = "StalePosition"
                THEN [Step(x, "read") EXCEPT ![x].tries = @ + 1]
                ELSE Refuse(x, "Journal")

\* A committed append is read back; a lost race is retried only when the
\* head has moved.
ReserveAppend(x) ==
    LET o == Req(x).owner
        head == w[x].head
        draft == Reservation(o, head + 1)
        outcome == AppendOutcome(Registry, head, draft)
    IN  /\ At(x, "reserve", "append")
        /\ Written(Registry, head, draft)
        /\ Writes
        /\ w' = IF outcome = "ok"
                THEN [Advance(x) EXCEPT ![x].instance = CHOOSE i \in ReservedBy(o)' : TRUE]
                ELSE IF outcome \in {"Conflict", "StalePosition"} /\ HeadOf(Registry) > head
                THEN [Step(x, "read") EXCEPT ![x].tries = @ + 1]
                ELSE Refuse(x, "Journal")

-----------------------------------------------------------------------------
(* AgentInvocationBindingStore::save.  A root with Skills saves before its *)
(* inventory is built, and again when the input is retained.               *)

\* mutant: an existing binding is taken for the caller's own
SaveLoadAny(x) ==
    /\ w[x].pc \in {"save", "retain"} /\ w[x].sub = "read"
    /\ w' = IF Rows(BindingStream(Req(x).owner)) = <<>> THEN Step(x, "append") ELSE Advance(x)
    /\ Reads

SaveLoad(x) ==
    LET saved == Rows(BindingStream(Req(x).owner))
    IN  /\ w[x].pc \in {"save", "retain"} /\ w[x].sub = "read"
        /\ w' = IF saved = <<>> THEN Step(x, "append")
                ELSE IF saved = <<BindingOf(x)>> THEN Advance(x)
                ELSE Refuse(x, "Conflict")
        /\ Reads

SaveAppend(x) ==
    LET stream == BindingStream(Req(x).owner)
    IN  /\ w[x].pc \in {"save", "retain"} /\ w[x].sub = "append"
        /\ Written(stream, 0, BindingOf(x))
        /\ Writes
        /\ w' = IF Rows(stream)' = <<BindingOf(x)>> THEN Advance(x) ELSE Refuse(x, "Conflict")

\* routed_tool_set, the tool choice against the Agent ceiling, and the
\* Provider factory: any of them may refuse
AssembleTools(x) ==
    /\ At(x, "tools", "read")
    /\ w' \in {Advance(x)} \cup (IF cfg.refuses THEN {Refuse(x, "Host")} ELSE {})
    /\ Reads

-----------------------------------------------------------------------------
(* PrivateContextService::initialize, the Session store's initializer, and *)
(* load_verified_initialization                                            *)

ContextDraftOf(x) == ContextDraft(Req(x).owner, Snapshot(x), Req(x).msg)

ContextRead(x) ==
    LET o == Req(x).owner
    IN  /\ At(x, "context", "read")
        /\ w' = IF ~VerifyOwner(o, {"child"}, Snapshot(x)) THEN Refuse(x, "Ownership")
                ELSE Step(x, IF Rows(ContextStream(o)) = <<>> THEN "append" ELSE "confirm")
        /\ Reads

ContextAppend(x) ==
    LET stream == ContextStream(Req(x).owner)
    IN  /\ At(x, "context", "append")
        /\ Written(stream, 0, ContextDraftOf(x))
        /\ w' = IF AppendOutcome(stream, 0, ContextDraftOf(x)) = "MissingCause"
                THEN Refuse(x, "Journal")
                ELSE Step(x, "confirm")
        /\ Writes

ContextConfirm(x) ==
    /\ At(x, "context", "confirm")
    /\ w' = IF Rows(ContextStream(Req(x).owner)) = <<ContextDraftOf(x)>>
            THEN Advance(x)
            ELSE Refuse(x, "Conflict")
    /\ Reads

\* one lock spans the read and the creation; a saved Session is never replaced
InitializeContext(x) ==
    LET o == Req(x).owner
        initialization == Initialization(Snapshot(x), Req(x).msg)
    IN  /\ At(x, "session", "read")
        /\ IF o \in DOMAIN sessions
           THEN /\ w' = IF sessions[o] = initialization THEN Advance(x) ELSE Refuse(x, "Conflict")
                /\ UNCHANGED sessions
           ELSE /\ sessions' = Put(sessions, o, initialization)
                /\ w' = Advance(x)
        /\ UNCHANGED <<journal, cfg, artifacts, tasks, crashes>>

LoadInitialization(x) ==
    /\ At(x, "initialized", "read")
    /\ w' = IF VerifiedInitialization(Req(x).owner, Snapshot(x))
            THEN Advance(x)
            ELSE Refuse(x, "Conflict")
    /\ Reads

-----------------------------------------------------------------------------
(* prepare_skills: discover, then bind                                     *)

DiscoverSkills(x) ==
    /\ At(x, "skills", "read")
    /\ w' = IF Discoverable(Req(x).def)
            THEN [Step(x, "check") EXCEPT ![x].ad = Discover(Req(x).def)]
            ELSE Refuse(x, "Provenance")
    /\ Reads

BindCheck(x) ==
    /\ At(x, "skills", "check")
    /\ w' = IF ~VerifyOwner(Req(x).owner, {Req(x).op}, Snapshot(x)) THEN Refuse(x, "Ownership")
            ELSE IF CheckCurrent(w[x].ad, Req(x).def) THEN Step(x, "append")
            ELSE Refuse(x, "Revoked")
    /\ Reads

BindAppend(x) ==
    LET stream == SkillStream(Req(x).owner, Snapshot(x))
        draft == SkillDraft(Req(x).owner, Snapshot(x), w[x].ad)
    IN  /\ At(x, "skills", "append")
        /\ Written(stream, 0, draft)
        /\ w' = IF AppendOutcome(stream, 0, draft) = "MissingCause"
                THEN Refuse(x, "Journal")
                ELSE Step(x, "confirm")
        /\ Writes

\* restore, compare with the selection just made, validate_current
BindConfirm(x) ==
    LET o == Req(x).owner
    IN  /\ At(x, "skills", "confirm")
        /\ w' = IF ~RestoreBinding(o, Snapshot(x)) THEN Refuse(x, "Integrity")
                ELSE IF SavedSelection(o, Snapshot(x)) # w[x].ad THEN Refuse(x, "SkillConflict")
                ELSE IF ValidateCurrent(o, Snapshot(x)) THEN Advance(x)
                ELSE Refuse(x, "Revoked")
        /\ Reads

-----------------------------------------------------------------------------
(* publish_input_document: archive, then one CAS and the exact winner      *)

Archive(x) ==
    /\ At(x, "archive", "read")
    /\ artifacts' = artifacts \cup {Document(x)}
    /\ w' = Advance(x)
    /\ UNCHANGED <<journal, cfg, sessions, tasks, crashes>>

PublishRead(x) ==
    LET stream == InputStream(Req(x).owner)
    IN  /\ At(x, "publish", "read")
        /\ w' = IF ~ValidateCauses(Causes(Document(x)), stream) THEN Refuse(x, "Causes")
                ELSE Step(x, IF Rows(stream) = <<>> THEN "append" ELSE "confirm")
        /\ Reads

PublishAppend(x) ==
    LET stream == InputStream(Req(x).owner)
    IN  /\ At(x, "publish", "append")
        /\ Written(stream, 0, InputOf(x))
        /\ w' = Step(x, "confirm")
        /\ Writes

\* mutant: the winner of the CAS is accepted whatever it holds
PublishConfirmWinner(x) ==
    LET o == Req(x).owner
    IN  /\ At(x, "publish", "confirm")
        /\ w' = IF LoadVerifiedInput(o, Snapshot(x), Req(x).op) THEN Advance(x)
                ELSE Refuse(x, "Conflict")
        /\ Reads

PublishConfirm(x) ==
    LET o == Req(x).owner
    IN  /\ At(x, "publish", "confirm")
        /\ w' = IF /\ Rows(InputStream(o)) = <<InputOf(x)>>
                   /\ LoadVerifiedInput(o, Snapshot(x), Req(x).op)
                THEN Advance(x)
                ELSE Refuse(x, "Conflict")
        /\ Reads

\* TaskCoordinator::admit_invocation: TaskReducer has its rules; here the
\* input source is verified and a repeated admission must be identical
Admit(x) ==
    LET o == Req(x).owner
        definition == [snap |-> Snapshot(x), source |-> InputStream(o)]
    IN  /\ At(x, "admit", "read")
        /\ IF ~LoadVerifiedInput(o, Snapshot(x), Req(x).op)
           THEN w' = Refuse(x, "Causes") /\ UNCHANGED tasks
           ELSE IF o \in DOMAIN tasks
           THEN /\ w' = IF tasks[o] = definition THEN Advance(x) ELSE Refuse(x, "Conflict")
                /\ UNCHANGED tasks
           ELSE /\ tasks' = Put(tasks, o, definition)
                /\ w' = Advance(x)
        /\ UNCHANGED <<journal, cfg, sessions, artifacts, crashes>>

-----------------------------------------------------------------------------
(* SkillCatalog::register and revoke: one append each, never at a second   *)
(* head (append_once); and skill.load                                      *)

RegisterRead(x) ==
    LET r == Req(x)
        saved == EntriesOf(r.key)
    IN  /\ At(x, "register", "read")
        /\ w' = IF ~Replays THEN Refuse(x, "Integrity")
                ELSE IF saved # {}
                THEN IF \E i \in saved : CatalogRows[i] = Registration(r.key, r.meta)
                     THEN Advance(x) ELSE Refuse(x, "Conflict")
                ELSE IF Cardinality(Entries) >= CatalogVersions THEN Refuse(x, "Capacity")
                ELSE [Step(x, "append") EXCEPT ![x].head = HeadOf(Catalog)]
        /\ Reads

RevokeRead(x) ==
    LET r == Req(x)
        repeats == Operation(r.by)
    IN  /\ At(x, "revoke", "read")
        /\ w' = IF ~Replays THEN Refuse(x, "Integrity")
                ELSE IF repeats # {}
                THEN IF \E i \in repeats : CatalogRows[i].body.key = r.key
                     THEN Advance(x) ELSE Refuse(x, "Conflict")
                ELSE IF EntriesOf(r.key) = {} THEN Refuse(x, "Provenance")
                ELSE IF r.key \in Revoked THEN Refuse(x, "Revoked")
                ELSE [Step(x, "append") EXCEPT ![x].head = HeadOf(Catalog)]
        /\ Reads

CatalogDraft(x) ==
    LET r == Req(x)
    IN  IF r.op = "register" THEN Registration(r.key, r.meta)
        ELSE Revocation(r.key, RegistrationAt(CHOOSE i \in EntriesOf(r.key) : TRUE), r.by)

\* Whatever the append answered, the catalog is replayed: the call succeeds
\* when its own record is there.
AppendOnce(x) ==
    /\ w[x].pc \in {"register", "revoke"} /\ w[x].sub = "append"
    /\ Written(Catalog, w[x].head, CatalogDraft(x))
    /\ w' = Step(x, "confirm")
    /\ Writes

CatalogConfirm(x) ==
    /\ w[x].pc \in {"register", "revoke"} /\ w[x].sub = "confirm"
    /\ w' = IF ~Replays THEN Refuse(x, "Integrity")
            ELSE IF CatalogDraft(x) \in Range(CatalogRows) THEN Advance(x)
            ELSE Refuse(x, "Conflict")
    /\ Reads

\* SkillExecutor: prepare_sync, the Turn's grant, then execute_sync, which
\* prepares again; the artifact is read after the last check
LoadPrepare(x) ==
    LET o == Req(x).owner
        snap == tasks[o].snap
    IN  /\ At(x, "load", "read")
        /\ w' = IF /\ ValidateCurrent(o, snap)
                   /\ \E s \in SavedSelection(o, snap) : s.key = Req(x).key
                THEN [Step(x, "granted") EXCEPT ![x].ad = SavedSelection(o, snap)]
                ELSE Refuse(x, "Revoked")
        /\ Reads

LoadExecute(x) ==
    LET o == Req(x).owner
        snap == tasks[o].snap
    IN  /\ At(x, "load", "granted")
        /\ w' = IF ValidateCurrent(o, snap) /\ SavedSelection(o, snap) = w[x].ad
                THEN Advance(x)
                ELSE Refuse(x, "Revoked")
        /\ Reads

-----------------------------------------------------------------------------
\* The process running a call dies; the host repeats the call exactly.
Crash(x) ==
    /\ crashes < cfg.crashes
    /\ w[x].pc \notin {"idle", "ended"}
    /\ w' = [w EXCEPT ![x] = Idle]
    /\ crashes' = crashes + 1
    /\ UNCHANGED <<journal, cfg, sessions, artifacts, tasks>>

Reserve(x) == ReserveLoad(x) \/ ReserveAppend(x)
Save(x) == SaveLoad(x) \/ SaveAppend(x)
Context(x) == ContextRead(x) \/ ContextAppend(x) \/ ContextConfirm(x)
              \/ InitializeContext(x) \/ LoadInitialization(x)
PrepareSkills(x) == DiscoverSkills(x) \/ BindCheck(x) \/ BindAppend(x) \/ BindConfirm(x)
Publish(x) == Archive(x) \/ PublishRead(x) \/ PublishAppend(x) \/ PublishConfirm(x)
CatalogCall(x) == RegisterRead(x) \/ RevokeRead(x) \/ AppendOnce(x) \/ CatalogConfirm(x)
LoadSkill(x) == LoadPrepare(x) \/ LoadExecute(x)

Next == \E x \in Made : \/ Start(x) \/ Reserve(x) \/ Save(x) \/ AssembleTools(x)
                         \/ Context(x) \/ PrepareSkills(x) \/ Publish(x) \/ Admit(x)
                         \/ CatalogCall(x) \/ LoadSkill(x) \/ Crash(x)
Spec == Init /\ [][Next]_vars
-----------------------------------------------------------------------------
(* Properties                                                              *)

Ended(x, res) == w[x].pc = "ended" /\ w[x].res = res

\* However reserve calls race, retry and crash (instance_registry.rs:108), the
\* registry stays loadable and within its capacity, every owner has one
\* instance, and each call of an owner goes on with that one.
InstanceUnique ==
    /\ RegistryLoads
    /\ \A x \in Made : w[x].instance # 0 => ReservedBy(Req(x).owner) = {w[x].instance}

\* A preparation that reports success was about the content every store
\* holds: binding, private context and Session, Skill selection, input
\* document and admission.  A caller whose content lost a race in any store
\* is never told that it prepared it (preparation.rs:52, tasks/input.rs:129).
ReturnedIsSaved ==
    \A x \in {y \in Made : Prepares(y)} : Ended(x, "ok") =>
        LET o == Req(x).owner
        IN  /\ o \in DOMAIN tasks /\ tasks[o].snap = Snapshot(x)
            /\ Rows(BindingStream(o)) = <<BindingOf(x)>>
            /\ Rows(InputStream(o)) = <<InputOf(x)>>
            /\ Req(x).op = "child" => /\ Rows(ContextStream(o)) = <<ContextDraftOf(x)>>
                                      /\ sessions[o] = Initialization(Snapshot(x), Req(x).msg)
            /\ cfg.skills => SavedSelection(o, Snapshot(x)) = w[x].ad

\* Whatever was admitted passes the verification every later execution, resume
\* and finalization starts with (verify_root_input, verify_child_input): no
\* interleaving admits an invocation that can never run.
AdmittedVerifies ==
    \A o \in DOMAIN tasks :
        LET snap == Rows(BindingStream(o))[1].body.snap
            doc == Rows(InputStream(o))[1].body.doc
        IN  /\ tasks[o].snap = snap
            /\ VerifyRootInput(o, snap, doc) \/ VerifyChildInput(o, snap, doc)

\* What the stores hold of an owner always fits one of the contents asked for:
\* whoever crashes where, some exact retry can finish, unless a Skill it bound
\* has been revoked since.  Two calls that each
\* won a different store would leave the owner unusable for ever.
Finishable ==
    \A o \in Owners : \E x \in Preparers(o) :
        /\ \A i \in DOMAIN Rows(BindingStream(o)) :
               Rows(BindingStream(o))[i].body.snap.def = Req(x).def
        /\ \A i \in DOMAIN Rows(ContextStream(o)) : Rows(ContextStream(o))[i].body.msg = Req(x).msg
        /\ o \in DOMAIN sessions => sessions[o].msg = Req(x).msg
        /\ \A i \in DOMAIN Rows(InputStream(o)) :
               /\ Rows(InputStream(o))[i].body.doc.msg = Req(x).msg
               /\ Rows(InputStream(o))[i].body.doc.def = Req(x).def

\* The Skill catalog replays after any race of registrations and revocations
\* (catalog.rs:186): one record replay refuses would disable it for good.
CatalogReplays == Replays

\* No race, crash or retry leaves a store or an owner unusable: registry and
\* catalog replay, a half prepared owner can be finished, an admitted one can run.
StoresUsable == InstanceUnique /\ CatalogReplays /\ Finishable /\ AdmittedVerifies

\* A preparation is refused only for a reason outside its own retries: a
\* caller that asked for other content, a full registry, a Skill revoked or
\* not yet registered, more competing reservations than attempts, or the host.
\* An exact retry, and a lost race between equals, is never refused.
Justified(x) ==
    LET o == Req(x).owner
        disputed == \E y \in Preparers(o) : Req(y) # Req(x)
        revoked == Acl[Req(x).def] \cap Revoked # {}
    IN  \/ w[x].res = "ok"
        \/ w[x].res = "Provenance" /\ cfg.skills
        \/ w[x].res = "Host" /\ cfg.refuses
        \/ w[x].res = "Conflict" /\ disputed
        \/ w[x].res \in {"Revoked", "SkillConflict"} /\ cfg.skills /\ revoked
        \/ w[x].res = "Capacity" /\ HeadOf(Registry) = cfg.capacity /\ ReservedBy(o) = {}
        \/ w[x].res = "Contention" /\ HeadOf(Registry) >= MaxCasAttempts
RefusalJustified == \A x \in Made : Prepares(x) /\ w[x].pc = "ended" => Justified(x)

\* A call begun after a Skill was revoked neither binds nor loads it
\* (skills/binding.rs:259, skills/executor.rs:57), whatever was bound before.
RevocationHolds ==
    \A x \in Made : Ended(x, "ok") =>
        /\ Prepares(x) => \A s \in w[x].ad : s.key \notin w[x].since
        /\ Req(x).op = "load" => Req(x).key \notin w[x].since
=============================================================================
