------------------------- MODULE PreparationProofs -------------------------
(***************************************************************************)
(* Proofs about Preparation, for every configuration, any number of calls, *)
(* owners and Skills, and every limit.                                     *)
(*                                                                         *)
(* The invariant is proved in layers, each resting on those before:        *)
(* Shape (where a call stands), JournalInv (what a stream may hold),       *)
(* RegistryInv, CatalogInv, RevocationInv, and AuthorInv: everything there *)
(* is for an owner was written by a preparing call of that owner, as its   *)
(* request would have it.  AuthorInv carries the properties about results, *)
(* refusals and the stores.                                                *)
(***************************************************************************)
EXTENDS Preparation, FiniteSetTheorems, SequenceTheorems, TLAPS

\* The fields of a call's progress.
Fields == {"pc", "sub", "head", "tries", "instance", "ad", "since", "res"}

\* The kinds of the streams that hold one fact.
Singles == {"binding", "context", "skill", "input"}

\* Every call has its progress.
Progress == w = [x \in Calls |-> w[x]] /\ \A x \in Calls : DOMAIN w[x] = Fields

\* A call stands at a place on its path.
Shape ==
    /\ cfg \in Configs
    /\ Progress
    /\ \A x \in Made : w[x].pc \in {"idle"} \cup Range(Path(x))

\* A row is one its stream's writer writes, and its causes resolve to rows that are
\* no input's.
RowSound(s, row) ==
    /\ \/ s[1] \in Singles /\ row.id = s
       \/ s = Registry /\ row = Reservation(row.body.owner, row.body.instance)
       \/ /\ s = Catalog /\ row.body.kind = "registered"
          /\ row = Registration(row.body.key, row.body.meta)
       \/ /\ s = Catalog /\ row.body.kind = "revoked"
          /\ row = Revocation(row.body.key, row.causes[1], row.body.op)
    /\ s[1] # "input" => \A c \in Range(row.causes) : Resolves(c) /\ c.stream[1] # "input"

\* A stream is a sequence of sound rows, of one at most where one fact is all there is.
StreamSound(s) ==
    /\ Rows(s) \in Seq(Range(Rows(s)))
    /\ s[1] \in Singles => Len(Rows(s)) <= 1
    /\ \A i \in DOMAIN Rows(s) : RowSound(s, Rows(s)[i])

\* The journal is sound, and what a call has selected are references into the catalog.
JournalInv ==
    /\ \A s \in DOMAIN journal : StreamSound(s)
    /\ \A x \in Made : Prepares(x) =>
           IsFiniteSet(w[x].ad) /\ \A s \in w[x].ad : s.registration.stream = Catalog

\* What a preparing call knows of the registry: its instance is the one reserved for
\* its owner, and an append at the head it read finds the registry as it read it.
RegistryCall(x) ==
    LET o == Req(x).owner
    IN  /\ w[x].instance # 0 => ReservedBy(o) = {w[x].instance}
        /\ w[x].instance = 0 =>
               \/ w[x].pc \in {"idle", "reserve"}
               \/ w[x].pc = "ended" /\ w[x].res # "ok"
        /\ w[x].tries \in Nat /\ w[x].head \in Nat
        /\ w[x].pc \in {"idle", "reserve"} => w[x].tries <= HeadOf(Registry)
        /\ At(x, "reserve", "append") =>
               /\ w[x].tries <= w[x].head
               /\ w[x].head <= HeadOf(Registry)
               /\ w[x].head < cfg.capacity
               /\ w[x].head = HeadOf(Registry) => ReservedBy(o) = {}

\* The registry loads, and every call knows it right.
RegistryInv == RegistryLoads /\ \A x \in Made : Prepares(x) => RegistryCall(x)

\* Every version in the catalog has a key of its own, within the limit, and every other
\* row revokes another key.
CatalogCounts ==
    /\ Cardinality(Entries) = Cardinality({CatalogRows[i].body.key : i \in Entries})
    /\ Cardinality(Entries) <= CatalogVersions
    /\ Cardinality(DOMAIN CatalogRows \ Entries) = Cardinality(Revoked)

\* An append to the catalog at the head that was read is still admissible.
CatalogCallOK(x) ==
    /\ w[x].sub = "append" /\ w[x].pc \in {"register", "revoke"} =>
          w[x].head \in Nat /\ w[x].head <= HeadOf(Catalog)
    /\ At(x, "register", "append") /\ w[x].head = HeadOf(Catalog) =>
          EntriesOf(Req(x).key) = {} /\ Cardinality(Entries) < CatalogVersions
    /\ At(x, "revoke", "append") /\ w[x].head = HeadOf(Catalog) =>
          /\ Operation(Req(x).by) = {} /\ Req(x).key \notin Revoked
          /\ EntriesOf(Req(x).key) # {}

\* The catalog replays, within its limit, under every call.
CatalogInv == Replays /\ CatalogCounts /\ \A x \in Made : CatalogCallOK(x)

\* No version revoked before the call started is selected, loaded or returned by it.
RevocationCall(x) ==
    /\ w[x].pc = "idle" => w[x].ad = {}
    /\ w[x].since \subseteq Revoked
    /\ Prepares(x) => \A s \in w[x].ad : s.key \notin w[x].since
    /\ Req(x).op = "load" => w[x].pc # "load" \/ w[x].sub = "read" \/ Req(x).key \notin w[x].since
    /\ Req(x).op = "load" /\ Ended(x, "ok") => Req(x).key \notin w[x].since

\* Revocation is final for every call.
RevocationInv == \A x \in Made : RevocationCall(x)

-----------------------------------------------------------------------------
\* The snapshot of the instance reserved for the call's owner.
SnapOf(x) == [instance |-> CHOOSE i \in ReservedBy(Req(x).owner) : TRUE, def |-> Req(x).def]

\* The document the call's request archives under that snapshot.
DocOf(x) == DocumentOf(Req(x), SnapOf(x))

\* The owner's binding is the call's.
Bound(x) ==
    LET o == Req(x).owner
    IN  /\ ReservedBy(o) # {}
        /\ Req(x).op = "child" => Req(x).parent \in DOMAIN tasks
        /\ Rows(BindingStream(o)) = <<BindingDraft(o, Req(x).op, SnapOf(x))>>

\* The child's context fact is the call's.
Contexted(x) ==
    LET o == Req(x).owner
    IN  /\ Req(x).op = "child" /\ Bound(x)
        /\ Rows(ContextStream(o)) = <<ContextDraft(o, SnapOf(x), Req(x).msg)>>

\* The child's session was initialised as the call would.
Sessioned(x) ==
    LET o == Req(x).owner
    IN  /\ Contexted(x)
        /\ o \in DOMAIN sessions /\ sessions[o] = Initialization(SnapOf(x), Req(x).msg)

\* Everything that precedes the Skill selection is the call's.
Opened(x) == Bound(x) /\ (Req(x).op = "child" => Sessioned(x))

\* A selected version is in the catalog, as selected.
Registered(s) == \E i \in EntriesOf(s.key) :
                    s.registration = RegistrationAt(i) /\ s.meta = CatalogRows[i].body.meta

\* A selection is of registered versions and, while no version its list permits is
\* revoked, all of those.
AdSound(ad, def) ==
    /\ IsFiniteSet(ad)
    /\ \A s \in ad : Registered(s)
    /\ \A key \in Acl[def] : EntriesOf(key) # {}
    /\ Acl[def] \cap Revoked = {} => ad = Discover(def)

\* The owner's Skill selection is ad.
Selected(x, ad) ==
    LET o == Req(x).owner
    IN  /\ cfg.skills /\ Opened(x) /\ AdSound(ad, Req(x).def)
        /\ Rows(SkillStream(o, SnapOf(x))) = <<SkillDraft(o, SnapOf(x), ad)>>

\* Everything an input refers to is the call's.
Ready(x) == Opened(x) /\ (cfg.skills => Selected(x, SavedSelection(Req(x).owner, SnapOf(x))))

\* The owner's input is the call's, and its document is archived.
Published(x) ==
    LET o == Req(x).owner
    IN  /\ Ready(x) /\ DocOf(x) \in artifacts
        /\ Rows(InputStream(o)) = <<InputDraft(o, Req(x).op, SnapOf(x), DocOf(x))>>

\* The owner's Task was admitted with the call's input.
Admitted(x) ==
    LET o == Req(x).owner
    IN  /\ Published(x)
        /\ o \in DOMAIN tasks
        /\ tasks[o] = [snap |-> SnapOf(x), source |-> InputStream(o)]

\* The stream holds what a preparing call of its owner writes there.
Authored(s) ==
    \E x \in Made : Prepares(x) /\
        LET o == Req(x).owner
        IN  \/ s = BindingStream(o) /\ Bound(x)
            \/ s = ContextStream(o) /\ Contexted(x)
            \/ Opened(x) /\ s = SkillStream(o, SnapOf(x)) /\ Selected(x, SavedSelection(o, SnapOf(x)))
            \/ s = InputStream(o) /\ Published(x)

\* The call has its binding in place.
PastBinding(x) ==
    \/ Req(x).op = "child" /\ w[x].pc \in {"context", "session", "initialized"}
    \/ Req(x).op = "root" /\ cfg.skills /\ w[x].pc \in {"tools", "retain"}
    \/ w[x].pc \in {"skills", "archive", "publish", "admit"}
    \/ Ended(x, "ok")

\* The call has its context in place.
PastContext(x) ==
    Req(x).op = "child" /\
        (w[x].pc \in {"session", "initialized", "skills", "archive", "publish", "admit"} \/ Ended(x, "ok"))

\* The call has its session in place.
PastSession(x) ==
    Req(x).op = "child" /\
        (w[x].pc \in {"initialized", "skills", "archive", "publish", "admit"} \/ Ended(x, "ok"))

\* The call has its selection in place.
PastSkills(x) ==
    cfg.skills /\ (\/ Req(x).op = "root" /\ w[x].pc \in {"tools", "retain"}
                   \/ w[x].pc \in {"archive", "publish", "admit"} \/ Ended(x, "ok"))

\* What a call has passed is in place as its own request would have it, and a call that
\* ended did so for a reason.
CallSound(x) ==
    LET o == Req(x).owner
    IN  /\ Req(x).op = "child" /\ w[x].pc # "idle" => Req(x).parent \in DOMAIN tasks
        /\ PastBinding(x) => Bound(x)
        /\ At(x, "context", "confirm") => HeadOf(ContextStream(o)) > 0
        /\ PastContext(x) => Contexted(x)
        /\ PastSession(x) => Sessioned(x)
        /\ w[x].pc = "skills" /\ w[x].sub # "read" => AdSound(w[x].ad, Req(x).def)
        /\ At(x, "skills", "confirm") => HeadOf(SkillStream(o, SnapOf(x))) > 0
        /\ PastSkills(x) => Selected(x, w[x].ad)
        /\ w[x].pc \in {"publish", "admit"} \/ Ended(x, "ok") => DocOf(x) \in artifacts
        /\ At(x, "publish", "confirm") => HeadOf(InputStream(o)) > 0
        /\ w[x].pc = "admit" \/ Ended(x, "ok") => Published(x)
        /\ Ended(x, "ok") => Admitted(x)
        /\ w[x].pc = "ended" => Justified(x)

\* Every stream, session and Task is some preparing call's own, and every such call is
\* sound.
AuthorInv ==
    /\ \A s \in DOMAIN journal : s = Registry \/ s = Catalog \/ Authored(s)
    /\ \A o \in DOMAIN sessions : \E x \in Made : Prepares(x) /\ Req(x).owner = o /\ Sessioned(x)
    /\ \A o \in DOMAIN tasks : \E x \in Made : Prepares(x) /\ Req(x).owner = o /\ Admitted(x)
    /\ \A x \in Made : IF Prepares(x) THEN CallSound(x) ELSE w[x].instance = 0
-----------------------------------------------------------------------------
\* The empty sequence.
LEMMA EmptyTuple ==
    /\ << >> \in Seq(Range(<< >>)) /\ Len(<< >>) = 0 /\ DOMAIN << >> = {} /\ Range(<< >>) = {}
    /\ \A d : Append(<< >>, d) = <<d>>
BY DEF Range

\* A sequence of one.
LEMMA OneTuple ==
    ASSUME NEW d
    PROVE  /\ <<d>> \in Seq(Range(<<d>>)) /\ Len(<<d>>) = 1 /\ DOMAIN <<d>> = {1}
           /\ <<d>>[1] = d /\ Range(<<d>>) = {d}
BY DEF Range

\* A sequence of its own elements.
LEMMA SeqShape ==
    ASSUME NEW q, q \in Seq(Range(q))
    PROVE  /\ Len(q) \in Nat /\ DOMAIN q = 1..Len(q)
           /\ \A i \in 1..Len(q) : q[i] \in Range(q)
           /\ Len(q) = 0 => q = << >>
           /\ Len(q) = 1 => q = <<q[1]>>
<1>1. /\ Len(q) \in Nat /\ DOMAIN q = 1..Len(q) /\ \A i \in 1..Len(q) : q[i] \in Range(q)
    BY DEF Range
<1>2. Len(q) = 0 => q = << >>
    OBVIOUS
<1>3. Len(q) = 1 => q = <<q[1]>>
    <2>1. SUFFICES ASSUME Len(q) = 1 PROVE q = <<q[1]>>
        OBVIOUS
    <2>2. <<q[1]>> \in Seq(Range(q)) /\ Len(<<q[1]>>) = 1 /\ <<q[1]>>[1] = q[1]
        BY <1>1, <2>1
    <2>3. \A i \in 1..Len(q) : q[i] = <<q[1]>>[i]
        BY <2>1, <2>2
    <2> QED BY <2>1, <2>2, <2>3, SeqEqual
<1> QED BY <1>1, <1>2, <1>3

\* Appending to it.
LEMMA AppendSeq ==
    ASSUME NEW q, q \in Seq(Range(q)), NEW d
    PROVE  /\ Append(q, d) \in Seq(Range(Append(q, d)))
           /\ Len(Append(q, d)) = Len(q) + 1 /\ DOMAIN Append(q, d) = 1..(Len(q) + 1)
           /\ \A i \in 1..Len(q) : Append(q, d)[i] = q[i]
           /\ Append(q, d)[Len(q) + 1] = d
           /\ Range(Append(q, d)) = Range(q) \cup {d}
<1> DEFINE S == Range(q) \cup {d}
<1>1. q \in Seq(S) /\ d \in S
    BY SeqMonotonic
<1>2. /\ Append(q, d) \in Seq(S) /\ Len(Append(q, d)) = Len(q) + 1
      /\ DOMAIN Append(q, d) = 1..(Len(q) + 1)
      /\ \A i \in 1..Len(q) : Append(q, d)[i] = q[i]
      /\ Append(q, d)[Len(q) + 1] = d
    BY <1>1, AppendProperties
<1>3. Len(q) \in Nat /\ DOMAIN q = 1..Len(q)
    BY SeqShape
<1>4. Range(Append(q, d)) = S
    BY <1>2, <1>3 DEF Range
<1> QED BY <1>2, <1>4

\* What an append does to the rows of every stream.
LEMMA AppendedRows ==
    ASSUME NEW stream, NEW expected, NEW draft, journal' = Appended(stream, expected, draft)
    PROVE  /\ \A s : s # stream => Rows(s)' = Rows(s)
           /\ Rows(stream)' =
                  IF /\ AppendOutcome(stream, expected, draft) = "ok"
                     /\ expected = HeadOf(stream)
                  THEN Append(Rows(stream), draft) ELSE Rows(stream)
           /\ DOMAIN journal' \subseteq DOMAIN journal \cup {stream}
<1> DEFINE grown == AppendOutcome(stream, expected, draft) = "ok" /\ expected = HeadOf(stream)
<1>1. CASE grown
    <2>1. journal' = [k \in DOMAIN journal \cup {stream} |->
                         IF k = stream THEN Append(Rows(stream), draft) ELSE journal[k]]
        BY <1>1 DEF Appended, Put
    <2> QED BY <1>1, <2>1 DEF Rows
<1>2. CASE ~grown
    BY <1>2 DEF Appended, Rows
<1> QED BY <1>1, <1>2
-----------------------------------------------------------------------------
\* The place after one that is on a path once.
LEMMA AtPosition ==
    ASSUME NEW x, NEW n \in Nat, NEW i \in 1..n, Path(x)[i] = w[x].pc, DOMAIN Path(x) = 1..n,
           \A j \in 1..n : Path(x)[j] = Path(x)[i] => j = i
    PROVE  After(x) = Path(x)[i + 1]
<1>1. (CHOOSE j \in DOMAIN Path(x) : Path(x)[j] = w[x].pc) = i
    OBVIOUS
<1> QED BY <1>1 DEF After

\* The path of a root preparation.
LEMMA RootAfter ==
    ASSUME NEW x, Req(x).op = "root"
    PROVE  /\ Range(Path(x)) = {"reserve", "tools", "retain", "archive", "publish", "admit", "ended"}
                  \cup (IF cfg.skills THEN {"save", "skills"} ELSE {})
           /\ Path(x)[1] = "reserve"
           /\ w[x].pc = "reserve" => After(x) = IF cfg.skills THEN "save" ELSE "tools"
           /\ w[x].pc = "save" /\ cfg.skills => After(x) = "skills"
           /\ w[x].pc = "skills" /\ cfg.skills => After(x) = "tools"
           /\ w[x].pc = "tools" => After(x) = "retain"
           /\ w[x].pc = "retain" => After(x) = "archive"
           /\ w[x].pc = "archive" => After(x) = "publish"
           /\ w[x].pc = "publish" => After(x) = "admit"
           /\ w[x].pc = "admit" => After(x) = "ended"
<1>1. CASE cfg.skills
    <2> DEFINE p == <<"reserve", "save", "skills", "tools", "retain", "archive", "publish",
                      "admit", "ended">>
    <2>1. Path(x) = p
        BY <1>1 DEF Path, RootPath
    <2>2. DOMAIN p = 1..9
        OBVIOUS
    <2>3. /\ p[1] = "reserve" /\ p[2] = "save" /\ p[3] = "skills" /\ p[4] = "tools"
          /\ p[5] = "retain" /\ p[6] = "archive" /\ p[7] = "publish" /\ p[8] = "admit"
          /\ p[9] = "ended"
        OBVIOUS
    <2> HIDE DEF p
    <2>4. \A i \in 1..9, j \in 1..9 : p[j] = p[i] => j = i
        BY <2>3
    <2>5. \A i \in 1..9 : p[i] = w[x].pc => After(x) = p[i + 1]
        BY <2>1, <2>2, <2>4, AtPosition
    <2>6. Range(p) = {"reserve", "tools", "retain", "archive", "publish", "admit", "ended",
                      "save", "skills"}
        <3>1. Range(p) = {p[i] : i \in 1..9}
            BY <2>2 DEF Range
        <3>2. \A i \in 1..9 : \/ i = 1 \/ i = 2 \/ i = 3 \/ i = 4 \/ i = 5 \/ i = 6 \/ i = 7
                              \/ i = 8 \/ i = 9
            OBVIOUS
        <3> QED BY <2>3, <3>1, <3>2
    <2> QED BY <1>1, <2>1, <2>3, <2>5, <2>6
<1>2. CASE ~cfg.skills
    <2> DEFINE p == <<"reserve", "tools", "retain", "archive", "publish", "admit", "ended">>
    <2>1. Path(x) = p
        BY <1>2 DEF Path, RootPath
    <2>2. DOMAIN p = 1..7
        OBVIOUS
    <2>3. /\ p[1] = "reserve" /\ p[2] = "tools" /\ p[3] = "retain" /\ p[4] = "archive"
          /\ p[5] = "publish" /\ p[6] = "admit" /\ p[7] = "ended"
        OBVIOUS
    <2> HIDE DEF p
    <2>4. \A i \in 1..7, j \in 1..7 : p[j] = p[i] => j = i
        BY <2>3
    <2>5. \A i \in 1..7 : p[i] = w[x].pc => After(x) = p[i + 1]
        BY <2>1, <2>2, <2>4, AtPosition
    <2>6. Range(p) = {"reserve", "tools", "retain", "archive", "publish", "admit", "ended"}
        <3>1. Range(p) = {p[i] : i \in 1..7}
            BY <2>2 DEF Range
        <3>2. \A i \in 1..7 : i = 1 \/ i = 2 \/ i = 3 \/ i = 4 \/ i = 5 \/ i = 6 \/ i = 7
            OBVIOUS
        <3> QED BY <2>3, <3>1, <3>2
    <2> QED BY <1>2, <2>1, <2>3, <2>5, <2>6
<1> QED BY <1>1, <1>2

\* The path of a child preparation.
LEMMA ChildAfter ==
    ASSUME NEW x, Req(x).op = "child"
    PROVE  /\ Range(Path(x)) = {"reserve", "retain", "context", "session", "initialized", "archive",
                                "publish", "admit", "ended"}
                  \cup (IF cfg.skills THEN {"skills"} ELSE {})
           /\ Path(x)[1] = "reserve"
           /\ w[x].pc = "reserve" => After(x) = "retain"
           /\ w[x].pc = "retain" => After(x) = "context"
           /\ w[x].pc = "context" => After(x) = "session"
           /\ w[x].pc = "session" => After(x) = "initialized"
           /\ w[x].pc = "initialized" => After(x) = IF cfg.skills THEN "skills" ELSE "archive"
           /\ w[x].pc = "skills" /\ cfg.skills => After(x) = "archive"
           /\ w[x].pc = "archive" => After(x) = "publish"
           /\ w[x].pc = "publish" => After(x) = "admit"
           /\ w[x].pc = "admit" => After(x) = "ended"
<1>1. CASE cfg.skills
    <2> DEFINE p == <<"reserve", "retain", "context", "session", "initialized", "skills",
                      "archive", "publish", "admit", "ended">>
    <2>1. Path(x) = p
        BY <1>1 DEF Path, ChildPath
    <2>2. DOMAIN p = 1..10
        OBVIOUS
    <2>3. /\ p[1] = "reserve" /\ p[2] = "retain" /\ p[3] = "context" /\ p[4] = "session"
          /\ p[5] = "initialized" /\ p[6] = "skills" /\ p[7] = "archive" /\ p[8] = "publish"
          /\ p[9] = "admit" /\ p[10] = "ended"
        OBVIOUS
    <2> HIDE DEF p
    <2>4. \A i \in 1..10, j \in 1..10 : p[j] = p[i] => j = i
        BY <2>3
    <2>5. \A i \in 1..10 : p[i] = w[x].pc => After(x) = p[i + 1]
        BY <2>1, <2>2, <2>4, AtPosition
    <2>6. Range(p) = {"reserve", "retain", "context", "session", "initialized", "archive",
                      "publish", "admit", "ended", "skills"}
        <3>1. Range(p) = {p[i] : i \in 1..10}
            BY <2>2 DEF Range
        <3>2. \A i \in 1..10 : \/ i = 1 \/ i = 2 \/ i = 3 \/ i = 4 \/ i = 5 \/ i = 6 \/ i = 7
                               \/ i = 8 \/ i = 9 \/ i = 10
            OBVIOUS
        <3> QED BY <2>3, <3>1, <3>2
    <2> QED BY <1>1, <2>1, <2>3, <2>5, <2>6
<1>2. CASE ~cfg.skills
    <2> DEFINE p == <<"reserve", "retain", "context", "session", "initialized",
                      "archive", "publish", "admit", "ended">>
    <2>1. Path(x) = p
        BY <1>2 DEF Path, ChildPath
    <2>2. DOMAIN p = 1..9
        OBVIOUS
    <2>3. /\ p[1] = "reserve" /\ p[2] = "retain" /\ p[3] = "context" /\ p[4] = "session"
          /\ p[5] = "initialized" /\ p[6] = "archive" /\ p[7] = "publish"
          /\ p[8] = "admit" /\ p[9] = "ended"
        OBVIOUS
    <2> HIDE DEF p
    <2>4. \A i \in 1..9, j \in 1..9 : p[j] = p[i] => j = i
        BY <2>3
    <2>5. \A i \in 1..9 : p[i] = w[x].pc => After(x) = p[i + 1]
        BY <2>1, <2>2, <2>4, AtPosition
    <2>6. Range(p) = {"reserve", "retain", "context", "session", "initialized", "archive",
                      "publish", "admit", "ended"}
        <3>1. Range(p) = {p[i] : i \in 1..9}
            BY <2>2 DEF Range
        <3>2. \A i \in 1..9 : \/ i = 1 \/ i = 2 \/ i = 3 \/ i = 4 \/ i = 5 \/ i = 6 \/ i = 7
                              \/ i = 8 \/ i = 9
            OBVIOUS
        <3> QED BY <2>3, <3>1, <3>2
    <2> QED BY <1>2, <2>1, <2>3, <2>5, <2>6
<1> QED BY <1>1, <1>2

\* The path of a call of the Skill catalog.
LEMMA OtherAfter ==
    ASSUME NEW x, Req(x).op \in {"register", "revoke", "load"}
    PROVE  /\ Range(Path(x)) = {Req(x).op, "ended"}
           /\ Path(x)[1] = Req(x).op
           /\ w[x].pc = Req(x).op => After(x) = "ended"
<1> DEFINE p == <<Req(x).op, "ended">>
<1>1. Path(x) = p
    BY DEF Path
<1>2. DOMAIN p = 1..2 /\ p[1] = Req(x).op /\ p[2] = "ended"
    OBVIOUS
<1>3. p[1] # p[2]
    BY <1>2
<1> HIDE DEF p
<1>4. \A i \in 1..2, j \in 1..2 : p[j] = p[i] => j = i
    BY <1>3
<1>5. \A i \in 1..2 : p[i] = w[x].pc => After(x) = p[i + 1]
    <2>1. SUFFICES ASSUME NEW i \in 1..2, p[i] = w[x].pc PROVE After(x) = p[i + 1]
        OBVIOUS
    <2>2. Path(x)[i] = w[x].pc /\ DOMAIN Path(x) = 1..2 /\ 2 \in Nat
        BY <1>1, <1>2, <2>1
    <2>3. \A j \in 1..2 : Path(x)[j] = Path(x)[i] => j = i
        BY <1>1, <1>4
    <2>4. After(x) = Path(x)[i + 1]
        BY <2>2, <2>3, AtPosition
    <2> QED BY <1>1, <2>4
<1>6. Range(p) = {Req(x).op, "ended"}
    BY <1>2 DEF Range
<1> QED BY <1>1, <1>2, <1>5, <1>6
-----------------------------------------------------------------------------
\* No other call moves.
Others(x) == \A y \in Calls : y # x => w'[y] = w[y]

\* What a configuration is made of.
LEMMA Configured ==
    ASSUME cfg \in Configs
    PROVE  /\ Made \subseteq Calls
           /\ cfg.capacity \in Nat \ {0} /\ cfg.skills \in BOOLEAN
           /\ \A x \in Made : Req(x).op \in {"root", "child", "register", "revoke", "load"}
           /\ \A x \in Made : Req(x).op = "child" => Req(x).parent # Req(x).owner
<1>1. cfg.capacity \in Nat \ {0} /\ cfg.skills \in BOOLEAN /\ Made \subseteq Calls
    BY PreparationAssumption DEF Made
<1>2. \A x \in DOMAIN cfg.calls :
         /\ cfg.calls[x].op \in {"root", "child", "register", "revoke", "load"}
         /\ cfg.calls[x].op = "child" => cfg.calls[x].parent # cfg.calls[x].owner
    BY PreparationAssumption, Zenon
<1>3. \A x \in Made : Req(x).op \in {"root", "child", "register", "revoke", "load"}
    BY <1>2 DEF Made, Req
<1>4. \A x \in Made : Req(x).op = "child" => Req(x).parent # Req(x).owner
    BY <1>2, Zenon DEF Made, Req
<1> QED BY <1>1, <1>3, <1>4

\* What each kind of move makes of the calls' progress: to the next place,
LEMMA AdvanceCall ==
    ASSUME Progress, NEW x \in Calls, w' = Advance(x)
    PROVE  /\ Progress' /\ Others(x)
           /\ w'[x].pc = After(x) /\ w'[x].sub = "read"
           /\ w'[x].res = IF After(x) = "ended" THEN "ok" ELSE None
           /\ w'[x].head = w[x].head /\ w'[x].tries = w[x].tries
           /\ w'[x].instance = w[x].instance /\ w'[x].ad = w[x].ad /\ w'[x].since = w[x].since
BY DEF Progress, Fields, Others, Advance

\* to the next place with the instance reserved,
LEMMA AdvanceInstance ==
    ASSUME Progress, NEW x \in Calls, NEW n, w' = [Advance(x) EXCEPT ![x].instance = n]
    PROVE  /\ Progress' /\ Others(x)
           /\ w'[x].pc = After(x) /\ w'[x].sub = "read"
           /\ w'[x].res = IF After(x) = "ended" THEN "ok" ELSE None
           /\ w'[x].head = w[x].head /\ w'[x].tries = w[x].tries
           /\ w'[x].instance = n /\ w'[x].ad = w[x].ad /\ w'[x].since = w[x].since
BY DEF Progress, Fields, Others, Advance

\* to a refusal,
LEMMA RefuseCall ==
    ASSUME Progress, NEW x \in Calls, NEW why, w' = Refuse(x, why)
    PROVE  /\ Progress' /\ Others(x)
           /\ w'[x].pc = "ended" /\ w'[x].sub = w[x].sub /\ w'[x].res = why
           /\ w'[x].head = w[x].head /\ w'[x].tries = w[x].tries
           /\ w'[x].instance = w[x].instance /\ w'[x].ad = w[x].ad /\ w'[x].since = w[x].since
BY DEF Progress, Fields, Others, Refuse

\* to another step at the place,
LEMMA StepCall ==
    ASSUME Progress, NEW x \in Calls, NEW sub, w' = Step(x, sub)
    PROVE  /\ Progress' /\ Others(x)
           /\ w'[x].pc = w[x].pc /\ w'[x].sub = sub /\ w'[x].res = w[x].res
           /\ w'[x].head = w[x].head /\ w'[x].tries = w[x].tries
           /\ w'[x].instance = w[x].instance /\ w'[x].ad = w[x].ad /\ w'[x].since = w[x].since
BY DEF Progress, Fields, Others, Step

\* with the head that was read,
LEMMA StepHead ==
    ASSUME Progress, NEW x \in Calls, NEW sub, NEW n, w' = [Step(x, sub) EXCEPT ![x].head = n]
    PROVE  /\ Progress' /\ Others(x)
           /\ w'[x].pc = w[x].pc /\ w'[x].sub = sub /\ w'[x].res = w[x].res
           /\ w'[x].head = n /\ w'[x].tries = w[x].tries
           /\ w'[x].instance = w[x].instance /\ w'[x].ad = w[x].ad /\ w'[x].since = w[x].since
BY DEF Progress, Fields, Others, Step

\* with one more try,
LEMMA StepTries ==
    ASSUME Progress, NEW x \in Calls, NEW sub, w' = [Step(x, sub) EXCEPT ![x].tries = @ + 1]
    PROVE  /\ Progress' /\ Others(x)
           /\ w'[x].pc = w[x].pc /\ w'[x].sub = sub /\ w'[x].res = w[x].res
           /\ w'[x].head = w[x].head /\ w'[x].tries = w[x].tries + 1
           /\ w'[x].instance = w[x].instance /\ w'[x].ad = w[x].ad /\ w'[x].since = w[x].since
BY DEF Progress, Fields, Others, Step

\* with a selection,
LEMMA StepAd ==
    ASSUME Progress, NEW x \in Calls, NEW sub, NEW ad, w' = [Step(x, sub) EXCEPT ![x].ad = ad]
    PROVE  /\ Progress' /\ Others(x)
           /\ w'[x].pc = w[x].pc /\ w'[x].sub = sub /\ w'[x].res = w[x].res
           /\ w'[x].head = w[x].head /\ w'[x].tries = w[x].tries
           /\ w'[x].instance = w[x].instance /\ w'[x].ad = ad /\ w'[x].since = w[x].since
BY DEF Progress, Fields, Others, Step

\* from idle,
LEMMA StartCall ==
    ASSUME Progress, NEW x \in Calls, NEW pc, NEW since,
           w' = [w EXCEPT ![x].pc = pc, ![x].since = since]
    PROVE  /\ Progress' /\ Others(x)
           /\ w'[x].pc = pc /\ w'[x].sub = w[x].sub /\ w'[x].res = w[x].res
           /\ w'[x].head = w[x].head /\ w'[x].tries = w[x].tries
           /\ w'[x].instance = w[x].instance /\ w'[x].ad = w[x].ad /\ w'[x].since = since
BY DEF Progress, Fields, Others

\* and back to idle in a crash.
LEMMA CrashCall ==
    ASSUME Progress, NEW x \in Calls, w' = [w EXCEPT ![x] = Idle]
    PROVE  Progress' /\ Others(x) /\ w'[x] = Idle
BY DEF Progress, Fields, Others, Idle
-----------------------------------------------------------------------------
\* A call at work stands before another place of its path.
LEMMA OnPath ==
    ASSUME Shape, NEW x \in Made
    PROVE  /\ Path(x)[1] \in Range(Path(x)) /\ "ended" \in Range(Path(x))
           /\ w[x].pc \notin {"idle", "ended"} =>
                  /\ After(x) \in Range(Path(x))
                  /\ After(x) \notin {"idle", "reserve", "register", "revoke", "load"}
<1>1. Req(x).op \in {"root", "child"} \/ Req(x).op \in {"register", "revoke", "load"}
    BY Configured DEF Shape
<1>2. w[x].pc \in {"idle"} \cup Range(Path(x))
    BY DEF Shape
<1>3. CASE Req(x).op = "root"
    BY <1>2, <1>3, RootAfter
<1>4. CASE Req(x).op = "child"
    BY <1>2, <1>4, ChildAfter
<1>5. CASE Req(x).op \in {"register", "revoke", "load"}
    BY <1>2, <1>5, OtherAfter
<1> QED BY <1>1, <1>3, <1>4, <1>5

\* The places where a call works on more than its registration.
Worked == {"save", "retain", "tools", "context", "session", "initialized", "skills", "archive",
           "publish", "admit", "register", "revoke", "load"}

\* The moves such a call makes.
Onward(x) == \/ w' = Advance(x)
             \/ w[x].pc \notin {"register", "revoke", "load"} /\ \E sub : w' = Step(x, sub)
             \/ \E why : why # "ok" /\ w' = Refuse(x, why)

\* It writes one single fact at most.
Singly(x) ==
    \/ journal' = journal
    \/ \E stream, draft : /\ stream[1] \in Singles
                          /\ Written(stream, 0, draft)

\* A step of such a call.
Works(x) == /\ w[x].pc \in Worked /\ (w[x].pc = "load" => w[x].sub # "read")
            /\ Onward(x) /\ Singly(x) /\ cfg' = cfg

\* Such moves are steps of that kind.
LEMMA WorkMoves ==
    ASSUME NEW x, cfg' = cfg, w[x].pc \in Worked, Singly(x), w[x].pc = "load" => w[x].sub # "read",
           \/ w' = Advance(x)
           \/ w[x].pc \notin {"register", "revoke", "load"} /\ \E sub : w' = Step(x, sub)
           \/ \E why \in {"Journal", "Conflict", "Host", "Ownership", "Revoked", "Integrity",
                          "SkillConflict", "Causes"} : w' = Refuse(x, why)
    PROVE  Works(x)
BY DEF Works, Onward

\* The actions that are such steps.
LEMMA WorkSteps ==
    ASSUME NEW x \in Made,
           \/ Save(x) \/ AssembleTools(x) \/ Context(x)
           \/ BindCheck(x) \/ BindAppend(x) \/ BindConfirm(x)
           \/ Publish(x) \/ Admit(x) \/ CatalogConfirm(x) \/ LoadExecute(x)
    PROVE  Works(x)
<1> USE DEF Singly, Singles, Worked, At, Reads, Writes
<1>1. CASE SaveLoad(x)
    BY <1>1, WorkMoves DEF SaveLoad
<1>2. CASE SaveAppend(x)
    BY <1>2, WorkMoves DEF SaveAppend, BindingStream
<1>3. CASE AssembleTools(x)
    BY <1>3, WorkMoves DEF AssembleTools
<1>4. CASE ContextRead(x)
    BY <1>4, WorkMoves DEF ContextRead
<1>5. CASE ContextAppend(x)
    BY <1>5, WorkMoves DEF ContextAppend, ContextStream
<1>6. CASE ContextConfirm(x)
    BY <1>6, WorkMoves DEF ContextConfirm
<1>7. CASE InitializeContext(x)
    BY <1>7, WorkMoves DEF InitializeContext
<1>8. CASE LoadInitialization(x)
    BY <1>8, WorkMoves DEF LoadInitialization
<1>9. CASE BindCheck(x)
    BY <1>9, WorkMoves DEF BindCheck
<1>10. CASE BindAppend(x)
    BY <1>10, WorkMoves DEF BindAppend, SkillStream
<1>11. CASE BindConfirm(x)
    BY <1>11, WorkMoves DEF BindConfirm
<1>12. CASE Archive(x)
    BY <1>12, WorkMoves DEF Archive
<1>13. CASE PublishRead(x)
    BY <1>13, WorkMoves DEF PublishRead
<1>14. CASE PublishAppend(x)
    BY <1>14, WorkMoves DEF PublishAppend, InputStream
<1>15. CASE PublishConfirm(x)
    BY <1>15, WorkMoves DEF PublishConfirm
<1>16. CASE Admit(x)
    BY <1>16, WorkMoves DEF Admit
<1>17. CASE CatalogConfirm(x)
    BY <1>17, WorkMoves DEF CatalogConfirm
<1>18. CASE LoadExecute(x)
    BY <1>18, WorkMoves DEF LoadExecute
<1> QED BY <1>1, <1>2, <1>3, <1>4, <1>5, <1>6, <1>7, <1>8, <1>9, <1>10, <1>11, <1>12, <1>13,
           <1>14, <1>15, <1>16, <1>17, <1>18 DEF Save, Context, Publish

\* Every step is of one of these kinds.
LEMMA Kinds ==
    ASSUME Next
    PROVE  \E x \in Made :
               \/ Works(x) \/ Start(x) \/ ReserveLoad(x) \/ ReserveAppend(x) \/ DiscoverSkills(x)
               \/ RegisterRead(x) \/ RevokeRead(x) \/ AppendOnce(x) \/ LoadPrepare(x) \/ Crash(x)
BY WorkSteps DEF Next, Reserve, PrepareSkills, CatalogCall, LoadSkill

-----------------------------------------------------------------------------
(* Shape *)

\* Calls start idle.
LEMMA ShapeInit == Init => Shape
<1>1. SUFFICES ASSUME Init PROVE Shape
    OBVIOUS
<1>2. cfg \in Configs /\ w = [x \in Calls |-> Idle]
    BY <1>1 DEF Init
<1>3. \A x \in Calls : w[x] = Idle
    BY <1>2
<1>4. Progress
    BY <1>2, <1>3 DEF Progress, Idle, Fields
<1>5. \A x \in Made : w[x].pc = "idle"
    BY <1>2, <1>3, Configured DEF Idle
<1> QED BY <1>2, <1>4, <1>5 DEF Shape

\* One call that stays on its path keeps the shape.
LEMMA ShapeOf ==
    ASSUME Shape, cfg' = cfg, NEW x \in Made, Progress', Others(x),
           w'[x].pc \in {"idle"} \cup Range(Path(x))
    PROVE  Shape'
<1>1. Made' = Made /\ Made \subseteq Calls /\ \A y : Path(y)' = Path(y)
    BY Configured DEF Shape, Made, Path, Req, RootPath, ChildPath
<1>2. \A y \in Made' : w'[y].pc \in {"idle"} \cup Range(Path(y)')
    BY <1>1 DEF Shape, Others
<1> QED BY <1>2 DEF Shape

\* Every kind of move leaves the call where it was, at the next place or ended.
LEMMA Moves ==
    ASSUME Progress, NEW x \in Calls,
           \/ w' = Advance(x)
           \/ \E n : w' = [Advance(x) EXCEPT ![x].instance = n]
           \/ \E why : w' = Refuse(x, why)
           \/ \E sub : w' = Step(x, sub)
           \/ \E sub, n : w' = [Step(x, sub) EXCEPT ![x].head = n]
           \/ \E sub : w' = [Step(x, sub) EXCEPT ![x].tries = @ + 1]
           \/ \E sub, ad : w' = [Step(x, sub) EXCEPT ![x].ad = ad]
    PROVE  Progress' /\ Others(x) /\ w'[x].pc \in {After(x), "ended", w[x].pc}
<1>1. CASE w' = Advance(x)
    BY <1>1, AdvanceCall
<1>2. CASE \E n : w' = [Advance(x) EXCEPT ![x].instance = n]
    BY <1>2, AdvanceInstance
<1>3. CASE \E why : w' = Refuse(x, why)
    BY <1>3, RefuseCall
<1>4. CASE \E sub : w' = Step(x, sub)
    BY <1>4, StepCall
<1>5. CASE \E sub, n : w' = [Step(x, sub) EXCEPT ![x].head = n]
    <2>1. PICK sub, n : w' = [Step(x, sub) EXCEPT ![x].head = n]
        BY <1>5
    <2> QED BY <2>1, StepHead
<1>6. CASE \E sub : w' = [Step(x, sub) EXCEPT ![x].tries = @ + 1]
    BY <1>6, StepTries
<1>7. CASE \E sub, ad : w' = [Step(x, sub) EXCEPT ![x].ad = ad]
    <2>1. PICK sub, ad : w' = [Step(x, sub) EXCEPT ![x].ad = ad]
        BY <1>7
    <2> QED BY <2>1, StepAd
<1> QED BY <1>1, <1>2, <1>3, <1>4, <1>5, <1>6, <1>7

\* Every step keeps the shape.
LEMMA ShapeStep ==
    ASSUME Shape, Next
    PROVE  Shape'
<1>1. PICK x \in Made :
           \/ Works(x) \/ Start(x) \/ ReserveLoad(x) \/ ReserveAppend(x) \/ DiscoverSkills(x)
           \/ RegisterRead(x) \/ RevokeRead(x) \/ AppendOnce(x) \/ LoadPrepare(x) \/ Crash(x)
    BY Kinds
<1>2. x \in Calls /\ Progress /\ w[x].pc \in {"idle"} \cup Range(Path(x))
    BY Configured DEF Shape
<1>3. cfg' = cfg
    BY <1>1 DEF Works, Start, ReserveLoad, ReserveAppend, DiscoverSkills, RegisterRead, RevokeRead,
                AppendOnce, LoadPrepare, Crash, Reads, Writes
<1>4. CASE Start(x)
    <2>1. Progress' /\ Others(x) /\ w'[x].pc = Path(x)[1]
        BY <1>4, <1>2, StartCall DEF Start
    <2> QED BY <2>1, <1>3, OnPath, ShapeOf
<1>5. CASE Crash(x)
    <2>1. Progress' /\ Others(x) /\ w'[x].pc = "idle"
        <3>1. Progress' /\ Others(x) /\ w'[x] = Idle
            BY <1>5, <1>2, CrashCall DEF Crash
        <3> QED BY <3>1 DEF Idle
    <2> QED BY <2>1, <1>3, ShapeOf
<1>6. CASE ~Start(x) /\ ~Crash(x)
    <2>1. w[x].pc \notin {"idle", "ended"}
        BY <1>1, <1>6 DEF Works, Worked, ReserveLoad, ReserveAppend, DiscoverSkills,
               RegisterRead, RevokeRead, AppendOnce, LoadPrepare, At
    <2>2. \/ w' = Advance(x)
          \/ \E n : w' = [Advance(x) EXCEPT ![x].instance = n]
          \/ \E why : w' = Refuse(x, why)
          \/ \E sub : w' = Step(x, sub)
          \/ \E sub, n : w' = [Step(x, sub) EXCEPT ![x].head = n]
          \/ \E sub : w' = [Step(x, sub) EXCEPT ![x].tries = @ + 1]
          \/ \E sub, ad : w' = [Step(x, sub) EXCEPT ![x].ad = ad]
        <3>1. CASE Works(x) \/ AppendOnce(x)
            BY <3>1 DEF Works, Onward, AppendOnce
        <3>2. CASE ReserveLoad(x)
            BY <3>2 DEF ReserveLoad
        <3>3. CASE ReserveAppend(x)
            BY <3>3 DEF ReserveAppend
        <3>4. CASE DiscoverSkills(x) \/ LoadPrepare(x)
            BY <3>4 DEF DiscoverSkills, LoadPrepare
        <3>5. CASE RegisterRead(x) \/ RevokeRead(x)
            BY <3>5 DEF RegisterRead, RevokeRead
        <3> QED BY <1>1, <1>6, <3>1, <3>2, <3>3, <3>4, <3>5
    <2>3. Progress' /\ Others(x) /\ w'[x].pc \in {After(x), "ended", w[x].pc}
        BY <2>2, <1>2, Moves
    <2>4. w'[x].pc \in {"idle"} \cup Range(Path(x))
        BY <2>1, <2>3, <1>2, OnPath
    <2> QED BY <2>3, <2>4, <1>3, ShapeOf
<1> QED BY <1>4, <1>5, <1>6

\* Every call is where the code of its request can be: the order of prepare_root,
\* prepare_child and the Skill catalog's calls.
THEOREM ShapeTheorem == Spec => []Shape
<1>1. Shape /\ UNCHANGED vars => Shape'
    BY DEF vars, Shape, Progress, Made, Path, Req, RootPath, ChildPath
<1> QED BY <1>1, ShapeInit, ShapeStep, PTL DEF Spec

-----------------------------------------------------------------------------
(* The journal *)

\* A finite set in sequence.
LEMMA SetToSeqRange ==
    ASSUME NEW S, IsFiniteSet(S)
    PROVE  SetToSeq(S) \in Seq(S) /\ Range(SetToSeq(S)) \subseteq S
<1> DEFINE n == Cardinality(S)
<1>1. n \in Nat /\ Bijection(1..n, S) # {}
    BY FS_CardinalityType DEF ExistsBijection
<1>2. PICK f : f \in Bijection(1..n, S)
    BY <1>1
<1>3. f \in [1..n -> S] /\ IsInjective(f)
    BY <1>2 DEF Bijection, Injection
<1>4. SetToSeq(S) \in [1..n -> S]
    BY <1>3 DEF SetToSeq
<1>5. SetToSeq(S) \in Seq(S)
    BY <1>1, <1>4
<1> QED BY <1>5, RangeOfSeq

\* The causes of a selection are the ownership and the registrations selected.
LEMMA SkillCauses ==
    ASSUME NEW o, NEW snap, NEW ad, IsFiniteSet(ad)
    PROVE  \A c \in Range(SkillDraft(o, snap, ad).causes) :
               c = Ownership(o) \/ \E s \in ad : c = s.registration
<1> DEFINE R == {s.registration : s \in ad}
           f == [s \in ad |-> s.registration]
           T == R \cup {Ownership(o)}
<1>1. f \in Surjection(ad, R)
    BY DEF Surjection
<1>2. IsFiniteSet(R)
    BY <1>1, FS_Surjection
<1>3. SetToSeq(R) \in Seq(R) /\ Range(SetToSeq(R)) \subseteq R
    BY <1>2, SetToSeqRange
<1>4. SetToSeq(R) \in Seq(T)
    BY <1>3, SeqMonotonic
<1>5. <<Ownership(o)>> \in Seq(T) /\ Range(<<Ownership(o)>>) = {Ownership(o)}
    BY OneTuple
<1>6. Range(<<Ownership(o)>> \o SetToSeq(R)) = Range(<<Ownership(o)>>) \cup Range(SetToSeq(R))
    <2> DEFINE p == <<Ownership(o)>>
               q == SetToSeq(R)
    <2>1. p \in Seq(T) /\ q \in Seq(T)
        BY <1>4, <1>5
    <2> HIDE DEF p, q, T
    <2>2. Range(p \o q) = Range(p) \cup Range(q)
        BY <2>1, RangeConcatenation
    <2> QED BY <2>2 DEF p, q
<1>7. SkillDraft(o, snap, ad).causes = <<Ownership(o)>> \o SetToSeq(R)
    BY DEF SkillDraft
<1> QED BY <1>3, <1>5, <1>6, <1>7

\* What a place says about the request.
LEMMA Role ==
    ASSUME Shape, NEW x \in Made
    PROVE  /\ w[x].pc \in {"register", "revoke", "load"} => Req(x).op = w[x].pc
           /\ w[x].pc \in {"save", "tools"} => Req(x).op = "root"
           /\ w[x].pc \in {"context", "session", "initialized"} => Req(x).op = "child"
           /\ w[x].pc \in {"reserve", "retain", "skills", "archive", "publish", "admit"} => Prepares(x)
           /\ w[x].pc \in {"save", "skills"} => cfg.skills
<1>1. Req(x).op \in {"root", "child"} \/ Req(x).op \in {"register", "revoke", "load"}
    BY Configured DEF Shape
<1>2. w[x].pc \in {"idle"} \cup Range(Path(x))
    BY DEF Shape
<1>3. CASE Req(x).op = "root"
    BY <1>2, <1>3, RootAfter DEF Prepares
<1>4. CASE Req(x).op = "child"
    BY <1>2, <1>4, ChildAfter DEF Prepares
<1>5. CASE Req(x).op \in {"register", "revoke", "load"}
    BY <1>2, <1>5, OtherAfter DEF Prepares
<1> QED BY <1>1, <1>3, <1>4, <1>5

\* Streams that were never written are sound, too.
LEMMA AllStreams ==
    ASSUME JournalInv
    PROVE  \A s : StreamSound(s)
<1>1. ASSUME NEW s, s \notin DOMAIN journal PROVE StreamSound(s)
    <2>1. Rows(s) = << >>
        BY <1>1 DEF Rows
    <2> QED BY <2>1, EmptyTuple DEF StreamSound
<1> QED BY <1>1 DEF JournalInv

\* a draft the code may append, and where
Writing(stream, expected, draft) ==
    /\ Written(stream, expected, draft)
    /\ \/ stream[1] \in Singles /\ expected = 0 /\ draft.id = stream
       \/ stream = Registry /\ draft = Reservation(draft.body.owner, draft.body.instance)
       \/ /\ stream = Catalog /\ draft.body.kind = "registered"
          /\ draft = Registration(draft.body.key, draft.body.meta)
       \/ /\ stream = Catalog /\ draft.body.kind = "revoked"
          /\ draft = Revocation(draft.body.key, draft.causes[1], draft.body.op)
    /\ stream[1] # "input" => \A c \in Range(draft.causes) : c.stream[1] # "input"

\* what an append leaves of the journal
Extends ==
    /\ \A s : /\ HeadOf(s) \in Nat /\ HeadOf(s)' \in Nat /\ HeadOf(s) <= HeadOf(s)'
              /\ DOMAIN Rows(s) = 1..HeadOf(s) /\ DOMAIN Rows(s)' = 1..HeadOf(s)'
              /\ \A i \in 1..HeadOf(s) : Rows(s)'[i] = Rows(s)[i]
    /\ \A s : s[1] \in Singles /\ HeadOf(s) > 0 => Rows(s)' = Rows(s)
    /\ \A s : s \in DOMAIN journal => s \in DOMAIN journal'

\* Rows are only added, and single facts never changed.
LEMMA WritingExtends ==
    ASSUME \A s : StreamSound(s), NEW stream, NEW expected, NEW draft,
           Writing(stream, expected, draft)
    PROVE  Extends
<1>1. /\ \A s : s # stream => Rows(s)' = Rows(s)
      /\ Rows(stream)' = IF /\ AppendOutcome(stream, expected, draft) = "ok"
                            /\ expected = HeadOf(stream)
                         THEN Append(Rows(stream), draft) ELSE Rows(stream)
    BY AppendedRows DEF Writing, Written
<1>2. Rows(stream) \in Seq(Range(Rows(stream))) /\ HeadOf(stream) \in Nat
    BY DEF StreamSound, HeadOf
<1>3. /\ HeadOf(stream) \in Nat /\ HeadOf(stream)' \in Nat /\ HeadOf(stream) <= HeadOf(stream)'
      /\ \A i \in 1..HeadOf(stream) : Rows(stream)'[i] = Rows(stream)[i]
      /\ DOMAIN Rows(stream)' = 1..HeadOf(stream)'
    BY <1>1, <1>2, SeqShape, AppendSeq DEF HeadOf
<1>4. \A s : HeadOf(s) \in Nat /\ DOMAIN Rows(s) = 1..HeadOf(s)
    BY SeqShape DEF StreamSound, HeadOf
<1>5. \A s : /\ HeadOf(s) \in Nat /\ HeadOf(s)' \in Nat /\ HeadOf(s) <= HeadOf(s)'
             /\ DOMAIN Rows(s) = 1..HeadOf(s) /\ DOMAIN Rows(s)' = 1..HeadOf(s)'
             /\ \A i \in 1..HeadOf(s) : Rows(s)'[i] = Rows(s)[i]
    BY <1>1, <1>3, <1>4 DEF HeadOf
<1>6. stream[1] \in Singles /\ HeadOf(stream) > 0 => Rows(stream)' = Rows(stream)
    <2>1. stream[1] \in Singles => expected = 0
        BY DEF Writing, Singles, Registry, Catalog
    <2> QED BY <2>1, <1>1
<1>7. \A s : s[1] \in Singles /\ HeadOf(s) > 0 => Rows(s)' = Rows(s)
    BY <1>1, <1>6
<1>8. DOMAIN journal \subseteq DOMAIN journal'
    BY DEF Writing, Written, Appended, Put
<1> QED BY <1>5, <1>7, <1>8 DEF Extends

\* A cause that resolves keeps resolving.
LEMMA ResolvesStays ==
    ASSUME Extends, NEW ref, Resolves(ref)
    PROVE  Resolves(ref)'
<1> DEFINE s == ref.stream
           i == ref.position
<1>1. HeadOf(s) \in Nat /\ HeadOf(s)' \in Nat /\ HeadOf(s) <= HeadOf(s)'
    BY DEF Extends
<1>2. i \in 1..HeadOf(s) /\ Rows(s)[i].id = ref.id
    BY DEF Resolves
<1>3. Rows(s)'[i] = Rows(s)[i]
    BY <1>2 DEF Extends
<1> HIDE DEF s, i
<1>4. i \in 1..HeadOf(s)'
    BY <1>1, <1>2
<1> QED BY <1>2, <1>3, <1>4 DEF Resolves, s, i

\* Streams stay sound.
LEMMA WritingStreams ==
    ASSUME \A s : StreamSound(s), NEW stream, NEW expected, NEW draft,
           Writing(stream, expected, draft)
    PROVE  \A s : StreamSound(s)'
<1>1. /\ \A s : s # stream => Rows(s)' = Rows(s)
      /\ Rows(stream)' = IF /\ AppendOutcome(stream, expected, draft) = "ok"
                            /\ expected = HeadOf(stream)
                         THEN Append(Rows(stream), draft) ELSE Rows(stream)
    BY AppendedRows DEF Writing, Written
<1>2. Extends
    BY WritingExtends
<1>3. \A s, row : RowSound(s, row) => RowSound(s, row)'
    BY <1>2, ResolvesStays DEF RowSound
<1>4. ASSUME NEW s, Rows(s)' = Rows(s) PROVE StreamSound(s)'
    BY <1>3, <1>4 DEF StreamSound
<1>5. ASSUME AppendOutcome(stream, expected, draft) = "ok", expected = HeadOf(stream)
      PROVE  StreamSound(stream)'
    <2> DEFINE q == Rows(stream)
    <2>1. q \in Seq(Range(q)) /\ Len(q) \in Nat /\ DOMAIN q = 1..Len(q)
        BY SeqShape DEF StreamSound
    <2>2. Rows(stream)' = Append(q, draft)
        BY <1>1, <1>5
    <2>3. RowSound(stream, draft)
        <3>1. \A c \in Range(draft.causes) : Resolves(c)
            <4>1. HeadOf(stream) \in Nat
                BY <2>1 DEF HeadOf
            <4> QED BY <1>5, <4>1 DEF AppendOutcome
        <3> QED BY <3>1 DEF Writing, RowSound
    <2>4. /\ Append(q, draft) \in Seq(Range(Append(q, draft)))
          /\ Len(Append(q, draft)) = Len(q) + 1 /\ DOMAIN Append(q, draft) = 1..(Len(q) + 1)
          /\ \A i \in 1..Len(q) : Append(q, draft)[i] = q[i]
          /\ Append(q, draft)[Len(q) + 1] = draft
        BY <2>1, AppendSeq
    <2>5. stream[1] \in Singles => Len(q) = 0
        BY <1>5 DEF Writing, Singles, Registry, Catalog, HeadOf
    <2>6. \A i \in DOMAIN q : RowSound(stream, q[i])
        BY DEF StreamSound
    <2> HIDE DEF q
    <2>7. \A i \in 1..(Len(q) + 1) : RowSound(stream, Append(q, draft)[i])
        <3>1. TAKE i \in 1..(Len(q) + 1)
        <3>2. i \in 1..Len(q) \/ i = Len(q) + 1
            BY <2>1
        <3> QED BY <3>2, <2>1, <2>3, <2>4, <2>6
    <2>8. \A i \in DOMAIN Rows(stream)' : RowSound(stream, Rows(stream)[i])'
        <3>1. SUFFICES ASSUME NEW i \in DOMAIN Rows(stream)'
                       PROVE  RowSound(stream, Rows(stream)[i])'
            OBVIOUS
        <3>2. PICK row : row = Rows(stream)'[i]
            OBVIOUS
        <3>3. RowSound(stream, row)
            BY <2>2, <2>4, <2>7, <3>2
        <3>4. RowSound(stream, row)'
            BY <3>3, <1>3
        <3> QED BY <3>2, <3>4
    <2>9. stream[1] \in Singles => Len(Rows(stream)') <= 1
        BY <2>2, <2>4, <2>5
    <2>10. Rows(stream)' \in Seq(Range(Rows(stream)'))
        BY <2>2, <2>4
    <2> QED BY <2>8, <2>9, <2>10 DEF StreamSound
<1> QED BY <1>1, <1>4, <1>5

\* A step leaves the journal alone or writes a sound row.
LEMMA JournalMoves ==
    ASSUME Shape, JournalInv, Next
    PROVE  journal' = journal \/ \E stream, expected, draft : Writing(stream, expected, draft)
<1>1. PICK x \in Made : \/ Start(x) \/ Reserve(x) \/ Save(x) \/ AssembleTools(x)
                        \/ Context(x) \/ PrepareSkills(x) \/ Publish(x) \/ Admit(x)
                        \/ CatalogCall(x) \/ LoadSkill(x) \/ Crash(x)
    BY DEF Next
<1> DEFINE o == Req(x).owner
<1>2. CASE ReserveAppend(x)
    <2> DEFINE draft == Reservation(o, w[x].head + 1)
    <2>1. /\ draft = Reservation(draft.body.owner, draft.body.instance)
          /\ Range(draft.causes) = {} /\ Registry[1] = "instances"
        BY EmptyTuple DEF Reservation, Registry
    <2>2. Written(Registry, w[x].head, draft)
        BY <1>2 DEF ReserveAppend
    <2> QED BY <2>1, <2>2 DEF Writing
<1>3. CASE SaveAppend(x)
    <2> DEFINE draft == BindingOf(x)
    <2>1. /\ draft.id = BindingStream(o) /\ Range(draft.causes) = {}
          /\ BindingStream(o)[1] = "binding"
        BY EmptyTuple DEF BindingOf, BindingDraft, BindingStream
    <2>2. Written(BindingStream(o), 0, draft)
        BY <1>3 DEF SaveAppend
    <2> QED BY <2>1, <2>2 DEF Writing, Singles
<1>4. CASE ContextAppend(x)
    <2> DEFINE draft == ContextDraftOf(x)
    <2>1. /\ draft.id = ContextStream(o) /\ draft.causes = <<Ownership(o)>>
          /\ ContextStream(o)[1] = "context"
        BY DEF ContextDraftOf, ContextDraft, ContextStream
    <2>2. \A c \in Range(draft.causes) : c.stream[1] = "binding"
        BY <2>1, OneTuple DEF Ownership, FactRef, BindingStream
    <2>3. Written(ContextStream(o), 0, draft)
        BY <1>4 DEF ContextAppend
    <2> QED BY <2>1, <2>2, <2>3 DEF Writing, Singles
<1>5. CASE BindAppend(x)
    <2> DEFINE s == SkillStream(o, Snapshot(x))
               draft == SkillDraft(o, Snapshot(x), w[x].ad)
    <2>1. draft.id = s /\ s[1] = "skill"
        BY DEF SkillDraft, SkillStream
    <2>2. IsFiniteSet(w[x].ad) /\ \A e \in w[x].ad : e.registration.stream = Catalog
        BY <1>5, Role DEF BindAppend, At, JournalInv
    <2>3. \A c \in Range(draft.causes) : c.stream = BindingStream(o) \/ c.stream = Catalog
        BY <2>2, SkillCauses DEF Ownership, FactRef
    <2>4. \A c \in Range(draft.causes) : c.stream[1] # "input"
        BY <2>3 DEF BindingStream, Catalog
    <2>5. Written(s, 0, draft)
        BY <1>5 DEF BindAppend
    <2> QED BY <2>1, <2>4, <2>5 DEF Writing, Singles
<1>6. CASE PublishAppend(x)
    <2>1. InputOf(x).id = InputStream(o) /\ InputStream(o)[1] = "input"
        BY DEF InputOf, InputDraft, InputStream
    <2>2. Written(InputStream(o), 0, InputOf(x))
        BY <1>6 DEF PublishAppend
    <2> QED BY <2>1, <2>2 DEF Writing, Singles
<1>7. CASE AppendOnce(x)
    <2> DEFINE draft == CatalogDraft(x)
    <2>1. Written(Catalog, w[x].head, draft) /\ Catalog[1] = "catalog"
        BY <1>7 DEF AppendOnce, Catalog
    <2>2. CASE Req(x).op = "register"
        <3>1. /\ draft.body.kind = "registered" /\ Range(draft.causes) = {}
              /\ draft = Registration(draft.body.key, draft.body.meta)
            BY <2>2, EmptyTuple DEF CatalogDraft, Registration
        <3> QED BY <2>1, <3>1 DEF Writing
    <2>3. CASE Req(x).op # "register"
        <3> DEFINE r == RegistrationAt(CHOOSE i \in EntriesOf(Req(x).key) : TRUE)
        <3>1. draft = Revocation(Req(x).key, r, Req(x).by)
            BY <2>3 DEF CatalogDraft
        <3>2. /\ draft.body.kind = "revoked" /\ draft.causes = <<r>>
              /\ draft = Revocation(draft.body.key, draft.causes[1], draft.body.op)
            BY <3>1 DEF Revocation
        <3>3. \A c \in Range(draft.causes) : c = r
            BY <3>2, OneTuple
        <3>4. r.stream[1] = "catalog"
            BY DEF RegistrationAt, FactRef, Catalog
        <3> QED BY <2>1, <3>2, <3>3, <3>4 DEF Writing
    <2> QED BY <2>2, <2>3
<1>8. CASE /\ ~ReserveAppend(x) /\ ~SaveAppend(x) /\ ~ContextAppend(x) /\ ~BindAppend(x)
           /\ ~PublishAppend(x) /\ ~AppendOnce(x)
    BY <1>1, <1>8
       DEF Start, Reserve, Save, AssembleTools, Context, PrepareSkills, Publish, Admit, CatalogCall,
           LoadSkill, Crash, ReserveLoad, SaveLoad, ContextRead, ContextConfirm, InitializeContext,
           LoadInitialization, DiscoverSkills, BindCheck, BindConfirm, Archive, PublishRead,
           PublishConfirm, RegisterRead, RevokeRead, CatalogConfirm, LoadPrepare, LoadExecute, Reads
<1> QED BY <1>2, <1>3, <1>4, <1>5, <1>6, <1>7, <1>8

\* What such moves leave of the call.
LEMMA OnwardCall ==
    ASSUME Progress, NEW x \in Calls, Onward(x)
    PROVE  /\ Others(x)
           /\ w'[x].head = w[x].head /\ w'[x].tries = w[x].tries
           /\ w'[x].instance = w[x].instance /\ w'[x].ad = w[x].ad /\ w'[x].since = w[x].since
           /\ \/ /\ w'[x].pc = After(x) /\ w'[x].sub = "read"
                 /\ w'[x].res = IF After(x) = "ended" THEN "ok" ELSE None
              \/ w'[x].pc = w[x].pc /\ w[x].pc \notin {"register", "revoke", "load"}
              \/ w'[x].pc = "ended" /\ w'[x].res # "ok"
<1>1. CASE w' = Advance(x)
    BY <1>1, AdvanceCall
<1>2. CASE w[x].pc \notin {"register", "revoke", "load"} /\ \E sub : w' = Step(x, sub)
    BY <1>2, StepCall
<1>3. CASE \E why : why # "ok" /\ w' = Refuse(x, why)
    BY <1>3, RefuseCall
<1> QED BY <1>1, <1>2, <1>3 DEF Onward

\* Discovery finds finitely many references into the catalog.
LEMMA DiscoverFinite ==
    ASSUME JournalInv, NEW def
    PROVE  /\ IsFiniteSet(Discover(def))
           /\ \A s \in Discover(def) : s.registration.stream = Catalog
<1> DEFINE D == {j \in Entries : CatalogRows[j].body.key \in Acl[def] \ Revoked}
           f == [i \in D |-> [key |-> CatalogRows[i].body.key, meta |-> CatalogRows[i].body.meta,
                              registration |-> RegistrationAt(i)]]
<1>1. CatalogRows \in Seq(Range(CatalogRows))
    BY AllStreams DEF StreamSound, CatalogRows
<1>2. DOMAIN CatalogRows = 1..Len(CatalogRows) /\ Len(CatalogRows) \in Nat
    BY <1>1, SeqShape
<1>3. IsFiniteSet(DOMAIN CatalogRows)
    BY <1>2, FS_Interval
<1>4. D \subseteq DOMAIN CatalogRows
    BY DEF Entries
<1>5. IsFiniteSet(D)
    BY <1>3, <1>4, FS_Subset
<1>6. f \in Surjection(D, Discover(def))
    BY DEF Surjection, Discover
<1>7. IsFiniteSet(Discover(def))
    BY <1>5, <1>6, FS_Surjection
<1>8. \A s \in Discover(def) : s.registration.stream = Catalog
    BY DEF Discover, RegistrationAt, FactRef
<1> QED BY <1>7, <1>8

\* The journal starts empty.
LEMMA JournalInit == Init => JournalInv
<1>1. SUFFICES ASSUME Init PROVE JournalInv
    OBVIOUS
<1>2. \A s \in DOMAIN journal : StreamSound(s)
    BY <1>1, EmptyTuple DEF Init
<1>3. \A x \in Made : w[x].ad = {}
    <2>1. Made \subseteq Calls /\ w = [x \in Calls |-> Idle]
        BY <1>1, Configured DEF Init
    <2> QED BY <2>1 DEF Idle
<1> QED BY <1>2, <1>3, FS_EmptySet DEF JournalInv

\* Every step keeps the journal sound.
LEMMA JournalStep ==
    ASSUME Shape, JournalInv, Next
    PROVE  JournalInv'
<1>1. \A s : StreamSound(s)'
    <2>1. CASE journal' = journal
        BY <2>1, AllStreams DEF StreamSound, RowSound, Rows, Resolves, HeadOf
    <2>2. CASE \E stream, expected, draft : Writing(stream, expected, draft)
        BY <2>2, AllStreams, WritingStreams
    <2> QED BY <2>1, <2>2, JournalMoves
<1>2. PICK x \in Made :
           \/ Works(x) \/ Start(x) \/ ReserveLoad(x) \/ ReserveAppend(x) \/ DiscoverSkills(x)
           \/ RegisterRead(x) \/ RevokeRead(x) \/ AppendOnce(x) \/ LoadPrepare(x) \/ Crash(x)
    BY Kinds
<1>3. cfg' = cfg
    BY <1>2 DEF Works, Start, ReserveLoad, ReserveAppend, DiscoverSkills, RegisterRead, RevokeRead,
                AppendOnce, LoadPrepare, Crash, Reads, Writes
<1>4. Progress /\ x \in Calls /\ Made \subseteq Calls
    BY Configured DEF Shape
<1> DEFINE AdShape(ad) == IsFiniteSet(ad) /\ \A s \in ad : s.registration.stream = Catalog
<1>5. AdShape({})
    BY FS_EmptySet
<1>6. Prepares(x) => AdShape(w[x].ad)
    BY DEF JournalInv
<1>7. \A def : AdShape(Discover(def))
    BY DiscoverFinite
<1> HIDE DEF AdShape
<1>8. Others(x) /\ (Prepares(x) => AdShape(w'[x].ad))
    <2>1. CASE Works(x)
        BY <2>1, <1>4, <1>6, OnwardCall DEF Works
    <2>2. CASE Start(x)
        BY <2>2, <1>4, <1>6, StartCall DEF Start
    <2>3. CASE ReserveLoad(x)
        <3>1. \/ \E why : w' = Refuse(x, why)
              \/ \E n : w' = [Advance(x) EXCEPT ![x].instance = n]
              \/ \E n : w' = [Step(x, "append") EXCEPT ![x].head = n]
            BY <2>3 DEF ReserveLoad
        <3>2. CASE \E why : w' = Refuse(x, why)
            BY <3>2, <1>4, <1>6, RefuseCall
        <3>3. CASE \E n : w' = [Advance(x) EXCEPT ![x].instance = n]
            BY <3>3, <1>4, <1>6, AdvanceInstance
        <3>4. CASE \E n : w' = [Step(x, "append") EXCEPT ![x].head = n]
            <4>1. PICK n : w' = [Step(x, "append") EXCEPT ![x].head = n]
                BY <3>4
            <4>2. Others(x) /\ w'[x].ad = w[x].ad
                BY <4>1, <1>4, StepHead
            <4> QED BY <4>2, <1>6
        <3> QED BY <3>1, <3>2, <3>3, <3>4
    <2>4. CASE ReserveAppend(x)
        <3>1. \/ \E why : w' = Refuse(x, why)
              \/ \E n : w' = [Advance(x) EXCEPT ![x].instance = n]
              \/ w' = [Step(x, "read") EXCEPT ![x].tries = @ + 1]
            BY <2>4 DEF ReserveAppend
        <3>2. CASE \E why : w' = Refuse(x, why)
            BY <3>2, <1>4, <1>6, RefuseCall
        <3>3. CASE \E n : w' = [Advance(x) EXCEPT ![x].instance = n]
            BY <3>3, <1>4, <1>6, AdvanceInstance
        <3>4. CASE w' = [Step(x, "read") EXCEPT ![x].tries = @ + 1]
            BY <3>4, <1>4, <1>6, StepTries
        <3> QED BY <3>1, <3>2, <3>3, <3>4
    <2>5. CASE DiscoverSkills(x)
        <3>1. \/ \E why : w' = Refuse(x, why)
              \/ w' = [Step(x, "check") EXCEPT ![x].ad = Discover(Req(x).def)]
            BY <2>5 DEF DiscoverSkills
        <3>2. CASE \E why : w' = Refuse(x, why)
            BY <3>2, <1>4, <1>6, RefuseCall
        <3>3. CASE w' = [Step(x, "check") EXCEPT ![x].ad = Discover(Req(x).def)]
            <4>1. PICK ad : ad = Discover(Req(x).def)
                OBVIOUS
            <4>2. w' = [Step(x, "check") EXCEPT ![x].ad = ad]
                BY <3>3, <4>1
            <4>3. Others(x) /\ w'[x].ad = ad
                BY <4>2, <1>4 DEF Progress, Fields, Others, Step
            <4> QED BY <4>1, <4>3, <1>7
        <3> QED BY <3>1, <3>2, <3>3
    <2>6. CASE RegisterRead(x) \/ RevokeRead(x)
        <3>1. \/ \E why : w' = Refuse(x, why)
              \/ w' = Advance(x)
              \/ \E n : w' = [Step(x, "append") EXCEPT ![x].head = n]
            BY <2>6 DEF RegisterRead, RevokeRead
        <3>2. CASE \E why : w' = Refuse(x, why)
            BY <3>2, <1>4, <1>6, RefuseCall
        <3>3. CASE w' = Advance(x)
            BY <3>3, <1>4, <1>6, AdvanceCall
        <3>4. CASE \E n : w' = [Step(x, "append") EXCEPT ![x].head = n]
            <4>1. PICK n : w' = [Step(x, "append") EXCEPT ![x].head = n]
                BY <3>4
            <4>2. Others(x) /\ w'[x].ad = w[x].ad
                BY <4>1, <1>4, StepHead
            <4> QED BY <4>2, <1>6
        <3> QED BY <3>1, <3>2, <3>3, <3>4
    <2>7. CASE AppendOnce(x)
        BY <2>7, <1>4, <1>6, StepCall DEF AppendOnce
    <2>8. CASE LoadPrepare(x)
        <3>1. ~Prepares(x)
            BY <2>8, Role DEF LoadPrepare, At, Prepares
        <3>2. \/ \E why : w' = Refuse(x, why)
              \/ \E ad : w' = [Step(x, "granted") EXCEPT ![x].ad = ad]
            BY <2>8 DEF LoadPrepare
        <3>3. CASE \E why : w' = Refuse(x, why)
            BY <3>3, <3>1, <1>4, RefuseCall
        <3>4. CASE \E ad : w' = [Step(x, "granted") EXCEPT ![x].ad = ad]
            BY <3>4, <3>1, <1>4, StepAd
        <3> QED BY <3>2, <3>3, <3>4
    <2>9. CASE Crash(x)
        <3>1. Others(x) /\ w'[x] = Idle
            BY <2>9, <1>4, CrashCall DEF Crash
        <3> QED BY <3>1, <1>5 DEF Idle
    <2> QED BY <1>2, <2>1, <2>2, <2>3, <2>4, <2>5, <2>6, <2>7, <2>8, <2>9
<1>9. \A y \in Made' : Prepares(y)' => AdShape(w'[y].ad)
    <2>1. SUFFICES ASSUME NEW y \in Made, Prepares(y) PROVE AdShape(w'[y].ad)
        BY <1>3 DEF Made, Prepares, Req
    <2>2. CASE y = x
        BY <2>1, <2>2, <1>8
    <2>3. CASE y # x
        BY <2>1, <2>3, <1>4, <1>8 DEF JournalInv, Others, AdShape
    <2> QED BY <2>2, <2>3
<1> QED BY <1>1, <1>9 DEF JournalInv, AdShape

\* Whatever calls run beside each other and crash, a stream that holds one fact never
\* holds two, and every cause in the journal resolves (FactJournal::append).
THEOREM JournalTheorem == Spec => []JournalInv
<1>1. JournalInv /\ UNCHANGED vars => JournalInv'
    BY DEF vars, JournalInv, StreamSound, RowSound, Rows, Resolves, HeadOf, Made, Prepares, Req
<1>2. Shape /\ JournalInv /\ [Next]_vars => JournalInv'
    BY <1>1, JournalStep
<1> QED BY <1>2, JournalInit, ShapeTheorem, PTL DEF Spec

-----------------------------------------------------------------------------
(* The registry *)

\* A step only adds to the journal.
LEMMA StepExtends ==
    ASSUME Shape, JournalInv, Next
    PROVE  Extends
<1>1. CASE journal' = journal
    <2>1. \A s : HeadOf(s) \in Nat /\ DOMAIN Rows(s) = 1..HeadOf(s)
        BY AllStreams, SeqShape DEF StreamSound, HeadOf
    <2>2. \A s : Rows(s)' = Rows(s)
        BY <1>1 DEF Rows
    <2>3. \A s : HeadOf(s)' = HeadOf(s)
        BY <2>2 DEF HeadOf
    <2> QED BY <1>1, <2>1, <2>2, <2>3 DEF Extends
<1>2. CASE \E stream, expected, draft : Writing(stream, expected, draft)
    BY <1>2, AllStreams, WritingExtends
<1> QED BY <1>1, <1>2, JournalMoves

\* The steps that write neither registry nor catalog.
LEMMA OtherStreams ==
    ASSUME NEW x, \/ Works(x) \/ Start(x) \/ ReserveLoad(x) \/ DiscoverSkills(x)
                  \/ RegisterRead(x) \/ RevokeRead(x) \/ LoadPrepare(x) \/ Crash(x)
    PROVE  Rows(Registry)' = Rows(Registry) /\ Rows(Catalog)' = Rows(Catalog)
<1>1. journal' = journal \/ \E stream, draft : stream[1] \in Singles /\ Written(stream, 0, draft)
    BY DEF Works, Singly, Start, ReserveLoad, DiscoverSkills, RegisterRead, RevokeRead, LoadPrepare,
           Crash, Reads
<1>2. CASE journal' = journal
    BY <1>2 DEF Rows
<1>3. ASSUME NEW stream, NEW draft, stream[1] \in Singles, Written(stream, 0, draft)
      PROVE  Rows(Registry)' = Rows(Registry) /\ Rows(Catalog)' = Rows(Catalog)
    <2>1. stream # Registry /\ stream # Catalog
        BY <1>3 DEF Singles, Registry, Catalog
    <2> QED BY <1>3, <2>1, AppendedRows DEF Written
<1> QED BY <1>1, <1>2, <1>3

\* The steps that do not write the registry.
LEMMA RegistryOnly ==
    ASSUME NEW x, \/ Works(x) \/ Start(x) \/ ReserveLoad(x) \/ DiscoverSkills(x) \/ RegisterRead(x)
                  \/ RevokeRead(x) \/ AppendOnce(x) \/ LoadPrepare(x) \/ Crash(x)
    PROVE  Rows(Registry)' = Rows(Registry)
<1>1. CASE AppendOnce(x)
    <2>1. Registry # Catalog
        BY DEF Registry, Catalog
    <2> QED BY <1>1, <2>1, AppendedRows DEF AppendOnce, Written
<1> QED BY <1>1, OtherStreams

\* A reservation of an owner that has none is a new fact.
LEMMA ReservationFresh ==
    ASSUME JournalInv, NEW o, NEW n, ReservedBy(o) = {}
    PROVE  ~IdentityTaken(Reservation(o, n).id)
<1>1. SUFFICES ASSUME NEW s \in DOMAIN journal, NEW i \in DOMAIN journal[s],
                      journal[s][i].id = <<"reservation", o>>
               PROVE  FALSE
    BY DEF IdentityTaken, Reservation
<1>2. Rows(s) = journal[s]
    BY DEF Rows
<1>3. PICK row : row = journal[s][i]
    OBVIOUS
<1>4. RowSound(s, row) /\ row.id = <<"reservation", o>>
    BY <1>1, <1>2, <1>3, AllStreams DEF StreamSound
<1>5. ~(s[1] \in Singles /\ row.id = s)
    BY <1>4 DEF Singles
<1>6. ~(row = Registration(row.body.key, row.body.meta))
    BY <1>4 DEF Registration
<1>7. ~(row = Revocation(row.body.key, row.causes[1], row.body.op))
    BY <1>4 DEF Revocation
<1>8. s = Registry /\ row = Reservation(row.body.owner, row.body.instance)
    BY <1>4, <1>5, <1>6, <1>7 DEF RowSound
<1>9. row.body.owner = o
    BY <1>4, <1>8 DEF Reservation
<1>10. i \in ReservedBy(o)
    BY <1>2, <1>3, <1>8, <1>9 DEF ReservedBy
<1> QED BY <1>10

\* a reservation once made stays the owner's
LEMMA RegistryKeeps ==
    ASSUME Extends, RegistryLoads', NEW o
    PROVE  /\ ReservedBy(o) \subseteq ReservedBy(o)'
           /\ \A i : ReservedBy(o) = {i} => ReservedBy(o)' = {i}
           /\ HeadOf(Registry)' = HeadOf(Registry) => ReservedBy(o)' = ReservedBy(o)
<1> DEFINE q == Rows(Registry)
<1>1. /\ HeadOf(Registry) \in Nat /\ HeadOf(Registry)' \in Nat
      /\ HeadOf(Registry) <= HeadOf(Registry)'
      /\ DOMAIN Rows(Registry) = 1..HeadOf(Registry)
      /\ DOMAIN Rows(Registry)' = 1..HeadOf(Registry)'
      /\ \A i \in 1..HeadOf(Registry) : Rows(Registry)'[i] = Rows(Registry)[i]
    BY DEF Extends
<1>2. DOMAIN Rows(Registry) \subseteq DOMAIN Rows(Registry)'
    BY <1>1
<1>3. ReservedBy(o) = {i \in DOMAIN Rows(Registry) : Rows(Registry)[i].body.owner = o}
    BY DEF ReservedBy
<1>4. ReservedBy(o)' = {i \in DOMAIN Rows(Registry)' : Rows(Registry)'[i].body.owner = o}
    BY DEF ReservedBy
<1>5. ReservedBy(o) \subseteq ReservedBy(o)'
    BY <1>1, <1>2, <1>3, <1>4
<1>6. ASSUME NEW i, ReservedBy(o) = {i} PROVE ReservedBy(o)' = {i}
    <2>1. i \in DOMAIN Rows(Registry)' /\ Rows(Registry)'[i].body.owner = o
        BY <1>4, <1>5, <1>6
    <2>2. ReservedBy(Rows(Registry)[i].body.owner)' = {i}
        BY <2>1 DEF RegistryLoads
    <2> QED BY <2>1, <2>2 DEF ReservedBy
<1>7. HeadOf(Registry)' = HeadOf(Registry) => ReservedBy(o)' = ReservedBy(o)
    BY <1>1, <1>3, <1>4
<1> QED BY <1>5, <1>6, <1>7

\* What an append of reserve comes to: the owner's reservation stands, or the
\* head has moved and the attempt is repeated.
LEMMA ReserveOutcome ==
    ASSUME Shape, JournalInv, RegistryInv, NEW x \in Made, ReserveAppend(x),
           NEW o, o = Req(x).owner, NEW head, head = w[x].head
    PROVE  LET outcome == AppendOutcome(Registry, head, Reservation(o, head + 1))
           IN  /\ outcome = "ok" => RegistryLoads' /\ ReservedBy(o)' = {head + 1}
               /\ outcome # "ok" => Rows(Registry)' = Rows(Registry) /\ HeadOf(Registry) > head
               /\ outcome \in {"ok", "Conflict"} /\ head \in Nat
<1> DEFINE draft == Reservation(o, head + 1)
           q == Rows(Registry)
<1>1. /\ head \in Nat /\ head <= HeadOf(Registry) /\ head < cfg.capacity /\ cfg.capacity \in Nat
      /\ head = HeadOf(Registry) => ReservedBy(o) = {}
    <2>1. Prepares(x) /\ At(x, "reserve", "append")
        BY Role DEF ReserveAppend, At
    <2> QED BY <2>1, Configured DEF RegistryInv, RegistryCall, Shape
<1>2. /\ q \in Seq(Range(q)) /\ HeadOf(Registry) \in Nat /\ DOMAIN q = 1..HeadOf(Registry)
      /\ Len(q) = HeadOf(Registry)
    BY AllStreams, SeqShape DEF StreamSound, HeadOf
<1>3. Rows(Registry)' = IF /\ AppendOutcome(Registry, head, draft) = "ok"
                           /\ head = HeadOf(Registry)
                        THEN Append(q, draft) ELSE q
    BY AppendedRows DEF ReserveAppend, Written
<1>4. cfg' = cfg
    BY DEF ReserveAppend, Writes
<1>5. CASE head < HeadOf(Registry)
    <2>1. /\ AppendOutcome(Registry, head, draft) = IF q[head + 1] = draft THEN "ok" ELSE "Conflict"
          /\ Rows(Registry)' = q
        BY <1>1, <1>2, <1>3, <1>5 DEF AppendOutcome
    <2>2. RegistryLoads'
        BY <1>4, <2>1 DEF RegistryInv, RegistryLoads, HeadOf, ReservedBy
    <2>3. ASSUME q[head + 1] = draft PROVE ReservedBy(o)' = {head + 1}
        <3>1. head + 1 \in DOMAIN q /\ q[head + 1].body.owner = o
            BY <1>1, <1>2, <1>5, <2>3 DEF Reservation
        <3>2. ReservedBy(o) = {head + 1}
            BY <3>1 DEF RegistryInv, RegistryLoads
        <3> QED BY <3>2, <2>1 DEF ReservedBy
    <2> QED BY <1>1, <1>5, <2>1, <2>2, <2>3
<1>6. CASE head = HeadOf(Registry)
    <2>1. ReservedBy(o) = {}
        BY <1>1, <1>6
    <2>2. ~IdentityTaken(draft.id) /\ Range(draft.causes) = {}
        BY <2>1, ReservationFresh, EmptyTuple DEF Reservation
    <2>3. AppendOutcome(Registry, head, draft) = "ok"
        BY <1>1, <1>6, <2>2 DEF AppendOutcome
    <2>4. Rows(Registry)' = Append(q, draft)
        BY <1>3, <1>6, <2>3
    <2>5. /\ DOMAIN Rows(Registry)' = 1..(head + 1) /\ Rows(Registry)'[head + 1] = draft
          /\ HeadOf(Registry)' = head + 1
          /\ \A i \in 1..head : Rows(Registry)'[i] = q[i]
        BY <1>2, <1>6, <2>4, AppendSeq DEF HeadOf
    <2>6. draft.body.owner = o /\ draft = Reservation(draft.body.owner, head + 1)
        BY DEF Reservation
    <2>7. \A i \in 1..head : q[i].body.owner # o
        BY <1>2, <1>6, <2>1 DEF ReservedBy
    <2>8. \A p : ReservedBy(p)' = {i \in 1..(head + 1) : Rows(Registry)'[i].body.owner = p}
        BY <2>5 DEF ReservedBy
    <2>9. \A p : ReservedBy(p) = {i \in 1..head : q[i].body.owner = p}
        BY <1>2, <1>6 DEF ReservedBy
    <2>10. ReservedBy(o)' = {head + 1}
        <3>1. \A i \in 1..(head + 1) : i = head + 1 \/ i \in 1..head
            BY <1>1
        <3>2. head + 1 \in 1..(head + 1)
            BY <1>1
        <3>3. \A i \in 1..(head + 1) : Rows(Registry)'[i].body.owner = o <=> i = head + 1
            BY <1>1, <2>5, <2>6, <2>7, <3>1
        <3> QED BY <2>8, <3>2, <3>3
    <2>11. ASSUME NEW i \in 1..head
           PROVE  /\ Rows(Registry)'[i] = Reservation(q[i].body.owner, i)
                  /\ ReservedBy(q[i].body.owner)' = {i}
        <3>1. q[i] = Reservation(q[i].body.owner, i) /\ ReservedBy(q[i].body.owner) = {i}
            BY <1>2, <1>6 DEF RegistryInv, RegistryLoads
        <3>2. PICK p : p = q[i].body.owner
            OBVIOUS
        <3>3. ReservedBy(p)' = ReservedBy(p)
            <4>1. p # o
                BY <2>7, <3>2
            <4>2. \A k \in 1..(head + 1) : k = head + 1 \/ k \in 1..head
                BY <1>1
            <4>3. \A k \in 1..head : k \in 1..(head + 1)
                BY <1>1
            <4>4. \A k \in 1..(head + 1) :
                     Rows(Registry)'[k].body.owner = p <=> k \in 1..head /\ q[k].body.owner = p
                BY <2>5, <2>6, <4>1, <4>2
            <4> QED BY <2>8, <2>9, <4>3, <4>4
        <3> QED BY <2>5, <3>1, <3>2, <3>3
    <2>12. RegistryLoads'
        <3>1. HeadOf(Registry)' <= cfg'.capacity
            BY <1>1, <1>4, <2>5
        <3>2. ASSUME NEW i \in DOMAIN Rows(Registry)'
              PROVE  /\ (Rows(Registry)[i] = Reservation(Rows(Registry)[i].body.owner, i))'
                     /\ (ReservedBy(Rows(Registry)[i].body.owner) = {i})'
            <4>1. i \in 1..head \/ i = head + 1
                BY <1>1, <2>5
            <4>2. CASE i \in 1..head
                <5>1. PICK p : p = q[i].body.owner
                    OBVIOUS
                <5>2. ReservedBy(p)' = {i} /\ Rows(Registry)'[i] = q[i]
                    BY <2>5, <2>11, <4>2, <5>1
                <5> QED BY <2>11, <4>2, <5>1, <5>2
            <4>3. CASE i = head + 1
                BY <2>5, <2>6, <2>10, <4>3
            <4> QED BY <4>1, <4>2, <4>3
        <3> QED BY <3>1, <3>2 DEF RegistryLoads
    <2> QED BY <1>1, <2>3, <2>10, <2>12
<1> QED BY <1>1, <1>2, <1>5, <1>6

\* The registry starts empty.
LEMMA RegistryInit == Init => RegistryInv
<1>1. SUFFICES ASSUME Init PROVE RegistryInv
    OBVIOUS
<1>2. /\ Rows(Registry) = << >> /\ HeadOf(Registry) = 0 /\ cfg.capacity \in Nat \ {0}
      /\ Made \subseteq Calls
    BY <1>1, Configured DEF Init, Rows, HeadOf
<1>3. RegistryLoads
    BY <1>2 DEF RegistryLoads, HeadOf
<1>4. \A x \in Made : w[x] = Idle
    BY <1>1, <1>2 DEF Init
<1>5. \A x \in Made : RegistryCall(x)
    BY <1>2, <1>4 DEF RegistryCall, At, Idle
<1> QED BY <1>3, <1>5 DEF RegistryInv

\* Calls that do not move keep knowing the registry.
LEMMA RegistryCallStays ==
    ASSUME Extends, RegistryLoads', cfg' = cfg, NEW y \in Made, RegistryCall(y), w'[y] = w[y]
    PROVE  RegistryCall(y)'
<1>1. PICK o : o = Req(y).owner
    OBVIOUS
<1>2. o = Req(y)'.owner
    BY <1>1 DEF Req
<1>3. /\ HeadOf(Registry) \in Nat /\ HeadOf(Registry)' \in Nat
      /\ HeadOf(Registry) <= HeadOf(Registry)'
    BY DEF Extends
<1>4. /\ \A i : ReservedBy(o) = {i} => ReservedBy(o)' = {i}
      /\ HeadOf(Registry)' = HeadOf(Registry) => ReservedBy(o)' = ReservedBy(o)
    BY RegistryKeeps
<1> QED BY <1>1, <1>2, <1>3, <1>4 DEF RegistryCall, At

\* Every step keeps the registry.
LEMMA RegistryStep ==
    ASSUME Shape, JournalInv, RegistryInv, Next
    PROVE  RegistryInv'
<1>1. PICK x \in Made :
           \/ Works(x) \/ Start(x) \/ ReserveLoad(x) \/ ReserveAppend(x) \/ DiscoverSkills(x)
           \/ RegisterRead(x) \/ RevokeRead(x) \/ AppendOnce(x) \/ LoadPrepare(x) \/ Crash(x)
    BY Kinds
<1>2. cfg' = cfg
    BY <1>1 DEF Works, Start, ReserveLoad, ReserveAppend, DiscoverSkills, RegisterRead, RevokeRead,
                AppendOnce, LoadPrepare, Crash, Reads, Writes
<1>3. Progress /\ x \in Calls /\ Made \subseteq Calls /\ Extends
    BY Configured, StepExtends DEF Shape
<1>4. PICK o, head : o = Req(x).owner /\ head = w[x].head
    OBVIOUS
<1>5. o = Req(x)'.owner /\ Prepares(x)' = Prepares(x)
    BY <1>2, <1>4 DEF Req, Prepares
<1>6. RegistryLoads'
    <2>1. CASE Rows(Registry)' = Rows(Registry)
        BY <1>2, <2>1 DEF RegistryInv, RegistryLoads, HeadOf, ReservedBy
    <2>2. CASE ReserveAppend(x)
        BY <2>1, <2>2, <1>4, ReserveOutcome
    <2> QED BY <1>1, <2>1, <2>2, RegistryOnly
<1>7. /\ HeadOf(Registry) \in Nat /\ HeadOf(Registry)' \in Nat
      /\ HeadOf(Registry) <= HeadOf(Registry)'
      /\ \A i : ReservedBy(o) = {i} => ReservedBy(o)' = {i}
    BY <1>3, <1>6, RegistryKeeps DEF Extends
<1>8. Prepares(x) => RegistryCall(x)
    BY DEF RegistryInv
<1>9. SUFFICES Others(x) /\ (Prepares(x) => RegistryCall(x)')
    <2>1. SUFFICES ASSUME NEW y \in Made, Prepares(y), y # x, Others(x)
                   PROVE  RegistryCall(y)'
        BY <1>2, <1>6 DEF RegistryInv, Made, Prepares, Req
    <2> QED BY <2>1, <1>2, <1>3, <1>6, RegistryCallStays DEF RegistryInv, Others

\* a move of a call that holds its instance, or ends without one
<1>10. ASSUME NEW pc, w'[x].pc = pc, pc \notin {"idle", "reserve"}, w'[x].instance = w[x].instance,
              w'[x].tries = w[x].tries, w'[x].head \in Nat,
              w[x].instance = 0 => pc = "ended" /\ w'[x].res # "ok"
       PROVE  Prepares(x) => RegistryCall(x)'
    BY <1>4, <1>5, <1>7, <1>8, <1>10 DEF RegistryCall, At
<1>11. CASE Works(x)
    <2>1. w[x].pc \in Worked /\ Onward(x)
        BY <1>11 DEF Works
    <2>2. After(x) \notin {"idle", "reserve"}
        BY <2>1, OnPath DEF Worked
    <2>3. Prepares(x) => w[x].instance # 0 /\ w[x].head \in Nat
        BY <2>1, <1>8 DEF RegistryCall, Worked
    <2> QED BY <2>1, <2>2, <2>3, <1>3, <1>10, OnwardCall DEF Worked
<1>12. CASE Start(x)
    <2>1. Others(x) /\ w'[x].pc = Path(x)[1] /\ w'[x].sub = "read" /\ w'[x].tries = w[x].tries
          /\ w'[x].head = w[x].head /\ w'[x].instance = w[x].instance
        BY <1>12, <1>3, StartCall DEF Start, At
    <2>2. Prepares(x) => Path(x)[1] = "reserve"
        BY RootAfter, ChildAfter DEF Prepares
    <2>3. w[x].pc = "idle" /\ UNCHANGED <<journal, cfg>>
        BY <1>12 DEF Start, At, Reads
    <2>4. ReservedBy(o)' = ReservedBy(o) /\ HeadOf(Registry)' = HeadOf(Registry)
        BY <2>3 DEF ReservedBy, HeadOf, Rows
    <2>5. ASSUME Prepares(x) PROVE RegistryCall(x)'
        <3>1. /\ w[x].instance # 0 => ReservedBy(o) = {w[x].instance}
              /\ w[x].tries \in Nat /\ w[x].head \in Nat /\ w[x].tries <= HeadOf(Registry)
            BY <2>3, <2>5, <1>4, <1>8 DEF RegistryCall
        <3>2. w'[x].pc = "reserve" /\ w'[x].sub = "read"
            BY <2>1, <2>2, <2>5
        <3> QED BY <2>1, <2>4, <3>1, <3>2, <1>5 DEF RegistryCall, At
    <2> QED BY <2>1, <2>5
<1>13. CASE ReserveLoad(x)
    <2>1. At(x, "reserve", "read") /\ Prepares(x) /\ ReservedBy(o)' = ReservedBy(o)
        BY <1>13, Role, RegistryOnly DEF ReserveLoad, At, ReservedBy
    <2>2. CASE \E why \in {"Contention", "Corrupt", "Capacity"} : w' = Refuse(x, why)
        BY <2>1, <2>2, <1>3, <1>8, <1>10, RefuseCall DEF RegistryCall
    <2>3. ASSUME ReservedBy(o) # {},
                 w' = [Advance(x) EXCEPT ![x].instance = CHOOSE i \in ReservedBy(o) : TRUE]
          PROVE  Others(x) /\ RegistryCall(x)'
        <3>1. PICK n : n = CHOOSE i \in ReservedBy(o) : TRUE
            OBVIOUS
        <3>2. n \in ReservedBy(o)
            BY <2>3, <3>1
        <3>3. n \in DOMAIN Rows(Registry) /\ Rows(Registry)[n].body.owner = o
            BY <3>2 DEF ReservedBy
        <3>4. ReservedBy(o) = {n} /\ n # 0
            <4>1. DOMAIN Rows(Registry) = 1..HeadOf(Registry) /\ HeadOf(Registry) \in Nat
                BY <1>3 DEF Extends
            <4>2. n # 0
                BY <3>3, <4>1
            <4>3. \A i \in DOMAIN Rows(Registry) : ReservedBy(Rows(Registry)[i].body.owner) = {i}
                BY DEF RegistryInv, RegistryLoads
            <4> QED BY <3>3, <4>2, <4>3
        <3>5. w' = [Advance(x) EXCEPT ![x].instance = n]
            BY <2>3, <3>1
        <3>6. /\ Others(x) /\ w'[x].pc = After(x) /\ w'[x].tries = w[x].tries
              /\ w'[x].head = w[x].head /\ w'[x].instance = n
            BY <3>5, <1>3, AdvanceInstance
        <3>7. After(x) \notin {"idle", "reserve"}
            BY <2>1, OnPath DEF At
        <3> QED BY <2>1, <3>4, <3>6, <3>7, <1>4, <1>5, <1>8 DEF RegistryCall, At
    <2>4. ASSUME w[x].tries <= HeadOf(Registry), ReservedBy(o) = {}, HeadOf(Registry) < cfg.capacity,
                 w' = [Step(x, "append") EXCEPT ![x].head = HeadOf(Registry)]
          PROVE  Others(x) /\ RegistryCall(x)'
        <3>1. PICK n : n = HeadOf(Registry)
            OBVIOUS
        <3>2. w' = [Step(x, "append") EXCEPT ![x].head = n]
            BY <2>4, <3>1
        <3>3. /\ Others(x) /\ w'[x].pc = w[x].pc /\ w'[x].tries = w[x].tries
              /\ w'[x].head = n /\ w'[x].instance = w[x].instance
            BY <3>2, <1>3 DEF Progress, Fields, Others, Step
        <3>4. HeadOf(Registry)' = n
            BY <3>1, <1>13, RegistryOnly DEF HeadOf
        <3> QED BY <2>1, <2>4, <3>1, <3>3, <3>4, <1>2, <1>4, <1>5, <1>7, <1>8 DEF RegistryCall, At
    <2>5. w[x].tries <= HeadOf(Registry)
        BY <2>1, <1>8 DEF RegistryCall, At
    <2>6. HeadOf(Registry) < cfg.capacity \/ HeadOf(Registry) >= cfg.capacity
        BY <1>7, Configured DEF Shape
    <2> QED BY <1>13, <2>1, <2>2, <2>3, <2>4, <2>5, <2>6, <1>4 DEF ReserveLoad
<1>14. CASE ReserveAppend(x)
    <2> DEFINE outcome == AppendOutcome(Registry, head, Reservation(o, head + 1))
    <2>1. At(x, "reserve", "append") /\ Prepares(x)
        BY <1>14, Role DEF ReserveAppend, At
    <2>2. /\ outcome = "ok" => ReservedBy(o)' = {head + 1}
          /\ outcome # "ok" => HeadOf(Registry) > head
          /\ outcome \in {"ok", "Conflict"} /\ head \in Nat
        BY <1>4, <1>14, ReserveOutcome
    <2>3. CASE outcome = "ok"
        <3>1. PICK n : n = CHOOSE i \in ReservedBy(o)' : TRUE
            OBVIOUS
        <3>2. n = head + 1
            BY <2>2, <2>3, <3>1
        <3>3. w' = [Advance(x) EXCEPT ![x].instance = n]
            BY <1>14, <1>4, <1>5, <2>3, <3>1 DEF ReserveAppend, Req
        <3>4. /\ Others(x) /\ w'[x].pc = After(x) /\ w'[x].tries = w[x].tries
              /\ w'[x].head = w[x].head /\ w'[x].instance = n
            BY <3>3, <1>3, AdvanceInstance
        <3>5. After(x) \notin {"idle", "reserve"}
            BY <2>1, OnPath DEF At
        <3> QED BY <2>1, <2>2, <2>3, <3>2, <3>4, <3>5, <1>4, <1>5, <1>8 DEF RegistryCall, At
    <2>4. CASE outcome # "ok"
        <3>1. w' = [Step(x, "read") EXCEPT ![x].tries = @ + 1]
            BY <1>14, <1>4, <2>2, <2>4 DEF ReserveAppend
        <3>2. /\ Others(x) /\ w'[x].pc = w[x].pc /\ w'[x].sub = "read"
              /\ w'[x].tries = w[x].tries + 1
              /\ w'[x].head = w[x].head /\ w'[x].instance = w[x].instance
            BY <3>1, <1>3, StepTries
        <3>3. w[x].tries <= head /\ w[x].tries \in Nat
            BY <2>1, <1>4, <1>8 DEF RegistryCall
        <3>4. w[x].tries + 1 <= HeadOf(Registry)'
            BY <2>2, <2>4, <3>3, <1>7
        <3> QED BY <2>1, <3>2, <3>3, <3>4, <1>4, <1>5, <1>7, <1>8 DEF RegistryCall, At
    <2> QED BY <2>3, <2>4
<1>15. CASE DiscoverSkills(x)
    <2>1. w[x].pc = "skills"
        BY <1>15 DEF DiscoverSkills, At
    <2>2. CASE w' = Refuse(x, "Provenance")
        BY <2>1, <2>2, <1>3, <1>8, <1>10, RefuseCall DEF RegistryCall
    <2>3. CASE \E ad : w' = [Step(x, "check") EXCEPT ![x].ad = ad]
        <3>1. PICK ad : w' = [Step(x, "check") EXCEPT ![x].ad = ad]
            BY <2>3
        <3> QED BY <2>1, <3>1, <1>3, <1>8, <1>10, StepAd DEF RegistryCall
    <2> QED BY <1>15, <2>2, <2>3 DEF DiscoverSkills
<1>16. CASE RegisterRead(x) \/ RevokeRead(x) \/ AppendOnce(x) \/ LoadPrepare(x)
    <2>1. ~Prepares(x)
        BY <1>16, Role DEF RegisterRead, RevokeRead, AppendOnce, LoadPrepare, At, Prepares
    <2>2. \/ w' = Advance(x)
          \/ \E why : w' = Refuse(x, why)
          \/ \E sub : w' = Step(x, sub)
          \/ \E sub, n : w' = [Step(x, sub) EXCEPT ![x].head = n]
          \/ \E sub, ad : w' = [Step(x, sub) EXCEPT ![x].ad = ad]
        BY <1>16 DEF RegisterRead, RevokeRead, AppendOnce, LoadPrepare
    <2> QED BY <2>1, <2>2, <1>3, Moves
<1>17. CASE Crash(x)
    <2>1. Others(x) /\ w'[x] = Idle
        BY <1>17, <1>3, CrashCall DEF Crash
    <2> QED BY <2>1, <1>7 DEF RegistryCall, At, Idle
<1> QED BY <1>1, <1>11, <1>12, <1>13, <1>14, <1>15, <1>16, <1>17

\* An owner is never reserved two instances, nor an instance for two owners; the append
\* of a call whose head is stale is refused (InstanceRegistry::reserve).
THEOREM RegistryTheorem == Spec => []RegistryInv
<1>1. RegistryInv /\ UNCHANGED vars => RegistryInv'
    <2>1. SUFFICES ASSUME RegistryInv, UNCHANGED vars PROVE RegistryInv'
        OBVIOUS
    <2>2. Rows(Registry)' = Rows(Registry) /\ cfg' = cfg /\ w' = w
        BY <2>1 DEF vars, Rows
    <2>3. HeadOf(Registry)' = HeadOf(Registry) /\ \A o : ReservedBy(o)' = ReservedBy(o)
        BY <2>2 DEF HeadOf, ReservedBy
    <2>4. RegistryLoads'
        BY <2>1, <2>2 DEF RegistryInv, RegistryLoads, HeadOf, ReservedBy
    <2>5. ASSUME NEW x \in Made, Prepares(x) PROVE RegistryCall(x)'
        <3>1. RegistryCall(x)
            BY <2>1, <2>5 DEF RegistryInv
        <3>2. PICK o : o = Req(x).owner
            OBVIOUS
        <3>3. o = Req(x)'.owner
            BY <2>2, <3>2 DEF Req
        <3> QED BY <3>1, <3>2, <3>3, <2>2, <2>3 DEF RegistryCall, At
    <2> QED BY <2>2, <2>4, <2>5 DEF RegistryInv, Made, Prepares, Req
<1>2. Shape /\ JournalInv /\ RegistryInv /\ [Next]_vars => RegistryInv'
    BY <1>1, RegistryStep
<1> QED BY <1>2, RegistryInit, ShapeTheorem, JournalTheorem, PTL DEF Spec
-----------------------------------------------------------------------------
(* The Skill catalog *)

\* The catalog is a function of its rows.
LEMMA CatalogSame ==
    ASSUME Rows(Catalog)' = Rows(Catalog)
    PROVE  /\ CatalogRows' = CatalogRows /\ HeadOf(Catalog)' = HeadOf(Catalog)
           /\ Entries' = Entries /\ Revoked' = Revoked
           /\ \A k : EntriesOf(k)' = EntriesOf(k) /\ Operation(k)' = Operation(k)
           /\ Replays <=> Replays'
           /\ CatalogCounts <=> CatalogCounts'
<1>1. CatalogRows' = CatalogRows /\ HeadOf(Catalog)' = HeadOf(Catalog)
    BY DEF CatalogRows, HeadOf
<1>2. Entries' = Entries
    BY <1>1 DEF Entries, Registers
<1>3. /\ Revoked' = Revoked
      /\ \A k : /\ EntriesOf(k)' = EntriesOf(k) /\ Operation(k)' = Operation(k)
                /\ RevocationsOf(k)' = RevocationsOf(k)
    BY <1>1, <1>2 DEF Revoked, EntriesOf, Operation, RevocationsOf
<1>4. \A i : RegistrationAt(i)' = RegistrationAt(i)
    BY <1>1 DEF RegistrationAt
<1>5. \A i : /\ ReplayRegistration(i) <=> ReplayRegistration(i)'
             /\ ReplayRevocation(i) <=> ReplayRevocation(i)'
             /\ Registers(i) <=> Registers(i)'
    BY <1>1, <1>2, <1>4
       DEF ReplayRegistration, ReplayRevocation, Registers, EntriesOf, RevocationsOf, Operation
<1>6. Replays <=> Replays'
    BY <1>1, <1>5 DEF Replays
<1>7. CatalogCounts <=> CatalogCounts'
    BY <1>1, <1>2, <1>3 DEF CatalogCounts
<1> QED BY <1>1, <1>2, <1>3, <1>6, <1>7

\* The rows of the catalog and the sets made of them.
LEMMA CatalogShape ==
    ASSUME JournalInv
    PROVE  /\ HeadOf(Catalog) \in Nat /\ Len(CatalogRows) = HeadOf(Catalog)
           /\ DOMAIN CatalogRows = 1..HeadOf(Catalog)
           /\ CatalogRows \in Seq(Range(CatalogRows))
           /\ \A i \in DOMAIN CatalogRows : RowSound(Catalog, CatalogRows[i])
           /\ Entries \subseteq DOMAIN CatalogRows
           /\ \A S : S \subseteq DOMAIN CatalogRows =>
                 /\ IsFiniteSet(S) /\ Cardinality(S) \in Nat
                 /\ IsFiniteSet({CatalogRows[i].body.key : i \in S})
                 /\ Cardinality({CatalogRows[i].body.key : i \in S}) \in Nat
<1>1. StreamSound(Catalog)
    BY AllStreams
<1>2. /\ HeadOf(Catalog) \in Nat /\ Len(CatalogRows) = HeadOf(Catalog)
      /\ DOMAIN CatalogRows = 1..HeadOf(Catalog)
      /\ CatalogRows \in Seq(Range(CatalogRows))
      /\ \A i \in DOMAIN CatalogRows : RowSound(Catalog, CatalogRows[i])
    BY <1>1, SeqShape DEF StreamSound, CatalogRows, HeadOf
<1>3. ASSUME NEW S, S \subseteq DOMAIN CatalogRows
      PROVE  /\ IsFiniteSet(S) /\ IsFiniteSet({CatalogRows[i].body.key : i \in S})
    <2> DEFINE f == [i \in S |-> CatalogRows[i].body.key]
    <2>1. IsFiniteSet(S)
        <3>1. IsFiniteSet(1..HeadOf(Catalog))
            BY <1>2, FS_Interval
        <3> QED BY <1>2, <1>3, <3>1, FS_Subset
    <2>2. f \in Surjection(S, {CatalogRows[i].body.key : i \in S})
        BY DEF Surjection
    <2> QED BY <2>1, <2>2, FS_Surjection
<1>4. ASSUME NEW S, S \subseteq DOMAIN CatalogRows
      PROVE  /\ Cardinality(S) \in Nat
             /\ Cardinality({CatalogRows[i].body.key : i \in S}) \in Nat
    BY <1>3, <1>4, FS_CardinalityType
<1> QED BY <1>2, <1>3, <1>4 DEF Entries

\* every version is registered and revoked at most once
LEMMA CatalogBound ==
    ASSUME NEW n \in Nat, NEW E \in SUBSET (1..n), NEW V \in Nat,
           NEW K, IsFiniteSet(K), NEW R \in SUBSET K, Cardinality(E) = Cardinality(K),
           Cardinality(E) <= V, Cardinality((1..n) \ E) = Cardinality(R)
    PROVE  n <= 2 * V
<1>1. IsFiniteSet(1..n) /\ Cardinality(1..n) = n
    BY FS_Interval
<1>2. Cardinality((1..n) \ E) = Cardinality(1..n) - Cardinality((1..n) \cap E)
    BY <1>1, FS_Difference
<1>3. (1..n) \cap E = E
    OBVIOUS
<1>4. Cardinality(R) <= Cardinality(K) /\ Cardinality(K) \in Nat /\ Cardinality(R) \in Nat
    BY FS_Subset, FS_CardinalityType
<1>5. Cardinality((1..n) \ E) = n - Cardinality(E)
    BY <1>1, <1>2, <1>3
<1> QED BY <1>4, <1>5

\* the catalog with one more record
LEMMA CatalogGrows ==
    ASSUME JournalInv, NEW d, CatalogRows' = Append(CatalogRows, d)
    PROVE  LET n == HeadOf(Catalog)
               q == CatalogRows
           IN  /\ HeadOf(Catalog)' = n + 1
               /\ DOMAIN q' = 1..(n + 1) /\ DOMAIN q' = DOMAIN q \cup {n + 1}
               /\ n + 1 \notin DOMAIN q
               /\ \A i \in DOMAIN q : q'[i] = q[i] /\ i < n + 1
               /\ q'[n + 1] = d
<1>1. /\ HeadOf(Catalog) \in Nat /\ Len(CatalogRows) = HeadOf(Catalog)
      /\ DOMAIN CatalogRows = 1..HeadOf(Catalog) /\ CatalogRows \in Seq(Range(CatalogRows))
    BY CatalogShape
<1>2. HeadOf(Catalog)' = Len(CatalogRows')
    BY DEF HeadOf, CatalogRows
<1> QED BY <1>1, <1>2, AppendSeq

\* A registration of a new key keeps the catalog replayable.
LEMMA CatalogRegistered ==
    ASSUME JournalInv, CatalogInv, NEW key, NEW meta, NEW d, d = Registration(key, meta),
           CatalogRows' = Append(CatalogRows, d),
           EntriesOf(key) = {}, Cardinality(Entries) < CatalogVersions
    PROVE  Replays' /\ CatalogCounts'
<1>0. PICK m : m = HeadOf(Catalog) + 1
    OBVIOUS
<1> DEFINE q == CatalogRows
           D == DOMAIN CatalogRows
<1>1. /\ DOMAIN q' = 1..m /\ DOMAIN q' = D \cup {m} /\ m \notin D /\ Len(q') = m
      /\ \A i \in D : q'[i] = q[i] /\ i < m
      /\ q'[m] = d
    BY <1>0, CatalogGrows DEF HeadOf, CatalogRows
<1>2. d.body.kind = "registered" /\ d.body.key = key
    BY DEF Registration
<1>3. Entries' = Entries \cup {m} /\ Entries \subseteq D
    BY <1>1, <1>2 DEF Entries, Registers
<1>4. DOMAIN q' \ Entries' = D \ Entries
    BY <1>1, <1>3
<1>5. /\ m \in Nat /\ CatalogVersions \in Nat
      /\ \A S : S \subseteq D => IsFiniteSet(S) /\ Cardinality(S) \in Nat
      /\ IsFiniteSet({q[i].body.key : i \in Entries})
    <2>1. m \in Nat /\ CatalogVersions \in Nat
        BY <1>0, CatalogShape, SkillAssumption
    <2> QED BY <2>1, <1>3, CatalogShape, Zenon
<1>6. \A k : EntriesOf(k)' = EntriesOf(k) \cup (IF k = key THEN {m} ELSE {})
    BY <1>1, <1>2, <1>3 DEF EntriesOf
<1>7. \A k : RevocationsOf(k)' = RevocationsOf(k) /\ Operation(k)' = Operation(k)
    BY <1>1, <1>4 DEF RevocationsOf, Operation
<1>8. \A i \in D : RegistrationAt(i)' = RegistrationAt(i) /\ Registers(i)' = Registers(i)
    BY <1>1 DEF RegistrationAt, Registers
<1>9. \A i \in D : IF Registers(i) THEN ReplayRegistration(i) ELSE ReplayRevocation(i)
    BY DEF CatalogInv, Replays
<1> DEFINE E == Entries
<1>10. ASSUME NEW i \in D, Registers(i) PROVE ReplayRegistration(i)'
    <2>1. {j \in E' : j < i} = {j \in E : j < i}
        BY <1>1, <1>3, <1>5, CatalogShape
    <2>2. PICK k : k = q[i].body.key
        OBVIOUS
    <2>3. \A j \in EntriesOf(k)' : j >= i
        <3>1. \A j \in EntriesOf(k) : j >= i
            BY <1>9, <1>10, <2>2 DEF ReplayRegistration
        <3>2. m >= i
            BY <1>1, <1>5, CatalogShape
        <3> QED BY <1>6, <3>1, <3>2
    <2>4. Cardinality({j \in E : j < i}) < CatalogVersions
        BY <1>9, <1>10 DEF ReplayRegistration
    <2>5. k = CatalogRows'[i].body.key
        BY <1>1, <2>2
    <2> QED BY <2>1, <2>3, <2>4, <2>5 DEF ReplayRegistration
<1>11. ASSUME NEW i \in D, ~Registers(i) PROVE ReplayRevocation(i)'
    <2>1. PICK k, op : k = q[i].body.key /\ op = q[i].body.op
        OBVIOUS
    <2>2. PICK j \in EntriesOf(k) : j < i /\ q[i].causes = <<RegistrationAt(j)>>
        BY <1>9, <1>11, <2>1 DEF ReplayRevocation
    <2>3. j \in D
        BY <2>2, <1>3 DEF EntriesOf
    <2>4. \E h \in EntriesOf(k)' : h < i /\ q'[i].causes = <<RegistrationAt(h)'>>
        BY <1>1, <1>6, <1>8, <2>2, <2>3
    <2>5. \A h \in RevocationsOf(k)' \cup Operation(op)' : h >= i
        BY <1>7, <1>9, <1>11, <2>1 DEF ReplayRevocation
    <2>6. k = CatalogRows'[i].body.key /\ op = CatalogRows'[i].body.op
        BY <1>1, <2>1
    <2> QED BY <2>4, <2>5, <2>6 DEF ReplayRevocation
<1>12. ReplayRegistration(m)' /\ Registers(m)'
    <2>1. Registers(m)' /\ CatalogRows'[m].body.key = key
        BY <1>1, <1>2 DEF Registers
    <2>2. \A j \in EntriesOf(key)' : j >= m
        BY <1>5, <1>6
    <2>3. {j \in E' : j < m} = E
        BY <1>1, <1>3, <1>5
    <2> QED BY <2>1, <2>2, <2>3 DEF ReplayRegistration
<1>13. CatalogCounts'
    <2> DEFINE K == {q[i].body.key : i \in E}
    <2>1. {q'[i].body.key : i \in E'} = K \cup {key}
        BY <1>1, <1>2, <1>3
    <2>2. key \notin K
        BY DEF EntriesOf
    <2>3. Cardinality(K \cup {key}) = Cardinality(K) + 1
        BY <2>2, <1>5, FS_AddElement
    <2>4. Cardinality(E \cup {m}) = Cardinality(E) + 1
        BY <1>1, <1>3, <1>5, FS_AddElement
    <2>5. Revoked' = Revoked
        BY <1>1, <1>4 DEF Revoked
    <2>6. Cardinality(E) \in Nat
        BY <1>3, <1>5
    <2>7. /\ Cardinality(E) = Cardinality(K) /\ Cardinality(D \ E) = Cardinality(Revoked)
        BY DEF CatalogInv, CatalogCounts
    <2> HIDE DEF E, K, D
    <2>8. /\ Cardinality(E') = Cardinality({CatalogRows'[i].body.key : i \in E'})
          /\ Cardinality(E') <= CatalogVersions
        <3>1. Cardinality({CatalogRows'[i].body.key : i \in E'}) = Cardinality(K) + 1
            BY <2>1, <2>3
        <3>2. Cardinality(E') = Cardinality(E) + 1
            BY <2>4, <1>3 DEF E
        <3>3. Cardinality(E) < CatalogVersions
            BY DEF E
        <3>4. Cardinality(E') = Cardinality({CatalogRows'[i].body.key : i \in E'})
            BY <2>7, <3>1, <3>2
        <3>5. CatalogVersions \in Nat
            BY SkillAssumption
        <3>6. Cardinality(E) + 1 <= CatalogVersions
            BY <2>6, <3>3, <3>5
        <3> QED BY <3>2, <3>4, <3>6
    <2>9. Cardinality(DOMAIN CatalogRows' \ Entries') = Cardinality(Revoked')
        BY <2>5, <2>7, <1>4 DEF D, E
    <2> QED BY <2>8, <2>9 DEF CatalogCounts, E
<1>14. \A i \in DOMAIN q' : (IF Registers(i) THEN ReplayRegistration(i) ELSE ReplayRevocation(i))'
    BY <1>1, <1>8, <1>10, <1>11, <1>12
<1>15. Len(q') <= 2 * CatalogVersions
    <2> DEFINE K == {q'[i].body.key : i \in E'}
    <2>1. K = {q[i].body.key : i \in E} \cup {key}
        BY <1>1, <1>2, <1>3
    <2>2. IsFiniteSet(K)
        <3> DEFINE X == {q[i].body.key : i \in E}
        <3>1. IsFiniteSet(X)
            BY <1>5
        <3>2. IsFiniteSet(X \cup {key})
            BY <3>1, FS_AddElement
        <3> QED BY <2>1, <3>2
    <2>3. Revoked' \subseteq K
        <3>1. \A i \in D \ E : \E j \in E : q[j].body.key = q[i].body.key
            BY <1>9 DEF Entries, ReplayRevocation, EntriesOf
        <3>2. Revoked' = {q[i].body.key : i \in D \ E}
            BY <1>1, <1>4 DEF Revoked
        <3> SUFFICES ASSUME NEW k \in Revoked' PROVE k \in K
            OBVIOUS
        <3>3. PICK i \in D \ E : k = q[i].body.key
            BY <3>2
        <3>4. PICK j \in E : k = q[j].body.key
            BY <3>1, <3>3
        <3> QED BY <3>4, <2>1
    <2>4. E' \in SUBSET (1..m)
        BY <1>1, <1>3
    <2>5. /\ Cardinality(E') = Cardinality(K) /\ Cardinality(E') <= CatalogVersions
          /\ Cardinality((1..m) \ E') = Cardinality(Revoked')
        BY <1>1, <1>13 DEF CatalogCounts
    <2> HIDE DEF K, E
    <2> QED BY <1>1, <1>5, <2>2, <2>3, <2>4, <2>5, CatalogBound
<1> QED BY <1>13, <1>14, <1>15 DEF Replays

\* A revocation of a registered key keeps the catalog replayable.
LEMMA CatalogRevoked ==
    ASSUME JournalInv, CatalogInv, NEW key, NEW op, NEW r, NEW d, d = Revocation(key, r, op),
           CatalogRows' = Append(CatalogRows, d),
           NEW e \in EntriesOf(key), r = RegistrationAt(e),
           key \notin Revoked, Operation(op) = {}
    PROVE  Replays' /\ CatalogCounts'
<1>0. PICK m : m = HeadOf(Catalog) + 1
    OBVIOUS
<1> DEFINE q == CatalogRows
           D == DOMAIN CatalogRows
           E == Entries
<1>1. /\ DOMAIN q' = 1..m /\ DOMAIN q' = D \cup {m} /\ m \notin D /\ Len(q') = m
      /\ \A i \in D : q'[i] = q[i] /\ i < m
      /\ q'[m] = d
    BY <1>0, CatalogGrows DEF HeadOf, CatalogRows
<1>2. /\ d.body.kind = "revoked" /\ d.body.key = key /\ d.body.op = op
      /\ d.causes = <<r>>
    BY DEF Revocation
<1>3. E' = E /\ E \subseteq D
    BY <1>1, <1>2 DEF Entries, Registers
<1>4. DOMAIN q' \ E' = (D \ E) \cup {m}
    BY <1>1, <1>3
<1>5. /\ m \in Nat /\ CatalogVersions \in Nat
      /\ \A S : S \subseteq D => /\ IsFiniteSet(S) /\ Cardinality(S) \in Nat
                                 /\ IsFiniteSet({q[i].body.key : i \in S})
                                 /\ Cardinality({q[i].body.key : i \in S}) \in Nat
    <2>1. m \in Nat /\ CatalogVersions \in Nat
        BY <1>0, CatalogShape, SkillAssumption
    <2> QED BY <2>1, <1>3, CatalogShape, Zenon
<1>6. \A k : EntriesOf(k)' = EntriesOf(k)
    BY <1>1, <1>3 DEF EntriesOf
<1>7. /\ \A k : RevocationsOf(k)' = RevocationsOf(k) \cup (IF k = key THEN {m} ELSE {})
      /\ \A k : Operation(k)' = Operation(k) \cup (IF k = op THEN {m} ELSE {})
    BY <1>1, <1>2, <1>4 DEF RevocationsOf, Operation
<1>8. \A i \in D : RegistrationAt(i)' = RegistrationAt(i) /\ Registers(i)' = Registers(i)
    BY <1>1 DEF RegistrationAt, Registers
<1>9. \A i \in D : IF Registers(i) THEN ReplayRegistration(i) ELSE ReplayRevocation(i)
    BY DEF CatalogInv, Replays
<1>10. ASSUME NEW i \in D, Registers(i) PROVE ReplayRegistration(i)'
    <2>1. {j \in E' : j < i} = {j \in E : j < i}
        BY <1>3
    <2>2. q'[i] = q[i]
        BY <1>1
    <2>3. PICK k : k = q[i].body.key
        OBVIOUS
    <2>4. EntriesOf(k)' = EntriesOf(k) /\ k = CatalogRows'[i].body.key
        BY <1>6, <2>2, <2>3
    <2> QED BY <1>9, <1>10, <2>1, <2>3, <2>4 DEF ReplayRegistration
<1>11. ASSUME NEW i \in D, ~Registers(i) PROVE ReplayRevocation(i)'
    <2>1. PICK k, p : k = q[i].body.key /\ p = q[i].body.op
        OBVIOUS
    <2>2. PICK j \in EntriesOf(k) : j < i /\ q[i].causes = <<RegistrationAt(j)>>
        BY <1>9, <1>11, <2>1 DEF ReplayRevocation
    <2>3. j \in D
        BY <2>2, <1>3 DEF EntriesOf
    <2>4. \E h \in EntriesOf(k)' : h < i /\ q'[i].causes = <<RegistrationAt(h)'>>
        BY <1>1, <1>6, <1>8, <2>2, <2>3
    <2>5. \A h \in RevocationsOf(k) \cup Operation(p) : h >= i
        BY <1>9, <1>11, <2>1 DEF ReplayRevocation
    <2>6. m >= i
        BY <1>1, <1>5, CatalogShape
    <2>7. \A h \in RevocationsOf(k)' \cup Operation(p)' : h >= i
        BY <1>7, <2>5, <2>6
    <2>8. k = CatalogRows'[i].body.key /\ p = CatalogRows'[i].body.op
        BY <1>1, <2>1
    <2> QED BY <2>4, <2>7, <2>8 DEF ReplayRevocation
<1>12. ReplayRevocation(m)' /\ ~Registers(m)'
    <2>1. /\ ~Registers(m)' /\ CatalogRows'[m].body.key = key /\ CatalogRows'[m].body.op = op
          /\ CatalogRows'[m].causes = <<r>>
        BY <1>1, <1>2 DEF Registers
    <2>2. e \in D /\ e < m
        BY <1>1, <1>3 DEF EntriesOf
    <2>3. e \in EntriesOf(key)' /\ RegistrationAt(e)' = r
        BY <1>6, <1>8, <2>2
    <2>4. RevocationsOf(key) = {}
        BY DEF RevocationsOf, Revoked
    <2>5. \A j \in RevocationsOf(key)' \cup Operation(op)' : j >= m
        BY <1>5, <1>7, <2>4
    <2> QED BY <2>1, <2>2, <2>3, <2>5 DEF ReplayRevocation
<1>13. Revoked' = Revoked \cup {key}
    BY <1>1, <1>2, <1>4 DEF Revoked
<1>14. CatalogCounts'
    <2> DEFINE R == D \ E
    <2>1. {q'[i].body.key : i \in E'} = {q[i].body.key : i \in E}
        BY <1>1, <1>3
    <2>2. Revoked = {q[i].body.key : i \in R}
        BY DEF Revoked
    <2>3. IsFiniteSet(Revoked) /\ Cardinality(Revoked \cup {key}) = Cardinality(Revoked) + 1
        BY <2>2, <1>5, FS_AddElement
    <2>4. IsFiniteSet(R) /\ m \notin R
        BY <1>1, <1>5
    <2>5. Cardinality(R \cup {m}) = Cardinality(R) + 1
        BY <2>4, FS_AddElement
    <2>6. /\ Cardinality(E) = Cardinality({q[i].body.key : i \in E})
          /\ Cardinality(E) <= CatalogVersions
          /\ Cardinality(R) = Cardinality(Revoked)
        BY DEF CatalogInv, CatalogCounts
    <2> HIDE DEF R
    <2>7. Cardinality(DOMAIN CatalogRows' \ Entries') = Cardinality(Revoked')
        BY <2>3, <2>5, <2>6, <1>4, <1>13 DEF R
    <2>8. /\ Cardinality(E') = Cardinality({CatalogRows'[i].body.key : i \in E'})
          /\ Cardinality(E') <= CatalogVersions
        BY <2>1, <2>6, <1>3
    <2> QED BY <2>7, <2>8 DEF CatalogCounts
<1>15. \A i \in DOMAIN q' : (IF Registers(i) THEN ReplayRegistration(i) ELSE ReplayRevocation(i))'
    BY <1>1, <1>8, <1>10, <1>11, <1>12
<1>16. Len(q') <= 2 * CatalogVersions
    <2> DEFINE K == {q'[i].body.key : i \in E'}
    <2>1. K = {q[i].body.key : i \in E}
        BY <1>1, <1>3
    <2>2. IsFiniteSet(K)
        BY <2>1, <1>3, <1>5
    <2>3. Revoked' \subseteq K
        <3>1. \A i \in D \ E : \E j \in E : q[j].body.key = q[i].body.key
            BY <1>9 DEF Entries, ReplayRevocation, EntriesOf
        <3>2. Revoked = {q[i].body.key : i \in D \ E}
            BY DEF Revoked
        <3>3. key \in K
            BY <2>1 DEF EntriesOf
        <3> SUFFICES ASSUME NEW k \in Revoked PROVE k \in K
            BY <3>3, <1>13
        <3>4. PICK i \in D \ E : k = q[i].body.key
            BY <3>2
        <3>5. PICK j \in E : k = q[j].body.key
            BY <3>1, <3>4
        <3> QED BY <3>5, <2>1
    <2>4. E' \in SUBSET (1..m)
        BY <1>1, <1>3
    <2>5. /\ Cardinality(E') = Cardinality(K) /\ Cardinality(E') <= CatalogVersions
          /\ Cardinality((1..m) \ E') = Cardinality(Revoked')
        BY <1>1, <1>14 DEF CatalogCounts
    <2> HIDE DEF K, E
    <2> QED BY <1>1, <1>5, <2>2, <2>3, <2>4, <2>5, CatalogBound
<1> QED BY <1>14, <1>15, <1>16 DEF Replays

\* The catalog starts empty.
LEMMA CatalogInit == Init => CatalogInv
<1>1. SUFFICES ASSUME Init PROVE CatalogInv
    OBVIOUS
<1>2. CatalogRows = << >>
    BY <1>1 DEF Init, Rows, CatalogRows
<1>3. Len(CatalogRows) = 0 /\ DOMAIN CatalogRows = {}
    BY <1>2, EmptyTuple
<1>4. Entries = {} /\ {CatalogRows[i].body.key : i \in Entries} = {} /\ Revoked = {}
      /\ DOMAIN CatalogRows \ Entries = {}
    BY <1>3 DEF Entries, Revoked
<1>5. Replays
    BY <1>3, SkillAssumption DEF Replays
<1>6. CatalogCounts
    BY <1>4, FS_EmptySet, SkillAssumption DEF CatalogCounts
<1>7. \A x \in Made : w[x] = Idle
    BY <1>1, Configured DEF Init
<1>8. \A x \in Made : CatalogCallOK(x)
    BY <1>7 DEF CatalogCallOK, At, Idle
<1> QED BY <1>5, <1>6, <1>8 DEF CatalogInv

\* Every step keeps the catalog.
LEMMA CatalogStep ==
    ASSUME Shape, JournalInv, CatalogInv, Next
    PROVE  CatalogInv'
<1>1. PICK x \in Made :
           \/ Works(x) \/ Start(x) \/ ReserveLoad(x) \/ ReserveAppend(x) \/ DiscoverSkills(x)
           \/ RegisterRead(x) \/ RevokeRead(x) \/ AppendOnce(x) \/ LoadPrepare(x) \/ Crash(x)
    BY Kinds
<1>2. cfg' = cfg
    BY <1>1 DEF Works, Start, ReserveLoad, ReserveAppend, DiscoverSkills, RegisterRead, RevokeRead,
                AppendOnce, LoadPrepare, Crash, Reads, Writes
<1>3. Progress /\ x \in Calls /\ Made \subseteq Calls
    BY Configured DEF Shape
<1>4. HeadOf(Catalog) \in Nat
    BY CatalogShape
<1>5. SUFFICES /\ Replays' /\ CatalogCounts' /\ Others(x) /\ CatalogCallOK(x)'
               /\ Rows(Catalog)' # Rows(Catalog) => HeadOf(Catalog)' = HeadOf(Catalog) + 1
    <2>1. SUFFICES ASSUME NEW y \in Made, y # x, Others(x),
                          \/ Rows(Catalog)' = Rows(Catalog)
                          \/ HeadOf(Catalog)' = HeadOf(Catalog) + 1
                   PROVE  CatalogCallOK(y)'
        BY <1>2 DEF CatalogInv, Made
    <2>2. CatalogCallOK(y) /\ w'[y] = w[y] /\ Req(y)' = Req(y)
        BY <1>2, <1>3, <2>1 DEF CatalogInv, Others, Req
    <2>3. CASE Rows(Catalog)' = Rows(Catalog)
        <3>1. PICK key, by : key = Req(y).key /\ by = Req(y).by
            OBVIOUS
        <3>2. key = Req(y)'.key /\ by = Req(y)'.by
            BY <2>2, <3>1
        <3> QED BY <2>2, <2>3, <3>1, <3>2, CatalogSame DEF CatalogCallOK, At
    <2>4. CASE HeadOf(Catalog)' = HeadOf(Catalog) + 1
        BY <2>2, <2>4, <1>4 DEF CatalogCallOK, At
    <2> QED BY <2>1, <2>3, <2>4
<1>6. ASSUME Rows(Catalog)' = Rows(Catalog), Others(x), CatalogCallOK(x)'
      PROVE  /\ Replays' /\ CatalogCounts' /\ Others(x) /\ CatalogCallOK(x)'
             /\ Rows(Catalog)' # Rows(Catalog) => HeadOf(Catalog)' = HeadOf(Catalog) + 1
    BY <1>6, CatalogSame DEF CatalogInv
<1>7. CASE Works(x) \/ Start(x) \/ ReserveLoad(x) \/ ReserveAppend(x) \/ DiscoverSkills(x)
           \/ LoadPrepare(x) \/ Crash(x)
    <2>1. Rows(Catalog)' = Rows(Catalog)
        <3>1. CASE ReserveAppend(x)
            <4>1. Registry # Catalog
                BY DEF Registry, Catalog
            <4> QED BY <3>1, <4>1, AppendedRows DEF ReserveAppend, Written
        <3> QED BY <3>1, <1>7, OtherStreams
    <2>2. Others(x) /\ (w'[x].pc \in {"register", "revoke"} => w'[x].sub = "read")
        <3>1. CASE Works(x)
            <4>1. w[x].pc \notin {"idle", "ended"} /\ Onward(x)
                BY <3>1 DEF Works, Worked
            <4> QED BY <4>1, <1>3, OnPath, OnwardCall
        <3>2. CASE Start(x)
            BY <3>2, <1>3, StartCall DEF Start, At
        <3>3. CASE ReserveLoad(x) \/ ReserveAppend(x) \/ DiscoverSkills(x) \/ LoadPrepare(x)
            <4>1. w[x].pc \in {"reserve", "skills", "load"}
                BY <3>3 DEF ReserveLoad, ReserveAppend, DiscoverSkills, LoadPrepare, At
            <4>2. \/ \E n : w' = [Advance(x) EXCEPT ![x].instance = n]
                  \/ \E why : w' = Refuse(x, why)
                  \/ \E sub, n : w' = [Step(x, sub) EXCEPT ![x].head = n]
                  \/ \E sub : w' = [Step(x, sub) EXCEPT ![x].tries = @ + 1]
                  \/ \E sub, ad : w' = [Step(x, sub) EXCEPT ![x].ad = ad]
                <5>1. CASE ReserveLoad(x)
                    BY <5>1 DEF ReserveLoad
                <5>2. CASE ReserveAppend(x)
                    BY <5>2 DEF ReserveAppend
                <5>3. CASE DiscoverSkills(x) \/ LoadPrepare(x)
                    BY <5>3 DEF DiscoverSkills, LoadPrepare
                <5> QED BY <3>3, <5>1, <5>2, <5>3
            <4>3. Others(x) /\ w'[x].pc \in {After(x), "ended", w[x].pc}
                BY <4>2, <1>3, Moves
            <4> QED BY <4>1, <4>3, OnPath
        <3>4. CASE Crash(x)
            <4>1. Others(x) /\ w'[x] = Idle
                BY <3>4, <1>3, CrashCall DEF Crash
            <4> QED BY <4>1 DEF Idle
        <3> QED BY <1>7, <3>1, <3>2, <3>3, <3>4
    <2> QED BY <1>6, <2>1, <2>2 DEF CatalogCallOK, At
<1>8. CASE RegisterRead(x) \/ RevokeRead(x)
    <2>1. PICK key, by : key = Req(x).key /\ by = Req(x).by
        OBVIOUS
    <2>2. key = Req(x)'.key /\ by = Req(x)'.by
        BY <1>2, <2>1 DEF Req
    <2>3. /\ Rows(Catalog)' = Rows(Catalog) /\ EntriesOf(key)' = EntriesOf(key)
          /\ Operation(by)' = Operation(by) /\ Entries' = Entries /\ Revoked' = Revoked
          /\ HeadOf(Catalog)' = HeadOf(Catalog)
        BY <1>8, OtherStreams, CatalogSame
    <2>4. w[x].pc \in {"register", "revoke"}
        BY <1>8 DEF RegisterRead, RevokeRead, At
    <2>5. CASE w' = Advance(x) \/ \E why : w' = Refuse(x, why)
        <3>1. Others(x) /\ w'[x].pc \in {After(x), "ended"}
            BY <2>5, <1>3, AdvanceCall, RefuseCall
        <3>2. w'[x].pc \notin {"register", "revoke"}
            BY <2>4, <3>1, OnPath
        <3> QED BY <3>1, <3>2, <2>3, <1>6 DEF CatalogCallOK, At
    <2>6. CASE w' = [Step(x, "append") EXCEPT ![x].head = HeadOf(Catalog)]
        <3>1. PICK n : n = HeadOf(Catalog)
            OBVIOUS
        <3>2. w' = [Step(x, "append") EXCEPT ![x].head = n]
            BY <2>6, <3>1
        <3>3. Others(x) /\ w'[x].pc = w[x].pc /\ w'[x].sub = "append" /\ w'[x].head = n
            BY <3>2, <1>3 DEF Progress, Fields, Others, Step
        <3>4. CASE RegisterRead(x)
            <4>1. Cardinality(Entries) \in Nat /\ CatalogVersions \in Nat
                BY CatalogShape, SkillAssumption
            <4>2. w[x].pc = "register" /\ EntriesOf(key) = {} /\ Cardinality(Entries) < CatalogVersions
                <5>1. w'[x].pc # "ended" /\ w'[x].sub # "read"
                    BY <2>4, <3>3
                <5>2. \A why : w' # Refuse(x, why)
                    BY <5>1, <1>3, RefuseCall
                <5>3. w' # Advance(x)
                    BY <5>1, <1>3, AdvanceCall
                <5> QED BY <3>4, <2>1, <4>1, <5>2, <5>3 DEF RegisterRead, At
            <4> QED BY <1>4, <1>6, <2>2, <2>3, <3>1, <3>3, <4>1, <4>2 DEF CatalogCallOK, At
        <3>5. CASE RevokeRead(x)
            <4>1. w[x].pc = "revoke" /\ Operation(by) = {} /\ EntriesOf(key) # {} /\ key \notin Revoked
                <5>1. w'[x].pc # "ended" /\ w'[x].sub # "read"
                    BY <2>4, <3>3
                <5>2. \A why : w' # Refuse(x, why)
                    BY <5>1, <1>3, RefuseCall
                <5>3. w' # Advance(x)
                    BY <5>1, <1>3, AdvanceCall
                <5> QED BY <3>5, <2>1, <5>2, <5>3 DEF RevokeRead, At
            <4> QED BY <1>4, <1>6, <2>2, <2>3, <3>1, <3>3, <4>1 DEF CatalogCallOK, At
        <3> QED BY <1>8, <3>4, <3>5
    <2> QED BY <1>8, <2>5, <2>6 DEF RegisterRead, RevokeRead
<1>9. CASE AppendOnce(x)
    <2> DEFINE d == CatalogDraft(x)
               q == CatalogRows
    <2>1. PICK head : head = w[x].head
        OBVIOUS
    <2>2. /\ Rows(Catalog)' = IF AppendOutcome(Catalog, head, d) = "ok" /\ head = HeadOf(Catalog)
                             THEN Append(Rows(Catalog), d) ELSE Rows(Catalog)
          /\ w[x].pc \in {"register", "revoke"} /\ w[x].sub = "append"
        BY <1>9, <2>1, AppendedRows DEF AppendOnce, Written
    <2>3. Others(x) /\ w'[x].pc = w[x].pc /\ w'[x].sub = "confirm"
        BY <1>9, <1>3, StepCall DEF AppendOnce
    <2>4. CatalogCallOK(x)'
        BY <2>3 DEF CatalogCallOK, At
    <2>5. CASE Rows(Catalog)' = Rows(Catalog)
        BY <2>3, <2>4, <2>5, <1>6
    <2>6. CASE head = HeadOf(Catalog) /\ Rows(Catalog)' = Append(Rows(Catalog), d)
        <3>1. CatalogRows' = Append(CatalogRows, d)
            BY <2>6 DEF CatalogRows
        <3>2. HeadOf(Catalog)' = HeadOf(Catalog) + 1
            BY <3>1, CatalogGrows
        <3>3. CASE w[x].pc = "register"
            <4>1. d = Registration(Req(x).key, Req(x).meta)
                BY <3>3, Role DEF CatalogDraft
            <4>2. EntriesOf(Req(x).key) = {} /\ Cardinality(Entries) < CatalogVersions
                BY <2>1, <2>2, <2>6, <3>3 DEF CatalogInv, CatalogCallOK, At
            <4> HIDE DEF d
            <4>3. Replays' /\ CatalogCounts'
                BY <3>1, <4>1, <4>2, CatalogRegistered
            <4> QED BY <2>3, <2>4, <3>2, <4>3, <1>5
        <3>4. CASE w[x].pc = "revoke"
            <4>1. Req(x).op = "revoke"
                BY <3>4, Role
            <4>2. Operation(Req(x).by) = {} /\ Req(x).key \notin Revoked /\ EntriesOf(Req(x).key) # {}
                BY <2>1, <2>2, <2>6, <3>4 DEF CatalogInv, CatalogCallOK, At
            <4>3. PICK e : e = CHOOSE i \in EntriesOf(Req(x).key) : TRUE
                OBVIOUS
            <4>4. e \in EntriesOf(Req(x).key)
                BY <4>2, <4>3
            <4>5. d = Revocation(Req(x).key, RegistrationAt(e), Req(x).by)
                BY <4>1, <4>3 DEF CatalogDraft
            <4>6. PICK key, op, r : key = Req(x).key /\ op = Req(x).by /\ r = RegistrationAt(e)
                OBVIOUS
            <4> HIDE DEF d
            <4>7. Replays' /\ CatalogCounts'
                BY <3>1, <4>2, <4>4, <4>5, <4>6, CatalogRevoked
            <4> QED BY <2>3, <2>4, <3>2, <4>7, <1>5
        <3> QED BY <2>2, <3>3, <3>4
    <2> QED BY <2>2, <2>5, <2>6
<1> QED BY <1>1, <1>7, <1>8, <1>9

\* The Skill catalog always replays: keys are registered once, revoked once and only
\* when registered, operations used once, within the limits (SkillCatalog::replay).
THEOREM CatalogTheorem == Spec => []CatalogInv
<1>1. CatalogInv /\ UNCHANGED vars => CatalogInv'
    <2>1. SUFFICES ASSUME CatalogInv, UNCHANGED vars PROVE CatalogInv'
        OBVIOUS
    <2>2. Rows(Catalog)' = Rows(Catalog) /\ cfg' = cfg /\ w' = w
        BY <2>1 DEF vars, Rows
    <2>3. ASSUME NEW y \in Made PROVE CatalogCallOK(y)'
        <3>1. PICK key, by : key = Req(y).key /\ by = Req(y).by
            OBVIOUS
        <3>2. key = Req(y)'.key /\ by = Req(y)'.by
            BY <2>2, <3>1 DEF Req
        <3> QED BY <2>1, <2>2, <3>1, <3>2, CatalogSame DEF CatalogInv, CatalogCallOK, At
    <2> QED BY <2>1, <2>2, <2>3, CatalogSame DEF CatalogInv, Made
<1>2. Shape /\ JournalInv /\ CatalogInv /\ [Next]_vars => CatalogInv'
    BY <1>1, CatalogStep
<1> QED BY <1>2, CatalogInit, ShapeTheorem, JournalTheorem, PTL DEF Spec

-----------------------------------------------------------------------------
(* Revocation *)

\* The moves that leave the selection alone.
LEMMA MovesKeep ==
    ASSUME Progress, NEW x \in Calls,
           \/ w' = Advance(x)
           \/ \E n : w' = [Advance(x) EXCEPT ![x].instance = n]
           \/ \E why : w' = Refuse(x, why)
           \/ \E sub : w' = Step(x, sub)
           \/ \E sub, n : w' = [Step(x, sub) EXCEPT ![x].head = n]
           \/ \E sub : w' = [Step(x, sub) EXCEPT ![x].tries = @ + 1]
    PROVE  /\ Others(x) /\ w'[x].pc \in {After(x), "ended", w[x].pc}
           /\ w'[x].ad = w[x].ad /\ w'[x].since = w[x].since
<1>1. CASE w' = Advance(x)
    BY <1>1, AdvanceCall
<1>2. CASE \E n : w' = [Advance(x) EXCEPT ![x].instance = n]
    BY <1>2, AdvanceInstance
<1>3. CASE \E why : w' = Refuse(x, why)
    BY <1>3, RefuseCall
<1>4. CASE \E sub : w' = Step(x, sub)
    BY <1>4, StepCall
<1>5. CASE \E sub, n : w' = [Step(x, sub) EXCEPT ![x].head = n]
    <2>1. PICK sub, n : w' = [Step(x, sub) EXCEPT ![x].head = n]
        BY <1>5
    <2> QED BY <2>1, StepHead
<1>6. CASE \E sub : w' = [Step(x, sub) EXCEPT ![x].tries = @ + 1]
    BY <1>6, StepTries
<1> QED BY <1>1, <1>2, <1>3, <1>4, <1>5, <1>6

\* What is revoked stays revoked.
LEMMA RevokedGrows ==
    ASSUME Extends
    PROVE  Revoked \subseteq Revoked'
<1>1. SUFFICES ASSUME NEW k \in Revoked PROVE k \in Revoked'
    OBVIOUS
<1>2. PICK i \in DOMAIN CatalogRows : k = CatalogRows[i].body.key /\ CatalogRows[i].body.kind # "registered"
    BY DEF Revoked, Entries, Registers
<1>3. i \in DOMAIN CatalogRows' /\ CatalogRows'[i] = CatalogRows[i]
    BY <1>2 DEF Extends, CatalogRows
<1> QED BY <1>2, <1>3 DEF Revoked, Entries, Registers

\* Nothing is revoked at first.
LEMMA RevocationInit == Init => RevocationInv
<1>1. SUFFICES ASSUME Init PROVE RevocationInv
    OBVIOUS
<1>2. \A x \in Made : w[x] = Idle
    BY <1>1, Configured DEF Init
<1> QED BY <1>2 DEF RevocationInv, RevocationCall, Ended, Idle

\* Every step keeps revocation final.
LEMMA RevocationStep ==
    ASSUME Shape, JournalInv, RevocationInv, Next
    PROVE  RevocationInv'
<1>1. PICK x \in Made :
           \/ Works(x) \/ Start(x) \/ ReserveLoad(x) \/ ReserveAppend(x) \/ DiscoverSkills(x)
           \/ RegisterRead(x) \/ RevokeRead(x) \/ AppendOnce(x) \/ LoadPrepare(x) \/ Crash(x)
    BY Kinds
<1>2. cfg' = cfg
    BY <1>1 DEF Works, Start, ReserveLoad, ReserveAppend, DiscoverSkills, RegisterRead, RevokeRead,
                AppendOnce, LoadPrepare, Crash, Reads, Writes
<1>3. Progress /\ x \in Calls /\ Made \subseteq Calls /\ Made' = Made
    BY <1>2, Configured DEF Shape, Made
<1>4. Revoked \subseteq Revoked'
    BY StepExtends, RevokedGrows
<1>5. PICK op, key : op = Req(x).op /\ key = Req(x).key
    OBVIOUS
<1>6. op = Req(x)'.op /\ key = Req(x)'.key
    BY <1>2, <1>5 DEF Req
<1>7. RevocationCall(x)
    BY DEF RevocationInv
<1>8. SUFFICES Others(x) /\ RevocationCall(x)'
    <2>1. SUFFICES ASSUME NEW y \in Made, y # x, Others(x)
                   PROVE  RevocationCall(y)'
        BY <1>3 DEF RevocationInv
    <2>2. RevocationCall(y) /\ w'[y] = w[y] /\ Req(y)' = Req(y)
        BY <1>2, <1>3, <2>1 DEF RevocationInv, Others, Req
    <2>3. PICK p, k : p = Req(y).op /\ k = Req(y).key
        OBVIOUS
    <2>4. p = Req(y)'.op /\ k = Req(y)'.key
        BY <2>2, <2>3
    <2> QED BY <1>4, <2>2, <2>3, <2>4 DEF RevocationCall, Prepares, Ended

\* a move of another call than skill.load that keeps the selection
<1>9. ASSUME Others(x), w'[x].pc # "idle", w'[x].ad = w[x].ad, w'[x].since = w[x].since, op # "load"
      PROVE  Others(x) /\ RevocationCall(x)'
    BY <1>4, <1>5, <1>6, <1>7, <1>9 DEF RevocationCall, Prepares
<1>10. CASE Works(x)
    <2>1. /\ w[x].pc \in Worked /\ Onward(x) /\ w[x].pc \notin {"idle", "ended"}
          /\ w[x].pc = "load" => w[x].sub # "read"
        BY <1>10 DEF Works, Worked
    <2>2. After(x) # "idle"
        BY <2>1, OnPath
    <2>3. /\ Others(x) /\ w'[x].ad = w[x].ad /\ w'[x].since = w[x].since
          /\ w'[x].pc # "idle"
          /\ \/ w'[x].pc = After(x)
             \/ w'[x].pc = w[x].pc /\ w[x].pc \notin {"register", "revoke", "load"}
             \/ w'[x].pc = "ended" /\ w'[x].res # "ok"
        BY <2>1, <2>2, <1>3, OnwardCall
    <2>4. CASE op # "load"
        BY <2>3, <2>4, <1>9
    <2>5. CASE op = "load"
        <3>1. w[x].pc = "load"
            BY <2>1, <2>5, <1>5, OtherAfter DEF Shape
        <3>2. key \notin w[x].since
            BY <1>5, <1>7, <2>1, <2>5, <3>1 DEF RevocationCall
        <3>3. ~(op \in {"root", "child"})
            BY <2>5
        <3> QED BY <1>4, <1>5, <1>6, <1>7, <2>3, <3>2, <3>3 DEF RevocationCall, Prepares
    <2> QED BY <2>4, <2>5
<1>11. CASE Start(x)
    <2>1. PICK since : since = Revoked
        OBVIOUS
    <2>2. w' = [w EXCEPT ![x].pc = Path(x)[1], ![x].since = since] /\ At(x, "idle", "read")
        BY <1>11, <2>1 DEF Start
    <2>3. /\ Others(x) /\ w'[x].pc = Path(x)[1] /\ w'[x].sub = "read"
          /\ w'[x].ad = w[x].ad /\ w'[x].since = since
        BY <2>2, <1>3 DEF Progress, Fields, Others, At
    <2>4. w[x].ad = {}
        BY <1>7, <2>2 DEF RevocationCall, At
    <2>5. Path(x)[1] \notin {"idle", "ended"}
        <3>1. \/ Req(x).op = "root" \/ Req(x).op = "child" \/ Req(x).op \in {"register", "revoke", "load"}
            BY Configured DEF Shape
        <3> QED BY <3>1, RootAfter, ChildAfter, OtherAfter
    <2> QED BY <2>1, <2>3, <2>4, <2>5, <1>4 DEF RevocationCall, Ended
<1>12. CASE ReserveLoad(x) \/ ReserveAppend(x)
    <2>1. w[x].pc = "reserve" /\ op # "load"
        BY <1>5, <1>12, Role DEF ReserveLoad, ReserveAppend, At, Prepares
    <2>2. \/ \E n : w' = [Advance(x) EXCEPT ![x].instance = n]
          \/ \E why : w' = Refuse(x, why)
          \/ \E sub, n : w' = [Step(x, sub) EXCEPT ![x].head = n]
          \/ \E sub : w' = [Step(x, sub) EXCEPT ![x].tries = @ + 1]
        <3>1. CASE ReserveLoad(x)
            BY <3>1 DEF ReserveLoad
        <3>2. CASE ReserveAppend(x)
            BY <3>2 DEF ReserveAppend
        <3> QED BY <1>12, <3>1, <3>2
    <2>3. /\ Others(x) /\ w'[x].pc \in {After(x), "ended", w[x].pc}
          /\ w'[x].ad = w[x].ad /\ w'[x].since = w[x].since
        BY <2>2, <1>3, MovesKeep
    <2>4. After(x) # "idle"
        BY <2>1, OnPath
    <2> QED BY <2>1, <2>3, <2>4, <1>9
<1>13. CASE RegisterRead(x) \/ RevokeRead(x) \/ AppendOnce(x)
    <2>1. w[x].pc \in {"register", "revoke"} /\ op # "load"
        BY <1>5, <1>13, Role DEF RegisterRead, RevokeRead, AppendOnce, At
    <2>2. \/ w' = Advance(x)
          \/ \E why : w' = Refuse(x, why)
          \/ \E sub : w' = Step(x, sub)
          \/ \E sub, n : w' = [Step(x, sub) EXCEPT ![x].head = n]
        BY <1>13 DEF RegisterRead, RevokeRead, AppendOnce
    <2>3. /\ Others(x) /\ w'[x].pc \in {After(x), "ended", w[x].pc}
          /\ w'[x].ad = w[x].ad /\ w'[x].since = w[x].since
        BY <2>2, <1>3, MovesKeep
    <2>4. After(x) # "idle"
        BY <2>1, OnPath
    <2> QED BY <2>1, <2>3, <2>4, <1>9
<1>14. CASE DiscoverSkills(x)
    <2>1. w[x].pc = "skills" /\ op # "load"
        BY <1>5, <1>14, Role DEF DiscoverSkills, At, Prepares
    <2>2. CASE w' = Refuse(x, "Provenance")
        <3>1. /\ Others(x) /\ w'[x].pc = "ended" /\ w'[x].ad = w[x].ad /\ w'[x].since = w[x].since
            BY <2>2, <1>3, RefuseCall
        <3> QED BY <2>1, <3>1, <1>9
    <2>3. CASE w' = [Step(x, "check") EXCEPT ![x].ad = Discover(Req(x).def)]
        <3>1. PICK ad : ad = Discover(Req(x).def)
            OBVIOUS
        <3>2. w' = [Step(x, "check") EXCEPT ![x].ad = ad]
            BY <2>3, <3>1
        <3>3. Others(x) /\ w'[x].pc = w[x].pc /\ w'[x].ad = ad /\ w'[x].since = w[x].since
            BY <3>2, <1>3 DEF Progress, Fields, Others, Step
        <3>4. \A s \in ad : s.key \notin Revoked
            BY <3>1 DEF Discover
        <3> QED BY <2>1, <3>3, <3>4, <1>4, <1>5, <1>6, <1>7 DEF RevocationCall, Ended
    <2> QED BY <1>14, <2>2, <2>3 DEF DiscoverSkills
<1>15. CASE LoadPrepare(x)
    <2>1. w[x].pc = "load" /\ op = "load"
        BY <1>5, <1>15, Role DEF LoadPrepare, At
    <2>2. CASE w' = Refuse(x, "Revoked")
        <3>1. /\ Others(x) /\ w'[x].pc = "ended" /\ w'[x].since = w[x].since /\ w'[x].res = "Revoked"
            BY <2>2, <1>3, RefuseCall
        <3> QED BY <2>1, <3>1, <1>4, <1>5, <1>6, <1>7 DEF RevocationCall, Prepares, Ended
    <2>3. ASSUME w' # Refuse(x, "Revoked") PROVE Others(x) /\ RevocationCall(x)'
        <3>1. PICK o, snap, ad : /\ o = Req(x).owner /\ snap = tasks[o].snap
                                 /\ ad = SavedSelection(o, snap)
            OBVIOUS
        <3>2. /\ ValidateCurrent(o, snap) /\ \E s \in ad : s.key = key
              /\ w' = [Step(x, "granted") EXCEPT ![x].ad = ad]
            BY <1>5, <1>15, <2>3, <3>1 DEF LoadPrepare
        <3>3. Others(x) /\ w'[x].pc = w[x].pc /\ w'[x].since = w[x].since
            BY <3>2, <1>3 DEF Progress, Fields, Others, Step
        <3>4. key \notin Revoked
            BY <3>1, <3>2 DEF ValidateCurrent, CheckCurrent
        <3>5. key \notin w[x].since /\ w[x].since \subseteq Revoked
            BY <3>4, <1>7 DEF RevocationCall
        <3> QED BY <2>1, <3>3, <3>5, <1>4, <1>5, <1>6 DEF RevocationCall, Prepares, Ended
    <2> QED BY <2>2, <2>3
<1>16. CASE Crash(x)
    <2>1. Others(x) /\ w'[x] = Idle
        BY <1>16, <1>3, CrashCall DEF Crash
    <2> QED BY <2>1 DEF RevocationCall, Ended, Idle
<1> QED BY <1>1, <1>10, <1>11, <1>12, <1>13, <1>14, <1>15, <1>16

\* A version revoked before a call started is neither selected, loaded nor returned by
\* it: discovery, binding and loading each look at the catalog anew.
THEOREM RevocationTheorem == Spec => []RevocationHolds
<1>1. RevocationInv /\ UNCHANGED vars => RevocationInv'
    <2>1. SUFFICES ASSUME RevocationInv, UNCHANGED vars PROVE RevocationInv'
        OBVIOUS
    <2>2. Revoked' = Revoked /\ cfg' = cfg /\ w' = w
        BY <2>1 DEF vars, Revoked, CatalogRows, Entries, Registers, Rows
    <2> QED BY <2>1, <2>2 DEF RevocationInv, RevocationCall, Made, Prepares, Req, Ended
<1>2. Shape /\ JournalInv /\ RevocationInv /\ [Next]_vars => RevocationInv'
    BY <1>1, RevocationStep
<1>3. RevocationInv => RevocationHolds
    BY DEF RevocationInv, RevocationCall, RevocationHolds
<1> QED BY <1>2, <1>3, RevocationInit, ShapeTheorem, JournalTheorem, PTL DEF Spec

-----------------------------------------------------------------------------
(* What stays *)

\* Stores only grow.
Grows ==
    /\ Extends /\ cfg' = cfg /\ artifacts \subseteq artifacts'
    /\ \A o \in DOMAIN sessions : o \in DOMAIN sessions' /\ sessions'[o] = sessions[o]
    /\ \A o \in DOMAIN tasks : o \in DOMAIN tasks' /\ tasks'[o] = tasks[o]

\* And they are usable before and after.
Grown == Grows /\ RegistryLoads /\ RegistryLoads' /\ Replays'

\* Every step lets the stores grow only.
LEMMA StepGrows ==
    ASSUME Shape, JournalInv, Next
    PROVE  Grows
<1>1. Extends
    BY StepExtends
<1>2. PICK x \in Made : \/ Start(x) \/ Reserve(x) \/ Save(x) \/ AssembleTools(x)
                        \/ Context(x) \/ PrepareSkills(x) \/ Publish(x) \/ Admit(x)
                        \/ CatalogCall(x) \/ LoadSkill(x) \/ Crash(x)
    BY DEF Next
<1>3. CASE InitializeContext(x)
    <2>1. UNCHANGED <<cfg, artifacts, tasks>>
        BY <1>3 DEF InitializeContext
    <2>2. \/ sessions' = sessions
          \/ /\ Req(x).owner \notin DOMAIN sessions
             /\ sessions' = Put(sessions, Req(x).owner, Initialization(Snapshot(x), Req(x).msg))
        BY <1>3 DEF InitializeContext
    <2> QED BY <1>1, <2>1, <2>2 DEF Grows, Put
<1>4. CASE Admit(x)
    <2>1. UNCHANGED <<cfg, artifacts, sessions>>
        BY <1>4 DEF Admit
    <2>2. \/ tasks' = tasks
          \/ /\ Req(x).owner \notin DOMAIN tasks
             /\ tasks' = Put(tasks, Req(x).owner,
                             [snap |-> Snapshot(x), source |-> InputStream(Req(x).owner)])
        BY <1>4 DEF Admit
    <2> QED BY <1>1, <2>1, <2>2 DEF Grows, Put
<1>5. CASE Archive(x)
    BY <1>1, <1>5 DEF Archive, Grows
<1>6. CASE ~InitializeContext(x) /\ ~Admit(x) /\ ~Archive(x)
    <2>1. UNCHANGED <<cfg, artifacts, sessions, tasks>>
        BY <1>2, <1>6
           DEF Start, Reserve, Save, AssembleTools, Context, PrepareSkills, Publish, CatalogCall,
               LoadSkill, Crash, ReserveLoad, ReserveAppend, SaveLoad, SaveAppend, ContextRead,
               ContextAppend, ContextConfirm, LoadInitialization, DiscoverSkills, BindCheck,
               BindAppend, BindConfirm, PublishRead, PublishAppend, PublishConfirm, RegisterRead,
               RevokeRead, AppendOnce, CatalogConfirm, LoadPrepare, LoadExecute, Reads, Writes
    <2> QED BY <1>1, <2>1 DEF Grows
<1> QED BY <1>3, <1>4, <1>5, <1>6

\* The snapshot is of the one instance reserved.
LEMMA SnapOne ==
    ASSUME RegistryLoads, NEW o, ReservedBy(o) # {}
    PROVE  \E i : ReservedBy(o) = {i} /\ (CHOOSE j \in ReservedBy(o) : TRUE) = i
<1>1. PICK i : i \in ReservedBy(o)
    OBVIOUS
<1>2. i \in DOMAIN Rows(Registry) /\ Rows(Registry)[i].body.owner = o
    BY <1>1 DEF ReservedBy
<1>3. ReservedBy(o) = {i}
    BY <1>2 DEF RegistryLoads
<1> QED BY <1>3

\* A snapshot stays,
LEMMA SnapStays ==
    ASSUME Grown, NEW x, ReservedBy(Req(x).owner) # {}
    PROVE  /\ Req(x)' = Req(x)
           /\ (ReservedBy(Req(x).owner) # {})'
           /\ SnapOf(x)' = SnapOf(x)
<1>1. Req(x)' = Req(x)
    BY DEF Grown, Grows, Req
<1>2. PICK o, def : o = Req(x).owner /\ def = Req(x).def
    OBVIOUS
<1>3. o = Req(x)'.owner /\ def = Req(x)'.def
    BY <1>1, <1>2
<1>4. PICK i : ReservedBy(o) = {i} /\ (CHOOSE j \in ReservedBy(o) : TRUE) = i
    BY <1>2, SnapOne DEF Grown
<1>5. ReservedBy(o)' = {i}
    BY <1>4, RegistryKeeps DEF Grown, Grows
<1>6. SnapOf(x) = [instance |-> i, def |-> def]
    BY <1>2, <1>4 DEF SnapOf
<1>7. SnapOf(x)' = [instance |-> i, def |-> def]
    BY <1>3, <1>5 DEF SnapOf
<1> QED BY <1>1, <1>2, <1>3, <1>5, <1>6, <1>7

\* a single fact stays,
LEMMA SingleStays ==
    ASSUME Extends, NEW s, s[1] \in Singles, NEW row, Rows(s) = <<row>>
    PROVE  Rows(s)' = <<row>>
<1>1. HeadOf(s) = 1
    BY OneTuple DEF HeadOf
<1> QED BY <1>1 DEF Extends

\* and so does everything a call has in place: the binding,
LEMMA BoundStays ==
    ASSUME Grown, NEW x, Bound(x)
    PROVE  Bound(x)' /\ Req(x)' = Req(x) /\ SnapOf(x)' = SnapOf(x)
<1>1. PICK r, snap : r = Req(x) /\ snap = SnapOf(x)
    OBVIOUS
<1>2. /\ r = Req(x)' /\ snap = SnapOf(x)' /\ (ReservedBy(Req(x).owner) # {})'
    BY <1>1, SnapStays DEF Bound
<1>3. Rows(BindingStream(r.owner)) = <<BindingDraft(r.owner, r.op, snap)>>
    BY <1>1 DEF Bound
<1>4. BindingStream(r.owner)[1] \in Singles
    BY DEF BindingStream, Singles
<1>5. Rows(BindingStream(r.owner))' = <<BindingDraft(r.owner, r.op, snap)>>
    BY <1>3, <1>4, SingleStays DEF Grown, Grows
<1>6. r.op = "child" => r.parent \in DOMAIN tasks'
    BY <1>1 DEF Bound, Grown, Grows
<1> QED BY <1>1, <1>2, <1>5, <1>6 DEF Bound

\* the context,
LEMMA ContextedStays ==
    ASSUME Grown, NEW x, Contexted(x)
    PROVE  Contexted(x)'
<1>1. PICK r, snap : r = Req(x) /\ snap = SnapOf(x)
    OBVIOUS
<1>2. Bound(x)' /\ r = Req(x)' /\ snap = SnapOf(x)'
    BY <1>1, BoundStays DEF Contexted
<1>3. /\ Rows(ContextStream(r.owner)) = <<ContextDraft(r.owner, snap, r.msg)>>
      /\ ContextStream(r.owner)[1] \in Singles /\ r.op = "child"
    BY <1>1 DEF Contexted, ContextStream, Singles
<1>4. Rows(ContextStream(r.owner))' = <<ContextDraft(r.owner, snap, r.msg)>>
    BY <1>3, SingleStays DEF Grown, Grows
<1> QED BY <1>1, <1>2, <1>3, <1>4 DEF Contexted

\* the session,
LEMMA SessionedStays ==
    ASSUME Grown, NEW x, Sessioned(x)
    PROVE  Sessioned(x)'
<1>1. PICK r, snap : r = Req(x) /\ snap = SnapOf(x)
    OBVIOUS
<1>2. Contexted(x)' /\ r = Req(x)' /\ snap = SnapOf(x)'
    BY <1>1, BoundStays, ContextedStays DEF Contexted, Sessioned
<1>3. /\ r.owner \in DOMAIN sessions' /\ sessions'[r.owner] = Initialization(snap, r.msg)
    BY <1>1 DEF Sessioned, Grown, Grows
<1> QED BY <1>2, <1>3 DEF Sessioned

\* all of it,
LEMMA OpenedStays ==
    ASSUME Grown, NEW x, Opened(x)
    PROVE  Opened(x)'
<1>1. Bound(x)' /\ Req(x)' = Req(x)
    BY BoundStays DEF Opened
<1> QED BY <1>1, SessionedStays DEF Opened

\* the catalog's entries,
LEMMA EntriesStay ==
    ASSUME Extends
    PROVE  /\ \A i \in DOMAIN CatalogRows : /\ i \in DOMAIN CatalogRows'
                                            /\ CatalogRows'[i] = CatalogRows[i]
                                            /\ RegistrationAt(i)' = RegistrationAt(i)
           /\ \A i \in Entries : i \in DOMAIN CatalogRows /\ i \in Entries'
           /\ \A key, i : i \in EntriesOf(key) => i \in DOMAIN CatalogRows /\ i \in EntriesOf(key)'
           /\ \A s : Registered(s) => Registered(s)'
<1>1. \A i \in DOMAIN CatalogRows : i \in DOMAIN CatalogRows' /\ CatalogRows'[i] = CatalogRows[i]
    BY DEF Extends, CatalogRows
<1>2. \A i \in DOMAIN CatalogRows : RegistrationAt(i)' = RegistrationAt(i)
    BY <1>1 DEF RegistrationAt
<1>3. \A i \in Entries : i \in DOMAIN CatalogRows /\ i \in Entries'
    BY <1>1 DEF Entries, Registers
<1>4. \A key, i : i \in EntriesOf(key) => i \in DOMAIN CatalogRows /\ i \in EntriesOf(key)'
    BY <1>1, <1>3 DEF EntriesOf
<1>5. ASSUME NEW s, Registered(s) PROVE Registered(s)'
    <2>1. PICK i \in EntriesOf(s.key) :
              s.registration = RegistrationAt(i) /\ s.meta = CatalogRows[i].body.meta
        BY <1>5 DEF Registered
    <2> QED BY <2>1, <1>1, <1>2, <1>4 DEF Registered
<1> QED BY <1>1, <1>2, <1>3, <1>4, <1>5

\* a selection that was sound,
LEMMA AdSoundStays ==
    ASSUME Grown, NEW ad, NEW def, AdSound(ad, def)
    PROVE  AdSound(ad, def)'
<1>1. Extends /\ Replays'
    BY DEF Grown, Grows
<1>2. \A s \in ad : Registered(s)'
    BY <1>1, EntriesStay DEF AdSound
<1>3. \A key \in Acl[def] : EntriesOf(key)' # {}
    <2>1. SUFFICES ASSUME NEW key \in Acl[def] PROVE EntriesOf(key)' # {}
        OBVIOUS
    <2>2. PICK i : i \in EntriesOf(key)
        BY <2>1 DEF AdSound
    <2> QED BY <2>2, <1>1, EntriesStay
<1>4. ASSUME Acl[def] \cap Revoked' = {} PROVE ad = Discover(def)'
    <2>1. Acl[def] \cap Revoked = {}
        BY <1>1, <1>4, RevokedGrows
    <2>2. ad = Discover(def)
        BY <2>1 DEF AdSound
    <2> DEFINE D == {j \in Entries : CatalogRows[j].body.key \in Acl[def] \ Revoked}
    <2>3. D' = D
        <3>1. \A j \in D : j \in D'
            BY <1>1, <1>4, EntriesStay
        <3>2. ASSUME NEW j \in D' PROVE j \in D
            <4>1. j \in Entries' /\ CatalogRows'[j].body.key \in Acl[def]
                OBVIOUS
            <4>2. PICK key : key = CatalogRows'[j].body.key
                OBVIOUS
            <4>3. PICK i : i \in EntriesOf(key)
                BY <4>1, <4>2 DEF AdSound
            <4>4. i \in EntriesOf(key)' /\ i \in DOMAIN CatalogRows /\ CatalogRows'[i] = CatalogRows[i]
                BY <4>3, <1>1, EntriesStay
            <4>5. j \in EntriesOf(key)'
                BY <4>1, <4>2 DEF EntriesOf
            <4>6. i = j
                <5>1. i \in Entries' /\ CatalogRows'[i].body.key = key
                    BY <4>4 DEF EntriesOf
                <5>2. Registers(i)' /\ Registers(j)' /\ i \in DOMAIN CatalogRows' /\ j \in DOMAIN CatalogRows'
                    BY <4>1, <5>1 DEF Entries
                <5>3. ReplayRegistration(i)' /\ ReplayRegistration(j)'
                    BY <1>1, <5>2 DEF Replays
                <5>4. i >= j /\ j >= i
                    BY <4>2, <4>4, <4>5, <5>1, <5>3 DEF ReplayRegistration
                <5>5. i \in Nat /\ j \in Nat
                    <6>1. DOMAIN CatalogRows' = 1..HeadOf(Catalog)' /\ HeadOf(Catalog)' \in Nat
                        BY <1>1 DEF Extends, CatalogRows
                    <6> QED BY <5>2, <6>1
                <5> QED BY <5>4, <5>5
            <4> QED BY <2>1, <4>1, <4>2, <4>3, <4>6 DEF EntriesOf
        <3> QED BY <3>1, <3>2
    <2>4. \A i \in D : /\ CatalogRows'[i] = CatalogRows[i]
                       /\ RegistrationAt(i)' = RegistrationAt(i)
        BY <1>1, EntriesStay
    <2>5. Discover(def) = {[key |-> CatalogRows[i].body.key, meta |-> CatalogRows[i].body.meta,
                            registration |-> RegistrationAt(i)] : i \in D}
        BY DEF Discover
    <2>6. Discover(def)' = {[key |-> CatalogRows'[i].body.key, meta |-> CatalogRows'[i].body.meta,
                             registration |-> RegistrationAt(i)'] : i \in D'}
        BY DEF Discover
    <2> HIDE DEF D
    <2>7. Discover(def)' = Discover(def)
        BY <2>3, <2>4, <2>5, <2>6
    <2> QED BY <2>2, <2>7
<1>5. IsFiniteSet(ad)
    BY DEF AdSound
<1> QED BY <1>2, <1>3, <1>4, <1>5 DEF AdSound

\* the selection saved,
LEMMA SelectedStays ==
    ASSUME Grown, NEW x, NEW ad, Selected(x, ad)
    PROVE  Selected(x, ad)'
<1>1. PICK r, snap : r = Req(x) /\ snap = SnapOf(x)
    OBVIOUS
<1>2. Opened(x)' /\ r = Req(x)' /\ snap = SnapOf(x)' /\ cfg'.skills
    BY <1>1, OpenedStays, BoundStays DEF Selected, Opened, Grown, Grows
<1>3. AdSound(ad, r.def)'
    BY <1>1, AdSoundStays DEF Selected
<1>4. Rows(SkillStream(r.owner, snap)) = <<SkillDraft(r.owner, snap, ad)>>
      /\ SkillStream(r.owner, snap)[1] \in Singles
    BY <1>1 DEF Selected, SkillStream, Singles
<1>5. Rows(SkillStream(r.owner, snap))' = <<SkillDraft(r.owner, snap, ad)>>
    BY <1>4, SingleStays DEF Grown, Grows
<1> QED BY <1>1, <1>2, <1>3, <1>5 DEF Selected

\* which is the one that is read back,
LEMMA SavedAd ==
    ASSUME NEW x, NEW ad, Selected(x, ad)
    PROVE  SavedSelection(Req(x).owner, SnapOf(x)) = ad
BY OneTuple DEF Selected, SavedSelection, SkillDraft

\* what an input refers to,
LEMMA ReadyStays ==
    ASSUME Grown, NEW x, Ready(x)
    PROVE  Ready(x)'
<1>1. Opened(x)' /\ cfg' = cfg
    BY OpenedStays DEF Ready, Grown, Grows
<1>2. ASSUME cfg.skills PROVE Selected(x, SavedSelection(Req(x).owner, SnapOf(x)))'
    <2>1. PICK ad : ad = SavedSelection(Req(x).owner, SnapOf(x))
        OBVIOUS
    <2>2. Selected(x, ad) /\ Selected(x, ad)'
        BY <1>2, <2>1, SelectedStays DEF Ready
    <2>3. PICK r, snap : r = Req(x)' /\ snap = SnapOf(x)'
        OBVIOUS
    <2>4. Rows(SkillStream(r.owner, snap))' = <<SkillDraft(r.owner, snap, ad)>>
        BY <2>2, <2>3 DEF Selected
    <2>5. SavedSelection(r.owner, snap)' = ad
        BY <2>4, OneTuple DEF SavedSelection, SkillDraft
    <2> QED BY <2>2, <2>3, <2>5
<1> QED BY <1>1, <1>2 DEF Ready

\* the input,
LEMMA PublishedStays ==
    ASSUME Grown, NEW x, Published(x)
    PROVE  Published(x)' /\ DocOf(x)' = DocOf(x)
<1>1. PICK r, snap, doc : r = Req(x) /\ snap = SnapOf(x) /\ doc = DocOf(x)
    OBVIOUS
<1>2. Ready(x)' /\ r = Req(x)' /\ snap = SnapOf(x)' /\ cfg' = cfg
    BY <1>1, ReadyStays, BoundStays DEF Published, Ready, Opened, Grown, Grows
<1>3. doc = DocOf(x)'
    BY <1>1, <1>2 DEF DocOf, DocumentOf
<1>4. /\ Rows(InputStream(r.owner)) = <<InputDraft(r.owner, r.op, snap, doc)>>
      /\ InputStream(r.owner)[1] \in Singles
    BY <1>1 DEF Published, InputStream, Singles
<1>5. Rows(InputStream(r.owner))' = <<InputDraft(r.owner, r.op, snap, doc)>>
    BY <1>4, SingleStays DEF Grown, Grows
<1>6. doc \in artifacts'
    BY <1>1 DEF Published, Grown, Grows
<1> QED BY <1>1, <1>2, <1>3, <1>5, <1>6 DEF Published

\* the Task,
LEMMA AdmittedStays ==
    ASSUME Grown, NEW x, Admitted(x)
    PROVE  Admitted(x)'
<1>1. PICK r, snap : r = Req(x) /\ snap = SnapOf(x)
    OBVIOUS
<1>2. Published(x)' /\ r = Req(x)' /\ snap = SnapOf(x)'
    BY <1>1, PublishedStays, BoundStays DEF Admitted, Published, Ready, Opened
<1>3. /\ r.owner \in DOMAIN tasks'
      /\ tasks'[r.owner] = [snap |-> snap, source |-> InputStream(r.owner)]
    BY <1>1 DEF Admitted, Grown, Grows
<1> QED BY <1>2, <1>3 DEF Admitted

\* and who wrote it.
LEMMA AuthoredStays ==
    ASSUME Grown, NEW s, Authored(s)
    PROVE  Authored(s)'
<1>1. PICK x \in Made : Prepares(x) /\
        (\/ s = BindingStream(Req(x).owner) /\ Bound(x)
         \/ s = ContextStream(Req(x).owner) /\ Contexted(x)
         \/ /\ Opened(x) /\ s = SkillStream(Req(x).owner, SnapOf(x))
            /\ Selected(x, SavedSelection(Req(x).owner, SnapOf(x)))
         \/ s = InputStream(Req(x).owner) /\ Published(x))
    BY DEF Authored
<1>2. Bound(x)
    BY <1>1 DEF Contexted, Opened, Published, Ready
<1>3. PICK r, snap : r = Req(x) /\ snap = SnapOf(x)
    OBVIOUS
<1>4. /\ r = Req(x)' /\ snap = SnapOf(x)' /\ Made' = Made /\ Prepares(x)'
    BY <1>1, <1>2, <1>3, BoundStays DEF Prepares, Made, Grown, Grows
<1>5. CASE s = BindingStream(r.owner)
    BY <1>2, <1>4, <1>5, BoundStays DEF Authored
<1>6. CASE s = ContextStream(r.owner) /\ Contexted(x)
    BY <1>4, <1>6, ContextedStays DEF Authored
<1>7. CASE /\ Opened(x) /\ s = SkillStream(r.owner, snap)
           /\ Selected(x, SavedSelection(r.owner, snap))
    <2>1. PICK ad : ad = SavedSelection(r.owner, snap)
        OBVIOUS
    <2>2. Opened(x)' /\ Selected(x, ad)'
        BY <1>7, <2>1, OpenedStays, SelectedStays
    <2>3. Rows(SkillStream(r.owner, snap))' = <<SkillDraft(r.owner, snap, ad)>>
        BY <2>2, <1>4 DEF Selected
    <2>4. SavedSelection(r.owner, snap)' = ad
        BY <2>3, OneTuple DEF SavedSelection, SkillDraft
    <2> QED BY <1>4, <1>7, <2>2, <2>4 DEF Authored
<1>8. CASE s = InputStream(r.owner) /\ Published(x)
    BY <1>4, <1>8, PublishedStays DEF Authored
<1> QED BY <1>1, <1>3, <1>5, <1>6, <1>7, <1>8

\* Justified, of a refusal not yet made
JustifiedBy(x, why) ==
    LET o == Req(x).owner
    IN  \/ why = "ok"
        \/ why = "Provenance" /\ cfg.skills
        \/ why = "Host" /\ cfg.refuses
        \/ why = "Conflict" /\ \E y \in Preparers(o) : Req(y) # Req(x)
        \/ why \in {"Revoked", "SkillConflict"} /\ cfg.skills /\ Acl[Req(x).def] \cap Revoked # {}
        \/ why = "Capacity" /\ HeadOf(Registry) = cfg.capacity /\ ReservedBy(o) = {}
        \/ why = "Contention" /\ HeadOf(Registry) >= MaxCasAttempts

\* A reason to refuse stays one.
LEMMA JustifiedStays ==
    ASSUME Grown, NEW x, NEW why, JustifiedBy(x, why)
    PROVE  JustifiedBy(x, why)'
<1>1. PICK r, o, def : r = Req(x) /\ o = r.owner /\ def = r.def
    OBVIOUS
<1>2. cfg' = cfg /\ r = Req(x)'
    BY <1>1 DEF Grown, Grows, Req
<1>3. /\ HeadOf(Registry) \in Nat /\ HeadOf(Registry)' \in Nat
      /\ HeadOf(Registry) <= HeadOf(Registry)'
    BY DEF Grown, Grows, Extends
<1>4. CASE why = "ok"
    BY <1>4 DEF JustifiedBy
<1>5. CASE why = "Provenance" /\ cfg.skills
    BY <1>2, <1>5 DEF JustifiedBy
<1>6. CASE why = "Host" /\ cfg.refuses
    BY <1>2, <1>6 DEF JustifiedBy
<1>7. CASE why = "Conflict" /\ \E y \in Preparers(o) : Req(y) # Req(x)
    BY <1>1, <1>2, <1>7 DEF JustifiedBy, Preparers, Made, Prepares, Req
<1>8. CASE why \in {"Revoked", "SkillConflict"} /\ cfg.skills /\ Acl[def] \cap Revoked # {}
    <2>1. Acl[def] \cap Revoked' # {}
        BY <1>8, RevokedGrows DEF Grown, Grows
    <2> QED BY <1>1, <1>2, <1>8, <2>1 DEF JustifiedBy
<1>9. CASE why = "Capacity" /\ HeadOf(Registry) = cfg.capacity /\ ReservedBy(o) = {}
    <2>1. HeadOf(Registry)' = HeadOf(Registry)
        BY <1>2, <1>3, <1>9 DEF Grown, RegistryLoads
    <2>2. ReservedBy(o)' = {}
        BY <1>9, <2>1, RegistryKeeps DEF Grown, Grows
    <2> QED BY <1>1, <1>2, <1>9, <2>1, <2>2 DEF JustifiedBy
<1>10. CASE why = "Contention" /\ HeadOf(Registry) >= MaxCasAttempts
    BY <1>2, <1>3, <1>10, PreparationAssumption DEF JustifiedBy
<1> QED BY <1>1, <1>4, <1>5, <1>6, <1>7, <1>8, <1>9, <1>10 DEF JustifiedBy

\* A call that does not move stays sound.
LEMMA CallSoundStays ==
    ASSUME Grown, NEW x, CallSound(x), w'[x] = w[x]
    PROVE  CallSound(x)'
<1>1. PICK r, o, snap : r = Req(x) /\ o = r.owner /\ snap = SnapOf(x)
    OBVIOUS
<1>2. cfg' = cfg /\ r = Req(x)' /\ \A s : HeadOf(s) > 0 => HeadOf(s)' > 0
    BY <1>1 DEF Grown, Grows, Req, Extends
<1>3. /\ PastBinding(x)' <=> PastBinding(x)
      /\ PastContext(x)' <=> PastContext(x)
      /\ PastSession(x)' <=> PastSession(x)
      /\ PastSkills(x)' <=> PastSkills(x)
      /\ \A pc, sub : At(x, pc, sub)' <=> At(x, pc, sub)
      /\ Ended(x, "ok")' <=> Ended(x, "ok")
    BY <1>1, <1>2 DEF PastBinding, PastContext, PastSession, PastSkills, At, Ended
<1>4. Bound(x) => Bound(x)' /\ SnapOf(x)' = snap /\ DocOf(x)' = DocOf(x)
    BY <1>1, <1>2, BoundStays DEF DocOf, DocumentOf
<1>5. w[x].pc \in {"skills", "publish", "admit"} \/ Ended(x, "ok") => Bound(x)
    BY DEF CallSound, PastBinding
<1>6. r.op = "child" /\ w'[x].pc # "idle" => r.parent \in DOMAIN tasks'
    BY <1>1 DEF CallSound, Grown, Grows
<1>7. PastBinding(x)' => Bound(x)'
    BY <1>3, <1>4 DEF CallSound
<1>8. At(x, "context", "confirm")' => HeadOf(ContextStream(o))' > 0
    BY <1>1, <1>2, <1>3 DEF CallSound
<1>9. PastContext(x)' => Contexted(x)'
    BY <1>3, ContextedStays DEF CallSound
<1>10. PastSession(x)' => Sessioned(x)'
    BY <1>3, SessionedStays DEF CallSound
<1>11. w[x].pc = "skills" /\ w[x].sub # "read" => AdSound(w[x].ad, r.def)'
    <2>1. PICK ad : ad = w[x].ad
        OBVIOUS
    <2>2. PICK def : def = r.def
        OBVIOUS
    <2>3. w[x].pc = "skills" /\ w[x].sub # "read" => AdSound(ad, def)
        BY <1>1, <2>1, <2>2 DEF CallSound
    <2>4. w[x].pc = "skills" /\ w[x].sub # "read" => AdSound(ad, def)'
        BY <2>3, AdSoundStays
    <2>5. ad = w'[x].ad
        BY <2>1
    <2> QED BY <2>2, <2>4, <2>5
<1>12. At(x, "skills", "confirm")' => HeadOf(SkillStream(o, snap))' > 0
    BY <1>1, <1>2, <1>3 DEF CallSound
<1>13. PastSkills(x)' => Selected(x, w[x].ad)'
    <2>1. PICK ad : ad = w[x].ad
        OBVIOUS
    <2>2. PastSkills(x)' => Selected(x, ad)
        BY <1>3, <2>1 DEF CallSound
    <2>3. PastSkills(x)' => Selected(x, ad)'
        BY <2>2, SelectedStays
    <2>4. ad = w'[x].ad
        BY <2>1
    <2> QED BY <2>3, <2>4
<1>14. w[x].pc \in {"publish", "admit"} \/ Ended(x, "ok") => DocOf(x)' \in artifacts'
    BY <1>4, <1>5 DEF CallSound, Grown, Grows
<1>15. At(x, "publish", "confirm")' => HeadOf(InputStream(o))' > 0
    BY <1>1, <1>2, <1>3 DEF CallSound
<1>16. w[x].pc = "admit" \/ Ended(x, "ok") => Published(x)'
    BY PublishedStays DEF CallSound
<1>17. Ended(x, "ok") => Admitted(x)'
    BY AdmittedStays DEF CallSound
<1>18. w[x].pc = "ended" => Justified(x)'
    <2>1. PICK why : why = w[x].res
        OBVIOUS
    <2>2. w[x].pc = "ended" => JustifiedBy(x, why)
        BY <2>1 DEF CallSound, Justified, JustifiedBy
    <2>3. w[x].pc = "ended" => JustifiedBy(x, why)'
        BY <2>2, JustifiedStays
    <2> QED BY <2>1, <2>3 DEF Justified, JustifiedBy
<1>19. /\ w'[x].pc = "skills" /\ w'[x].sub # "read" => AdSound(w[x].ad, Req(x).def)'
       /\ At(x, "skills", "confirm")' => (HeadOf(SkillStream(Req(x).owner, SnapOf(x))) > 0)'
       /\ w'[x].pc \in {"publish", "admit"} \/ Ended(x, "ok")' => (DocOf(x) \in artifacts)'
    <2>1. At(x, "skills", "confirm")' => SnapOf(x)' = snap
        BY <1>3, <1>4, <1>5 DEF At
    <2> QED BY <1>1, <1>2, <1>3, <1>11, <1>12, <1>14, <2>1
<1> QED BY <1>1, <1>2, <1>3, <1>6, <1>7, <1>8, <1>9, <1>10, <1>13, <1>15, <1>16, <1>17, <1>18,
           <1>19 DEF CallSound

-----------------------------------------------------------------------------
(* Who wrote what *)

\* Streams are told apart by kind and owner.
LEMMA StreamNames ==
    /\ \A o : /\ BindingStream(o)[1] = "binding" /\ BindingStream(o)[2] = o
              /\ ContextStream(o)[1] = "context" /\ ContextStream(o)[2] = o
              /\ InputStream(o)[1] = "input" /\ InputStream(o)[2] = o
    /\ \A o, snap : /\ SkillStream(o, snap)[1] = "skill" /\ SkillStream(o, snap)[2] = o
                    /\ SkillStream(o, snap)[3] = snap
    /\ Registry[1] = "instances" /\ Catalog[1] = "catalog"
BY DEF BindingStream, ContextStream, InputStream, SkillStream, Registry, Catalog

\* A single fact that is there has an author:
LEMMA StreamAuthor ==
    ASSUME AuthorInv, NEW s, s[1] \in Singles, HeadOf(s) > 0
    PROVE  Authored(s)
<1>1. s \in DOMAIN journal
    BY EmptyTuple DEF HeadOf, Rows
<1>2. s # Registry /\ s # Catalog
    BY StreamNames DEF Singles
<1> QED BY <1>1, <1>2 DEF AuthorInv

\* the binding,
LEMMA BindingAuthor ==
    ASSUME AuthorInv, NEW o, HeadOf(BindingStream(o)) > 0
    PROVE  \E x \in Made : Prepares(x) /\ Req(x).owner = o /\ Bound(x)
<1>1. Authored(BindingStream(o))
    BY StreamAuthor, StreamNames DEF Singles
<1>2. PICK x \in Made : Prepares(x) /\
        (\/ BindingStream(o) = BindingStream(Req(x).owner) /\ Bound(x)
         \/ BindingStream(o) = ContextStream(Req(x).owner)
         \/ BindingStream(o) = SkillStream(Req(x).owner, SnapOf(x))
         \/ BindingStream(o) = InputStream(Req(x).owner))
    BY <1>1 DEF Authored
<1> QED BY <1>2, StreamNames

\* the context,
LEMMA ContextAuthor ==
    ASSUME AuthorInv, NEW o, HeadOf(ContextStream(o)) > 0
    PROVE  \E x \in Made : Prepares(x) /\ Req(x).owner = o /\ Contexted(x)
<1>1. Authored(ContextStream(o))
    BY StreamAuthor, StreamNames DEF Singles
<1>2. PICK x \in Made : Prepares(x) /\
        (\/ ContextStream(o) = BindingStream(Req(x).owner)
         \/ ContextStream(o) = ContextStream(Req(x).owner) /\ Contexted(x)
         \/ ContextStream(o) = SkillStream(Req(x).owner, SnapOf(x))
         \/ ContextStream(o) = InputStream(Req(x).owner))
    BY <1>1 DEF Authored
<1> QED BY <1>2, StreamNames

\* the selection,
LEMMA SkillAuthor ==
    ASSUME AuthorInv, NEW o, NEW snap, HeadOf(SkillStream(o, snap)) > 0
    PROVE  \E x \in Made : /\ Prepares(x) /\ Req(x).owner = o /\ SnapOf(x) = snap
                           /\ Opened(x) /\ Selected(x, SavedSelection(o, snap))
<1>1. Authored(SkillStream(o, snap))
    BY StreamAuthor, StreamNames DEF Singles
<1>2. PICK x \in Made : Prepares(x) /\
        (\/ SkillStream(o, snap) = BindingStream(Req(x).owner)
         \/ SkillStream(o, snap) = ContextStream(Req(x).owner)
         \/ /\ SkillStream(o, snap) = SkillStream(Req(x).owner, SnapOf(x)) /\ Opened(x)
            /\ Selected(x, SavedSelection(Req(x).owner, SnapOf(x)))
         \/ SkillStream(o, snap) = InputStream(Req(x).owner))
    BY <1>1 DEF Authored
<1>3. Req(x).owner = o /\ SnapOf(x) = snap
    BY <1>2, StreamNames
<1> QED BY <1>2, <1>3, StreamNames

\* and the input.
LEMMA InputAuthor ==
    ASSUME AuthorInv, NEW o, HeadOf(InputStream(o)) > 0
    PROVE  \E x \in Made : Prepares(x) /\ Req(x).owner = o /\ Published(x)
<1>1. Authored(InputStream(o))
    BY StreamAuthor, StreamNames DEF Singles
<1>2. PICK x \in Made : Prepares(x) /\
        (\/ InputStream(o) = BindingStream(Req(x).owner)
         \/ InputStream(o) = ContextStream(Req(x).owner)
         \/ InputStream(o) = SkillStream(Req(x).owner, SnapOf(x))
         \/ InputStream(o) = InputStream(Req(x).owner) /\ Published(x))
    BY <1>1 DEF Authored
<1> QED BY <1>2, StreamNames

\* the id of a single fact is its stream's, so nothing else can take it
LEMMA SingleFresh ==
    ASSUME JournalInv, NEW s, s[1] \in Singles, HeadOf(s) = 0
    PROVE  ~IdentityTaken(s)
<1>1. SUFFICES ASSUME NEW t \in DOMAIN journal, NEW i \in DOMAIN journal[t], journal[t][i].id = s
               PROVE  FALSE
    BY DEF IdentityTaken
<1>2. Rows(t) = journal[t]
    BY DEF Rows
<1>3. PICK row : row = journal[t][i]
    OBVIOUS
<1>4. RowSound(t, row) /\ row.id = s
    BY <1>1, <1>2, <1>3, AllStreams DEF StreamSound
<1>5. s[1] \notin {"reservation", "registration", "revocation"}
    BY DEF Singles
<1>6. ~(row = Reservation(row.body.owner, row.body.instance))
    BY <1>4, <1>5 DEF Reservation
<1>7. ~(row = Registration(row.body.key, row.body.meta))
    BY <1>4, <1>5 DEF Registration
<1>8. ~(row = Revocation(row.body.key, row.causes[1], row.body.op))
    BY <1>4, <1>5 DEF Revocation
<1>9. row.id = t
    BY <1>4, <1>6, <1>7, <1>8 DEF RowSound
<1>10. t = s /\ i \in DOMAIN Rows(s)
    BY <1>2, <1>4, <1>9
<1>11. DOMAIN Rows(s) = {}
    BY AllStreams, SeqShape, EmptyTuple DEF StreamSound, HeadOf
<1> QED BY <1>10, <1>11

\* one CAS at the head of an empty stream: the draft, or what was there
LEMMA SingleWritten ==
    ASSUME JournalInv, NEW s, s[1] \in Singles, NEW draft, draft.id = s,
           \A c \in Range(draft.causes) : Resolves(c), Written(s, 0, draft)
    PROVE  /\ AppendOutcome(s, 0, draft) # "MissingCause"
           /\ HeadOf(s)' > 0
           /\ Rows(s)' # <<draft>> => HeadOf(s) > 0 /\ Rows(s)' = Rows(s)
           /\ DOMAIN journal' \subseteq DOMAIN journal \cup {s}
           /\ HeadOf(s) = 0 => Rows(s)' = <<draft>>
           /\ HeadOf(s) > 0 => DOMAIN journal' = DOMAIN journal
<1>1. Rows(s) \in Seq(Range(Rows(s))) /\ HeadOf(s) \in Nat
    BY AllStreams, SeqShape DEF StreamSound, HeadOf
<1>2. /\ Rows(s)' = IF AppendOutcome(s, 0, draft) = "ok" /\ 0 = HeadOf(s)
                    THEN Append(Rows(s), draft) ELSE Rows(s)
      /\ DOMAIN journal' \subseteq DOMAIN journal \cup {s}
    BY AppendedRows DEF Written
<1>3. CASE HeadOf(s) = 0
    <2>1. AppendOutcome(s, 0, draft) = "ok"
        BY <1>3, SingleFresh DEF AppendOutcome
    <2>2. Rows(s) = << >>
        BY <1>1, <1>3 DEF HeadOf
    <2>3. Rows(s)' = <<draft>>
        BY <1>2, <1>3, <2>1, <2>2, EmptyTuple
    <2>4. HeadOf(s)' = 1
        BY <2>3, OneTuple DEF HeadOf
    <2>5. ~(HeadOf(s) > 0) /\ HeadOf(s)' > 0 /\ AppendOutcome(s, 0, draft) # "MissingCause"
        BY <1>3, <2>1, <2>4
    <2> QED BY <1>2, <2>3, <2>5
<1>4. CASE HeadOf(s) > 0
    <2>1. Rows(s)' = Rows(s) /\ HeadOf(s)' > 0
        BY <1>2, <1>4 DEF HeadOf
    <2>2. AppendOutcome(s, 0, draft) # "MissingCause"
        BY <1>4 DEF AppendOutcome
    <2>3. journal' = journal
        BY <1>4 DEF Written, Appended
    <2> QED BY <1>2, <1>4, <2>1, <2>2, <2>3
<1> QED BY <1>1, <1>3, <1>4

-----------------------------------------------------------------------------
(* The causes of an input *)

\* Two injective sequences with nothing in common.
LEMMA Concatenated ==
    ASSUME NEW p, NEW q, p \in Seq(Range(p)), q \in Seq(Range(q)),
           IsInjective(p), IsInjective(q), Range(p) \cap Range(q) = {}
    PROVE  /\ p \o q \in Seq(Range(p \o q)) /\ Len(p \o q) = Len(p) + Len(q)
           /\ IsInjective(p \o q) /\ Range(p \o q) = Range(p) \cup Range(q)
<1> DEFINE T == Range(p) \cup Range(q)
<1>1. p \in Seq(T) /\ q \in Seq(T)
    BY SeqMonotonic
<1>2. Len(p) \in Nat /\ Len(q) \in Nat /\ DOMAIN p = 1..Len(p) /\ DOMAIN q = 1..Len(q)
    BY SeqShape
<1> HIDE DEF T
<1>3. /\ p \o q \in Seq(T) /\ Len(p \o q) = Len(p) + Len(q)
      /\ \A i \in 1..(Len(p) + Len(q)) : (p \o q)[i] = IF i <= Len(p) THEN p[i] ELSE q[i - Len(p)]
    BY <1>1, ConcatProperties
<1>4. DOMAIN (p \o q) = 1..(Len(p) + Len(q))
    BY <1>3
<1>5. Range(p \o q) = Range(p) \cup Range(q)
    BY <1>1, RangeConcatenation
<1>6. IsInjective(p \o q)
    <2> DEFINE c == p \o q
    <2>1. ASSUME NEW i \in 1..(Len(p) + Len(q)), NEW j \in 1..(Len(p) + Len(q)), c[i] = c[j]
          PROVE  i = j
        <3>1. \A k \in 1..(Len(p) + Len(q)) :
                 \/ k <= Len(p) /\ k \in DOMAIN p /\ c[k] = p[k] /\ c[k] \in Range(p)
                 \/ k > Len(p) /\ k - Len(p) \in DOMAIN q /\ c[k] = q[k - Len(p)] /\ c[k] \in Range(q)
            <4> SUFFICES ASSUME NEW k \in 1..(Len(p) + Len(q))
                         PROVE  \/ k <= Len(p) /\ k \in DOMAIN p /\ c[k] = p[k] /\ c[k] \in Range(p)
                                \/ /\ k > Len(p) /\ k - Len(p) \in DOMAIN q
                                   /\ c[k] = q[k - Len(p)] /\ c[k] \in Range(q)
                OBVIOUS
            <4>1. CASE k <= Len(p)
                BY <4>1, <1>2, <1>3 DEF Range
            <4>2. CASE k > Len(p)
                BY <4>2, <1>2, <1>3 DEF Range
            <4> QED BY <4>1, <4>2, <1>2
        <3> HIDE DEF c
        <3>2. CASE i <= Len(p) /\ j <= Len(p)
            BY <3>1, <3>2, <2>1, <1>2 DEF IsInjective
        <3>3. CASE i > Len(p) /\ j > Len(p)
            <4>1. i - Len(p) = j - Len(p)
                BY <3>1, <3>3, <2>1, <1>2 DEF IsInjective
            <4> QED BY <4>1, <1>2
        <3>4. CASE i <= Len(p) /\ j > Len(p)
            BY <3>1, <3>4, <2>1, <1>2
        <3>5. CASE i > Len(p) /\ j <= Len(p)
            BY <3>1, <3>5, <2>1, <1>2
        <3> QED BY <3>2, <3>3, <3>4, <3>5, <1>2
    <2> QED BY <1>4, <2>1 DEF IsInjective
<1>7. p \o q \in Seq(Range(p \o q))
    BY <1>3, <1>5 DEF T
<1> QED BY <1>3, <1>5, <1>6, <1>7

\* The shortest injective sequences.
LEMMA Shorts ==
    /\ << >> \in Seq(Range(<< >>)) /\ Len(<< >>) = 0 /\ IsInjective(<< >>) /\ Range(<< >>) = {}
    /\ \A c : <<c>> \in Seq(Range(<<c>>)) /\ Len(<<c>>) = 1 /\ IsInjective(<<c>>) /\ Range(<<c>>) = {c}
BY EmptyTuple, OneTuple DEF IsInjective

\* The causes of an input, in number and kind.
LEMMA InputCauses ==
    ASSUME Shape, NEW x \in Made, Prepares(x), NEW r, r = Req(x), NEW snap
    PROVE  LET q == Causes(DocumentOf(r, snap))
           IN  /\ Len(q) \in 1..32 /\ IsInjective(q)
               /\ Range(q) = {Ownership(r.owner)}
                      \cup (IF r.op = "child"
                            THEN {Ownership(r.parent),
                                  FactRef(ContextStream(r.owner), 1, ContextStream(r.owner))}
                            ELSE {})
                      \cup (IF cfg.skills THEN {SkillRef(r.owner, snap)} ELSE {})
<1> DEFINE own == <<Ownership(r.owner)>>
           parent == IF r.op = "child" THEN <<Ownership(r.parent)>> ELSE <<>>
           context == FactRef(ContextStream(r.owner), 1, ContextStream(r.owner))
           init == IF r.op = "child" THEN <<context>> ELSE <<>>
           skill == IF cfg.skills THEN <<SkillRef(r.owner, snap)>> ELSE <<>>
<1>1. Causes(DocumentOf(r, snap)) = parent \o own \o init \o skill
    BY DEF Causes, DocumentOf
<1>2. r.op = "child" => r.parent # r.owner
    BY Configured DEF Shape
<1>3. /\ r.op = "child" => Ownership(r.parent) # Ownership(r.owner)
      /\ Ownership(r.owner) # context /\ Ownership(r.parent) # context
      /\ \A c \in {Ownership(r.owner), Ownership(r.parent), context} : c # SkillRef(r.owner, snap)
    BY <1>2, StreamNames DEF Ownership, SkillRef, FactRef
<1>4. \A s \in {own, parent, init, skill} :
         s \in Seq(Range(s)) /\ Len(s) \in {0, 1} /\ IsInjective(s)
    <2>1. \A s \in {own, parent, init, skill} : s = << >> \/ \E c : s = <<c>>
        OBVIOUS
    <2> HIDE DEF own, parent, init, skill
    <2>2. SUFFICES ASSUME NEW s \in {own, parent, init, skill}
                   PROVE  s \in Seq(Range(s)) /\ Len(s) \in {0, 1} /\ IsInjective(s)
        OBVIOUS
    <2>3. CASE s = << >>
        BY <2>3, Shorts
    <2>4. CASE \E c : s = <<c>>
        BY <2>4, Shorts
    <2> QED BY <2>1, <2>3, <2>4
<1>5. /\ Len(own) = 1 /\ Range(own) = {Ownership(r.owner)}
      /\ Range(parent) = IF r.op = "child" THEN {Ownership(r.parent)} ELSE {}
      /\ Range(init) = IF r.op = "child" THEN {context} ELSE {}
      /\ Range(skill) = IF cfg.skills THEN {SkillRef(r.owner, snap)} ELSE {}
    BY Shorts
<1> HIDE DEF own, parent, context, init, skill
<1>6. /\ parent \o own \in Seq(Range(parent \o own)) /\ Len(parent \o own) = Len(parent) + Len(own)
      /\ IsInjective(parent \o own) /\ Range(parent \o own) = Range(parent) \cup Range(own)
    <2>1. Range(parent) \cap Range(own) = {}
        BY <1>3, <1>5
    <2> QED BY <2>1, <1>4, Concatenated
<1> DEFINE two == parent \o own
<1>7. /\ two \o init \in Seq(Range(two \o init)) /\ Len(two \o init) = Len(two) + Len(init)
      /\ IsInjective(two \o init) /\ Range(two \o init) = Range(two) \cup Range(init)
    <2>1. Range(two) \cap Range(init) = {}
        BY <1>3, <1>5, <1>6
    <2> HIDE DEF two
    <2>2. two \in Seq(Range(two)) /\ IsInjective(two)
        BY <1>6 DEF two
    <2> QED BY <2>1, <2>2, <1>4, Concatenated
<1> DEFINE three == two \o init
<1>8. /\ Len(three \o skill) = Len(three) + Len(skill)
      /\ IsInjective(three \o skill) /\ Range(three \o skill) = Range(three) \cup Range(skill)
    <2>1. Range(three) \cap Range(skill) = {}
        BY <1>3, <1>5, <1>6, <1>7
    <2>2. three \in Seq(Range(three)) /\ IsInjective(three)
        BY <1>7
    <2> HIDE DEF three
    <2> QED BY <2>1, <2>2, <1>4, Concatenated
<1>9. Len(three \o skill) \in 1..32
    <2>1. Len(parent) \in {0, 1} /\ Len(init) \in {0, 1} /\ Len(skill) \in {0, 1}
        BY <1>4
    <2>2. Len(three \o skill) = ((Len(parent) + 1) + Len(init)) + Len(skill)
        BY <1>5, <1>6, <1>7, <1>8
    <2>3. \A a, b, c \in {0, 1} : ((a + 1) + b) + c \in 1..32
        OBVIOUS
    <2> HIDE DEF three
    <2> QED BY <2>1, <2>2, <2>3, Zenon
<1>10. Range(three \o skill) = Range(parent) \cup Range(own) \cup Range(init) \cup Range(skill)
    BY <1>6, <1>7, <1>8
<1> QED BY <1>1, <1>5, <1>8, <1>9, <1>10 DEF context

\* The ownership a binding stands for is in the journal.
LEMMA OwnershipResolves ==
    ASSUME NEW x, Bound(x)
    PROVE  Resolves(Ownership(Req(x).owner))
<1>1. PICK o, row : /\ o = Req(x).owner /\ Rows(BindingStream(o)) = <<row>>
                    /\ row.id = BindingStream(o)
    BY DEF Bound, BindingDraft
<1>2. HeadOf(BindingStream(o)) = 1 /\ Rows(BindingStream(o))[1].id = BindingStream(o)
    BY <1>1, OneTuple DEF HeadOf
<1> QED BY <1>1, <1>2 DEF Resolves, Ownership, FactRef

\* The causes of an input whose owner is ready resolve.
LEMMA CausesSound ==
    ASSUME Shape, JournalInv, AuthorInv, NEW x \in Made, Prepares(x), Ready(x)
    PROVE  \A c \in Range(Causes(DocOf(x))) : Resolves(c) /\ c.stream[1] # "input"
<1>1. PICK r, snap : r = Req(x) /\ snap = SnapOf(x)
    OBVIOUS
<1>2. Range(Causes(DocOf(x))) = {Ownership(r.owner)}
         \cup (IF r.op = "child"
               THEN {Ownership(r.parent), FactRef(ContextStream(r.owner), 1, ContextStream(r.owner))}
               ELSE {})
         \cup (IF cfg.skills THEN {SkillRef(r.owner, snap)} ELSE {})
    BY <1>1, InputCauses DEF DocOf
<1>3. Bound(x) /\ Resolves(Ownership(r.owner)) /\ Ownership(r.owner).stream[1] = "binding"
    BY <1>1, OwnershipResolves, StreamNames DEF Ready, Opened, Ownership, FactRef
<1>4. ASSUME r.op = "child" PROVE Resolves(Ownership(r.parent)) /\ Ownership(r.parent).stream[1] = "binding"
    <2>1. r.parent \in DOMAIN tasks
        BY <1>1, <1>3, <1>4 DEF Bound
    <2>2. PICK y \in Made : Prepares(y) /\ Req(y).owner = r.parent /\ Admitted(y)
        BY <2>1 DEF AuthorInv
    <2>3. Bound(y)
        BY <2>2 DEF Admitted, Published, Ready, Opened
    <2> QED BY <2>2, <2>3, OwnershipResolves, StreamNames DEF Ownership, FactRef
<1>5. ASSUME r.op = "child"
      PROVE  LET c == FactRef(ContextStream(r.owner), 1, ContextStream(r.owner))
             IN  Resolves(c) /\ c.stream[1] = "context"
    <2>1. Rows(ContextStream(r.owner)) = <<ContextDraft(r.owner, snap, r.msg)>>
        BY <1>1, <1>5 DEF Ready, Opened, Sessioned, Contexted
    <2>2. HeadOf(ContextStream(r.owner)) = 1 /\ Rows(ContextStream(r.owner))[1].id = ContextStream(r.owner)
        BY <2>1, OneTuple DEF HeadOf, ContextDraft
    <2> QED BY <2>2, StreamNames DEF Resolves, FactRef
<1>6. ASSUME cfg.skills PROVE Resolves(SkillRef(r.owner, snap)) /\ SkillRef(r.owner, snap).stream[1] = "skill"
    <2>1. PICK ad : Rows(SkillStream(r.owner, snap)) = <<SkillDraft(r.owner, snap, ad)>>
        BY <1>1, <1>6 DEF Ready, Selected
    <2>2. /\ HeadOf(SkillStream(r.owner, snap)) = 1
          /\ Rows(SkillStream(r.owner, snap))[1].id = SkillStream(r.owner, snap)
        BY <2>1, OneTuple DEF HeadOf, SkillDraft
    <2> QED BY <2>2, StreamNames DEF Resolves, SkillRef, FactRef
<1> QED BY <1>2, <1>3, <1>4, <1>5, <1>6

\* Causes of causes resolve.
LEMMA WithCausesSound ==
    ASSUME JournalInv, NEW refs, \A c \in refs : Resolves(c) /\ c.stream[1] # "input"
    PROVE  \A c \in WithCauses(refs) : Resolves(c) /\ c.stream[1] # "input"
<1>1. SUFFICES ASSUME NEW ref \in refs, NEW c \in CausesOf(ref)
               PROVE  Resolves(c) /\ c.stream[1] # "input"
    BY DEF WithCauses
<1>2. PICK row : row = Rows(ref.stream)[ref.position]
    OBVIOUS
<1>3. Resolves(ref) /\ c \in Range(row.causes)
    BY <1>1, <1>2 DEF CausesOf
<1>4. RowSound(ref.stream, row)
    <2>1. StreamSound(ref.stream)
        BY AllStreams
    <2>2. DOMAIN Rows(ref.stream) = 1..HeadOf(ref.stream)
        BY <2>1, SeqShape DEF StreamSound, HeadOf
    <2>3. ref.position \in DOMAIN Rows(ref.stream)
        BY <1>3, <2>2 DEF Resolves
    <2> QED BY <1>2, <2>1, <2>3 DEF StreamSound
<1> QED BY <1>1, <1>3, <1>4 DEF RowSound

\* The causes of an input whose owner is ready validate.
LEMMA CausesValid ==
    ASSUME Shape, JournalInv, AuthorInv, NEW x \in Made, Prepares(x), Ready(x)
    PROVE  ValidateCauses(Causes(DocOf(x)), InputStream(Req(x).owner))
<1>1. PICK q : q = Causes(DocOf(x))
    OBVIOUS
<1>2. Len(q) \in 1..32 /\ IsInjective(q)
    BY <1>1, InputCauses DEF DocOf
<1>3. \A c \in Range(q) : Resolves(c) /\ c.stream[1] # "input"
    BY <1>1, CausesSound
<1>4. PICK one, two : one = WithCauses(Range(q)) /\ two = WithCauses(one)
    OBVIOUS
<1>5. \A c \in one : Resolves(c) /\ c.stream[1] # "input"
    BY <1>3, <1>4, WithCausesSound
<1>6. \A c \in two : Resolves(c) /\ c.stream[1] # "input"
    BY <1>4, <1>5, WithCausesSound
<1>7. \A c \in WithCauses(two) : Resolves(c) /\ c.stream[1] # "input"
    BY <1>6, WithCausesSound
<1>8. \A c \in WithCauses(two) : Resolves(c) /\ c.stream # InputStream(Req(x).owner)
    BY <1>7, StreamNames
<1> QED BY <1>1, <1>2, <1>4, <1>8 DEF ValidateCauses

-----------------------------------------------------------------------------
(* The call that moves *)

\* The snapshot a call works with is that of the instance reserved.
LEMMA SnapshotIs ==
    ASSUME RegistryInv, NEW x \in Made, Prepares(x), w[x].pc \notin {"idle", "reserve"},
           w[x].pc = "ended" => w[x].res = "ok"
    PROVE  ReservedBy(Req(x).owner) # {} /\ Snapshot(x) = SnapOf(x)
<1>1. RegistryCall(x)
    BY DEF RegistryInv
<1>2. w[x].instance # 0 /\ ReservedBy(Req(x).owner) = {w[x].instance}
    BY <1>1 DEF RegistryCall
<1> QED BY <1>2 DEF Snapshot, SnapOf

\* Everything known before a step, and that the stores grow in it.
Known == Shape /\ JournalInv /\ RegistryInv /\ CatalogInv /\ AuthorInv /\ Grown

\* A call refused for a reason is sound.
LEMMA RefuseSound ==
    ASSUME Known, NEW x \in Made, Prepares(x), w[x].pc # "idle", NEW why, why # "ok",
           w' = Refuse(x, why), JustifiedBy(x, why)
    PROVE  Others(x) /\ CallSound(x)'
<1>1. Progress /\ x \in Calls /\ CallSound(x)
    BY Configured DEF Known, Shape, AuthorInv
<1>2. Others(x) /\ w'[x].pc = "ended" /\ w'[x].res = why
    BY <1>1, RefuseCall
<1>3. JustifiedBy(x, why)'
    BY JustifiedStays DEF Known
<1>4. Justified(x)'
    BY <1>2, <1>3 DEF Justified, JustifiedBy
<1>5. Req(x)' = Req(x) /\ (Req(x).op = "child" => Req(x).parent \in DOMAIN tasks')
    BY <1>1 DEF Known, Grown, Grows, CallSound, Req
<1> QED BY <1>2, <1>4, <1>5
       DEF CallSound, PastBinding, PastContext, PastSession, PastSkills, Ended, At

\* A call that takes another step at its place is sound.
LEMMA StepSound ==
    ASSUME Known, NEW x \in Made, Prepares(x), w[x].pc \notin {"idle", "ended"}, NEW sub,
           w' = Step(x, sub), NEW o, o = Req(x).owner, NEW snap, snap = SnapOf(x),
           w[x].pc = "context" /\ sub = "confirm" => HeadOf(ContextStream(o))' > 0,
           w[x].pc = "skills" => w[x].sub # "read",
           w[x].pc = "skills" /\ sub = "confirm" => HeadOf(SkillStream(o, snap))' > 0,
           w[x].pc = "publish" /\ sub = "confirm" => HeadOf(InputStream(o))' > 0
    PROVE  Others(x) /\ CallSound(x)'
<1>1. Progress /\ x \in Calls /\ CallSound(x) /\ Grown
    BY Configured DEF Known, Shape, AuthorInv
<1>2. Others(x) /\ w'[x].pc = w[x].pc /\ w'[x].sub = sub /\ w'[x].ad = w[x].ad
    BY <1>1, StepCall
<1>3. PICK r, ad, def : r = Req(x) /\ ad = w[x].ad /\ def = r.def
    OBVIOUS
<1>4. cfg' = cfg /\ r = Req(x)' /\ ad = w'[x].ad
    BY <1>1, <1>2, <1>3 DEF Grown, Grows, Req
<1>5. /\ PastBinding(x)' <=> PastBinding(x)
      /\ PastContext(x)' <=> PastContext(x)
      /\ PastSession(x)' <=> PastSession(x)
      /\ PastSkills(x)' <=> PastSkills(x)
      /\ ~Ended(x, "ok")'
    BY <1>2, <1>3, <1>4 DEF PastBinding, PastContext, PastSession, PastSkills, Ended
<1>6. r.op = "child" => r.parent \in DOMAIN tasks'
    BY <1>1, <1>3 DEF CallSound, Grown, Grows
<1>7. PastBinding(x) => Bound(x)' /\ SnapOf(x)' = snap /\ DocOf(x)' = DocOf(x)
    BY <1>1, <1>3, <1>4, BoundStays DEF CallSound, DocOf, DocumentOf
<1>8. PastContext(x) => Contexted(x)'
    BY <1>1, ContextedStays DEF CallSound
<1>9. PastSession(x) => Sessioned(x)'
    BY <1>1, SessionedStays DEF CallSound
<1>10. w[x].pc = "skills" => AdSound(ad, def)'
    BY <1>1, <1>3, AdSoundStays DEF CallSound
<1>11. PastSkills(x) => Selected(x, ad)'
    BY <1>1, <1>3, SelectedStays DEF CallSound
<1>12. w[x].pc \in {"publish", "admit"} => (DocOf(x) \in artifacts)'
    <2>1. w[x].pc \in {"publish", "admit"} => PastBinding(x) /\ DocOf(x) \in artifacts
        BY <1>1 DEF CallSound, PastBinding
    <2> QED BY <2>1, <1>1, <1>7 DEF Grown, Grows
<1>13. w[x].pc = "admit" => Published(x)'
    BY <1>1, PublishedStays DEF CallSound
<1>14. w[x].pc = "skills" => PastBinding(x)
    BY DEF PastBinding
<1>15. At(x, "skills", "confirm")' => (HeadOf(SkillStream(Req(x).owner, SnapOf(x))) > 0)'
    BY <1>2, <1>3, <1>4, <1>7, <1>14 DEF At
<1>16. /\ At(x, "context", "confirm")' => (HeadOf(ContextStream(Req(x).owner)) > 0)'
       /\ At(x, "publish", "confirm")' => (HeadOf(InputStream(Req(x).owner)) > 0)'
    BY <1>2, <1>3, <1>4 DEF At
<1> QED BY <1>2, <1>3, <1>4, <1>5, <1>6, <1>7, <1>8, <1>9, <1>10, <1>11, <1>12, <1>13, <1>15, <1>16
       DEF CallSound

\* what the stage just left has established
LEMMA AdvanceSound ==
    ASSUME Known, NEW x \in Made, Prepares(x), w[x].pc \notin {"idle", "reserve", "ended"},
           w' = Advance(x), NEW ad, ad = w[x].ad,
           w[x].pc \in {"save", "retain"} => Bound(x)',
           w[x].pc = "context" => Contexted(x)',
           w[x].pc = "session" => Sessioned(x)',
           w[x].pc = "skills" => Selected(x, ad)',
           w[x].pc = "archive" => (DocOf(x) \in artifacts)',
           w[x].pc = "publish" => Published(x)',
           w[x].pc = "admit" => Admitted(x)'
    PROVE  Others(x) /\ CallSound(x)'
<1>1. Progress /\ x \in Calls /\ CallSound(x) /\ Grown /\ Shape
    BY Configured DEF Known, Shape, AuthorInv
<1>2. PICK pc, next : pc = w[x].pc /\ next = After(x)
    OBVIOUS
<1>3. /\ Others(x) /\ w'[x].pc = next /\ w'[x].sub = "read" /\ w'[x].ad = ad
      /\ w'[x].res = IF next = "ended" THEN "ok" ELSE None
    BY <1>1, <1>2, AdvanceCall
<1>4. PICK r : r = Req(x)
    OBVIOUS
<1>5. cfg' = cfg /\ r = Req(x)'
    BY <1>1, <1>4 DEF Grown, Grows, Req
<1>6. \* the stages
      /\ r.op \in {"root", "child"}
      /\ pc = "save" => next = "skills" /\ r.op = "root" /\ cfg.skills
      /\ pc = "tools" => next = "retain" /\ r.op = "root"
      /\ pc = "retain" => next = IF r.op = "root" THEN "archive" ELSE "context"
      /\ pc = "context" => next = "session" /\ r.op = "child"
      /\ pc = "session" => next = "initialized" /\ r.op = "child"
      /\ pc = "initialized" => r.op = "child" /\ next = IF cfg.skills THEN "skills" ELSE "archive"
      /\ pc = "skills" => cfg.skills /\ next = IF r.op = "root" THEN "tools" ELSE "archive"
      /\ pc = "archive" => next = "publish"
      /\ pc = "publish" => next = "admit"
      /\ pc = "admit" => next = "ended"
      /\ pc \in {"save", "tools", "retain", "context", "session", "initialized", "skills",
                 "archive", "publish", "admit"}
    <2>1. pc \in Range(Path(x))
        BY <1>1, <1>2 DEF Shape
    <2>2. CASE r.op = "root"
        BY <2>1, <2>2, <1>1, <1>2, <1>4, RootAfter, Role
    <2>3. CASE r.op = "child"
        BY <2>1, <2>3, <1>1, <1>2, <1>4, ChildAfter, Role
    <2> QED BY <2>2, <2>3, <1>4 DEF Prepares
<1>7. r.op = "child" => r.parent \in DOMAIN tasks'
    BY <1>1, <1>4 DEF CallSound, Grown, Grows
<1>8. PastBinding(x) \/ pc \in {"save", "retain"} => Bound(x)'
    BY <1>1, <1>2, BoundStays DEF CallSound
<1>9. PastContext(x) \/ pc = "context" => Contexted(x)'
    BY <1>1, <1>2, ContextedStays DEF CallSound
<1>10. PastSession(x) \/ pc = "session" => Sessioned(x)'
    BY <1>1, <1>2, SessionedStays DEF CallSound
<1>11. PastSkills(x) \/ pc = "skills" => Selected(x, ad)'
    BY <1>1, <1>2, SelectedStays DEF CallSound
<1>12. pc \in {"archive", "publish", "admit"} => (DocOf(x) \in artifacts)'
    <2>1. pc \in {"publish", "admit"} => PastBinding(x) /\ DocOf(x) \in artifacts
        BY <1>1, <1>2 DEF CallSound, PastBinding
    <2>2. PastBinding(x) => DocOf(x)' = DocOf(x)
        BY <1>1, <1>5, BoundStays DEF CallSound, DocOf, DocumentOf
    <2> QED BY <2>1, <2>2, <1>1, <1>2 DEF Grown, Grows
<1>13. pc \in {"publish", "admit"} => Published(x)'
    BY <1>1, <1>2, PublishedStays DEF CallSound
<1>14. PastBinding(x)' => PastBinding(x) \/ pc \in {"save", "retain"}
    BY <1>2, <1>3, <1>4, <1>5, <1>6 DEF PastBinding, Ended
<1>15. PastContext(x)' => PastContext(x) \/ pc = "context"
    BY <1>2, <1>3, <1>4, <1>5, <1>6 DEF PastContext, Ended
<1>16. PastSession(x)' => PastSession(x) \/ pc = "session"
    BY <1>2, <1>3, <1>4, <1>5, <1>6 DEF PastSession, Ended
<1>17. PastSkills(x)' => PastSkills(x) \/ pc = "skills"
    BY <1>2, <1>3, <1>4, <1>5, <1>6 DEF PastSkills, Ended
<1>18. /\ next \in {"publish", "admit"} \/ Ended(x, "ok")' => pc \in {"archive", "publish", "admit"}
       /\ next = "admit" \/ Ended(x, "ok")' => pc \in {"publish", "admit"}
       /\ next = "ended" => pc = "admit"
       /\ Ended(x, "ok")' => pc = "admit"
    BY <1>3, <1>6 DEF Ended
<1>19. next = "ended" => Justified(x)'
    BY <1>3 DEF Justified
<1>20. \A p : ~At(x, p, "confirm")' /\ w'[x].sub = "read"
    BY <1>3 DEF At
<1>21. pc = "admit" => Admitted(x)'
    BY <1>2
<1> QED BY <1>3, <1>4, <1>5, <1>7, <1>8, <1>9, <1>10, <1>11, <1>12, <1>13, <1>14, <1>15, <1>16, <1>17,
           <1>18, <1>19, <1>20, <1>21 DEF CallSound

-----------------------------------------------------------------------------
(* One step *)

\* what the step of x adds to a store has an author
Claims(x) ==
    /\ \A s \in DOMAIN journal' : s \in DOMAIN journal \/ s = Registry \/ s = Catalog \/ Authored(s)'
    /\ \A o \in DOMAIN sessions' : o \in DOMAIN sessions \/ (o = Req(x).owner /\ Sessioned(x)')
    /\ \A o \in DOMAIN tasks' : o \in DOMAIN tasks \/ (o = Req(x).owner /\ Prepares(x) /\ Admitted(x)')

\* The step of x moves x alone, keeps it sound and writes what is its own.
Local(x) == Others(x) /\ CallSound(x)' /\ Claims(x)

\* A step that writes nothing.
LEMMA ClaimsNone ==
    ASSUME NEW x, UNCHANGED <<journal, sessions, tasks>>
    PROVE  Claims(x)
<1>1. journal' = journal /\ sessions' = sessions /\ tasks' = tasks
    OBVIOUS
<1> QED BY <1>1 DEF Claims

\* A step that writes one stream.
LEMMA ClaimsWritten ==
    ASSUME NEW x, UNCHANGED <<sessions, tasks>>, NEW stream, NEW expected, NEW draft,
           Written(stream, expected, draft),
           \/ stream = Registry \/ stream = Catalog
           \/ stream \in DOMAIN journal' => stream \in DOMAIN journal \/ Authored(stream)'
    PROVE  Claims(x)
<1>1. sessions' = sessions /\ tasks' = tasks
    OBVIOUS
<1>2. DOMAIN journal' \subseteq DOMAIN journal \cup {stream}
    BY AppendedRows DEF Written
<1>3. \A s \in DOMAIN journal' : s \in DOMAIN journal \/ s = Registry \/ s = Catalog \/ Authored(s)'
    BY <1>2
<1>4. /\ \A o \in DOMAIN sessions' : o \in DOMAIN sessions
      /\ \A o \in DOMAIN tasks' : o \in DOMAIN tasks
    BY <1>1
<1> QED BY <1>3, <1>4 DEF Claims

\* Two requests for one owner that differ justify a conflict.
LEMMA Disputed ==
    ASSUME NEW x \in Made, NEW y \in Made, Prepares(y), Req(y).owner = Req(x).owner, Req(y) # Req(x)
    PROVE  JustifiedBy(x, "Conflict")
BY DEF JustifiedBy, Preparers

\* a call that has written nothing yet
LEMMA EarlySound ==
    ASSUME Known, NEW x \in Made, Prepares(x), NEW pc, w'[x].pc = pc,
           Req(x).op = "child" /\ pc # "idle" => Req(x).parent \in DOMAIN tasks,
           \/ pc \in {"idle", "reserve", "save"}
           \/ pc = "tools" /\ ~cfg.skills
           \/ pc = "retain" /\ (Req(x).op = "child" \/ ~cfg.skills)
    PROVE  CallSound(x)'
<1>1. PICK r : r = Req(x)
    OBVIOUS
<1>2. r = Req(x)' /\ cfg' = cfg /\ (r.op = "child" /\ pc # "idle" => r.parent \in DOMAIN tasks')
    BY <1>1 DEF Known, Grown, Grows, Req
<1>3. pc = "retain" /\ r.op = "child" => r.op # "root"
    OBVIOUS
<1>4. ~PastBinding(x)' /\ ~PastContext(x)' /\ ~PastSession(x)' /\ ~PastSkills(x)' /\ ~Ended(x, "ok")'
    BY <1>1, <1>2 DEF PastBinding, PastContext, PastSession, PastSkills, Ended
<1>5. /\ \A sub : ~At(x, "context", sub)' /\ ~At(x, "skills", sub)' /\ ~At(x, "publish", sub)'
      /\ pc \notin {"skills", "publish", "admit", "ended"}
    BY DEF At
<1> QED BY <1>1, <1>2, <1>4, <1>5 DEF CallSound

\* The steps of a preparing call, one by one: it starts,
LEMMA StartLocal ==
    ASSUME Known, NEW x \in Made, Prepares(x), Start(x)
    PROVE  Local(x)
<1>1. Progress /\ x \in Calls
    BY Configured DEF Known, Shape
<1>2. PICK since : since = Revoked
    OBVIOUS
<1>3. Path(x)[1] = "reserve"
    BY RootAfter, ChildAfter DEF Prepares
<1>4. w' = [w EXCEPT ![x].pc = "reserve", ![x].since = since]
    BY <1>2, <1>3 DEF Start
<1>5. Others(x) /\ w'[x].pc = "reserve"
    BY <1>1, <1>4, StartCall
<1>6. CallSound(x)'
    BY <1>5, EarlySound DEF Start
<1>7. Claims(x)
    BY ClaimsNone DEF Start, Reads
<1> QED BY <1>5, <1>6, <1>7 DEF Local

\* crashes,
LEMMA CrashLocal ==
    ASSUME Known, NEW x \in Made, Prepares(x), Crash(x)
    PROVE  Local(x)
<1>1. Progress /\ x \in Calls
    BY Configured DEF Known, Shape
<1>2. Others(x) /\ w'[x] = Idle
    BY <1>1, CrashCall DEF Crash
<1>3. w'[x].pc = "idle"
    BY <1>2 DEF Idle
<1>4. CallSound(x)'
    BY <1>3, EarlySound
<1>5. Claims(x)
    BY ClaimsNone DEF Crash
<1> QED BY <1>2, <1>4, <1>5 DEF Local

\* with its instance, a call goes on to a stage that has nothing to rely on
LEMMA InstanceLocal ==
    ASSUME Known, NEW x \in Made, Prepares(x), w[x].pc = "reserve", NEW n,
           w' = [Advance(x) EXCEPT ![x].instance = n]
    PROVE  Others(x) /\ CallSound(x)'
<1>1. Progress /\ x \in Calls /\ CallSound(x)
    BY Configured DEF Known, Shape, AuthorInv
<1>2. PICK pc : pc = After(x)
    OBVIOUS
<1>3. Others(x) /\ w'[x].pc = pc
    BY <1>1, <1>2, AdvanceInstance
<1>4. pc = IF Req(x).op = "child" THEN "retain" ELSE IF cfg.skills THEN "save" ELSE "tools"
    BY <1>2, RootAfter, ChildAfter DEF Prepares
<1>5. Req(x).op = "child" => Req(x).parent \in DOMAIN tasks
    BY <1>1 DEF CallSound
<1> QED BY <1>3, <1>4, <1>5, EarlySound

\* reads the registry,
LEMMA ReserveLoadLocal ==
    ASSUME Known, NEW x \in Made, Prepares(x), ReserveLoad(x)
    PROVE  Local(x)
<1>1. Progress /\ x \in Calls /\ RegistryCall(x) /\ CallSound(x) /\ RegistryLoads
    BY Configured DEF Known, Shape, AuthorInv, RegistryInv
<1>2. PICK o, head : o = Req(x).owner /\ head = HeadOf(Registry)
    OBVIOUS
<1>3. w[x].pc = "reserve" /\ head \in Nat /\ w[x].tries <= head /\ cfg.capacity \in Nat /\ head <= cfg.capacity
    BY <1>1, <1>2, Configured DEF ReserveLoad, At, RegistryCall, RegistryLoads, Known, Shape, Grown, Grows, Extends
<1>4. Claims(x)
    BY ClaimsNone DEF ReserveLoad, Reads
<1>5. CASE w[x].tries = MaxCasAttempts
    <2>1. w' = Refuse(x, "Contention")
        BY <1>5 DEF ReserveLoad
    <2>2. JustifiedBy(x, "Contention")
        BY <1>2, <1>3, <1>5 DEF JustifiedBy
    <2> QED BY <1>3, <1>4, <2>1, <2>2, RefuseSound DEF Local
<1>6. CASE w[x].tries # MaxCasAttempts /\ ReservedBy(o) # {}
    <2>1. PICK n : n = CHOOSE i \in ReservedBy(o) : TRUE
        OBVIOUS
    <2>2. w' = [Advance(x) EXCEPT ![x].instance = n]
        BY <1>1, <1>2, <1>6, <2>1 DEF ReserveLoad
    <2> QED BY <1>3, <1>4, <2>2, InstanceLocal DEF Local
<1>7. CASE w[x].tries # MaxCasAttempts /\ ReservedBy(o) = {} /\ head >= cfg.capacity
    <2>1. w' = Refuse(x, "Capacity")
        BY <1>1, <1>2, <1>7 DEF ReserveLoad
    <2>2. head = cfg.capacity
        BY <1>3, <1>7
    <2>3. JustifiedBy(x, "Capacity")
        BY <1>2, <1>7, <2>2 DEF JustifiedBy
    <2> QED BY <1>3, <1>4, <2>1, <2>3, RefuseSound DEF Local
<1>8. CASE w[x].tries # MaxCasAttempts /\ ReservedBy(o) = {} /\ ~(head >= cfg.capacity)
    <2>1. w' = [Step(x, "append") EXCEPT ![x].head = head]
        BY <1>1, <1>2, <1>8 DEF ReserveLoad
    <2>2. Others(x) /\ w'[x].pc = "reserve"
        BY <1>1, <1>3, <2>1, StepHead
    <2>3. CallSound(x)'
        BY <1>1, <1>3, <2>2, EarlySound DEF CallSound
    <2> QED BY <1>4, <2>2, <2>3 DEF Local
<1> QED BY <1>5, <1>6, <1>7, <1>8

\* reserves its instance,
LEMMA ReserveAppendLocal ==
    ASSUME Known, NEW x \in Made, Prepares(x), ReserveAppend(x)
    PROVE  Local(x)
<1>1. Progress /\ x \in Calls /\ CallSound(x) /\ w[x].pc = "reserve"
    BY Configured DEF Known, Shape, AuthorInv, ReserveAppend, At
<1>2. PICK o, head : o = Req(x).owner /\ head = w[x].head
    OBVIOUS
<1>3. PICK draft : draft = Reservation(o, head + 1)
    OBVIOUS
<1>4. PICK outcome : outcome = AppendOutcome(Registry, head, draft)
    OBVIOUS
<1>5. /\ outcome # "ok" => HeadOf(Registry) > head
      /\ outcome \in {"ok", "Conflict"}
    BY <1>2, <1>3, <1>4, ReserveOutcome DEF Known
<1>6. Claims(x)
    <2>1. Written(Registry, head, draft) /\ UNCHANGED <<sessions, tasks>>
        BY <1>2, <1>3 DEF ReserveAppend, Writes
    <2> QED BY <2>1, ClaimsWritten
<1>7. CASE outcome = "ok"
    <2>1. \E n : w' = [Advance(x) EXCEPT ![x].instance = n]
        BY <1>2, <1>3, <1>4, <1>7 DEF ReserveAppend
    <2> QED BY <1>1, <1>6, <2>1, InstanceLocal DEF Local
<1>8. CASE outcome = "Conflict"
    <2>1. w' = [Step(x, "read") EXCEPT ![x].tries = @ + 1]
        BY <1>2, <1>3, <1>4, <1>5, <1>8 DEF ReserveAppend
    <2>2. Others(x) /\ w'[x].pc = "reserve"
        BY <1>1, <2>1, StepTries
    <2>3. CallSound(x)'
        BY <1>1, <2>2, EarlySound DEF CallSound
    <2> QED BY <1>6, <2>2, <2>3 DEF Local
<1> QED BY <1>5, <1>7, <1>8

\* a stage of x after its reservation
LEMMA Working ==
    ASSUME Known, NEW x \in Made, Prepares(x), w[x].pc \notin {"idle", "reserve", "ended"},
           NEW r, r = Req(x), NEW snap, snap = SnapOf(x)
    PROVE  /\ Progress /\ x \in Calls /\ CallSound(x) /\ r.op \in {"root", "child"}
           /\ cfg' = cfg /\ Snapshot(x) = snap /\ ReservedBy(r.owner) # {}
           /\ r = Req(x)' /\ snap = SnapOf(x)' /\ ReservedBy(r.owner)' # {}
           /\ r.op = "child" => r.parent \in DOMAIN tasks /\ r.parent \in DOMAIN tasks'
<1>1. Progress /\ x \in Calls /\ CallSound(x) /\ cfg' = cfg
    BY Configured DEF Known, Shape, AuthorInv, Grown, Grows
<1>2. Snapshot(x) = snap /\ ReservedBy(r.owner) # {}
    BY SnapshotIs DEF Known
<1>3. r = Req(x)' /\ snap = SnapOf(x)' /\ ReservedBy(r.owner)' # {}
    BY <1>2, SnapStays DEF Known
<1>4. r.op = "child" => r.parent \in DOMAIN tasks /\ r.parent \in DOMAIN tasks'
    BY <1>1 DEF CallSound, Known, Grown, Grows
<1>5. r.op \in {"root", "child"}
    BY DEF Prepares
<1> QED BY <1>1, <1>2, <1>3, <1>4, <1>5

\* A stream has rows when its head is not zero.
LEMMA SingleHead ==
    ASSUME JournalInv, NEW s
    PROVE  Rows(s) # << >> <=> HeadOf(s) > 0
<1>1. Rows(s) \in Seq(Range(Rows(s)))
    BY AllStreams DEF StreamSound
<1> QED BY <1>1 DEF HeadOf

\* reads the binding,
LEMMA SaveLoadLocal ==
    ASSUME Known, NEW x \in Made, Prepares(x), SaveLoad(x)
    PROVE  Local(x)
<1>1. PICK r, snap : r = Req(x) /\ snap = SnapOf(x)
    OBVIOUS
<1>2. w[x].pc \in {"save", "retain"}
    BY DEF SaveLoad
<1>3. /\ CallSound(x) /\ Snapshot(x) = snap /\ ReservedBy(r.owner) # {}
      /\ r.op = "child" => r.parent \in DOMAIN tasks
    BY <1>1, <1>2, Working
<1>4. BindingOf(x) = BindingDraft(r.owner, r.op, snap)
    BY <1>1, <1>3 DEF BindingOf
<1>5. Claims(x)
    BY ClaimsNone DEF SaveLoad, Reads
<1>6. CASE Rows(BindingStream(r.owner)) = << >>
    <2>1. w' = Step(x, "append")
        BY <1>1, <1>6 DEF SaveLoad
    <2> QED BY <1>2, <1>5, <2>1, StepSound DEF Local
<1>7. CASE Rows(BindingStream(r.owner)) = <<BindingOf(x)>> /\ Rows(BindingStream(r.owner)) # << >>
    <2>1. w' = Advance(x)
        BY <1>1, <1>7 DEF SaveLoad
    <2>2. Bound(x)
        BY <1>1, <1>3, <1>4, <1>7 DEF Bound
    <2>3. Bound(x)'
        BY <2>2, BoundStays DEF Known
    <2> QED BY <1>2, <1>5, <2>1, <2>3, AdvanceSound DEF Local
<1>8. CASE Rows(BindingStream(r.owner)) # << >> /\ Rows(BindingStream(r.owner)) # <<BindingOf(x)>>
    <2>1. w' = Refuse(x, "Conflict")
        BY <1>1, <1>8 DEF SaveLoad
    <2>2. PICK y \in Made : Prepares(y) /\ Req(y).owner = r.owner /\ Bound(y)
        BY <1>8, SingleHead, BindingAuthor DEF Known
    <2>3. Req(y) # r
        BY <1>1, <1>4, <1>8, <2>2 DEF Bound, SnapOf
    <2>4. JustifiedBy(x, "Conflict")
        BY <1>1, <2>2, <2>3, Disputed
    <2> QED BY <1>2, <1>5, <2>1, <2>4, RefuseSound DEF Local
<1> QED BY <1>6, <1>7, <1>8

\* saves it,
LEMMA SaveAppendLocal ==
    ASSUME Known, NEW x \in Made, Prepares(x), SaveAppend(x)
    PROVE  Local(x)
<1>1. PICK r, snap : r = Req(x) /\ snap = SnapOf(x)
    OBVIOUS
<1>2. w[x].pc \in {"save", "retain"}
    BY DEF SaveAppend
<1>3. /\ Snapshot(x) = snap /\ r = Req(x)' /\ snap = SnapOf(x)' /\ ReservedBy(r.owner)' # {}
      /\ r.op = "child" => r.parent \in DOMAIN tasks'
    BY <1>1, <1>2, Working
<1>4. PICK s, draft : s = BindingStream(r.owner) /\ draft = BindingDraft(r.owner, r.op, snap)
    OBVIOUS
<1>5. BindingOf(x) = draft
    BY <1>1, <1>3, <1>4 DEF BindingOf
<1>6. s[1] \in Singles /\ draft.id = s /\ Range(draft.causes) = {}
    BY <1>4, StreamNames, EmptyTuple DEF BindingDraft, Singles
<1>7. Written(s, 0, draft) /\ UNCHANGED <<sessions, tasks>>
    BY <1>1, <1>4, <1>5 DEF SaveAppend, Writes
<1>8. /\ Rows(s)' # <<draft>> => HeadOf(s) > 0 /\ Rows(s)' = Rows(s)
      /\ HeadOf(s) = 0 => Rows(s)' = <<draft>>
      /\ HeadOf(s) > 0 => DOMAIN journal' = DOMAIN journal
    BY <1>6, <1>7, SingleWritten DEF Known
<1>9. Rows(s)' = <<draft>> => Bound(x)'
    BY <1>3, <1>4 DEF Bound
<1>10. Claims(x)
    <2>1. Bound(x)' => Authored(s)'
        <3>1. SUFFICES ASSUME Bound(x)' PROVE Authored(s)'
            OBVIOUS
        <3>2. x \in Made' /\ Prepares(x)' /\ s = BindingStream(Req(x).owner)'
            BY <1>1, <1>3, <1>4, Working, <1>2 DEF Made, Prepares, BindingStream
        <3> QED BY <3>1, <3>2 DEF Authored
    <2>2. s \in DOMAIN journal' => s \in DOMAIN journal \/ Authored(s)'
        BY <1>8, <1>9, <2>1
    <2> QED BY <1>7, <2>2, ClaimsWritten
<1>11. (Rows(BindingStream(Req(x).owner)))' = Rows(s)' /\ <<BindingOf(x)>> = <<draft>>
    <2>1. s = BindingStream(Req(x).owner)'
        BY <1>3, <1>4 DEF BindingStream
    <2> QED BY <2>1, <1>5
<1>12. CASE Rows(s)' = <<draft>>
    <2>1. w' = Advance(x)
        BY <1>12, <1>11 DEF SaveAppend
    <2> QED BY <1>2, <1>9, <1>10, <1>12, <2>1, AdvanceSound DEF Local
<1>13. CASE Rows(s)' # <<draft>>
    <2>1. w' = Refuse(x, "Conflict")
        BY <1>13, <1>11 DEF SaveAppend
    <2>2. HeadOf(s) > 0 /\ Rows(s) # <<draft>>
        BY <1>8, <1>13
    <2>3. PICK y \in Made : Prepares(y) /\ Req(y).owner = r.owner /\ Bound(y)
        BY <1>4, <2>2, BindingAuthor DEF Known
    <2>4. Req(y) # r
        BY <1>1, <1>4, <2>2, <2>3 DEF Bound, SnapOf
    <2>5. JustifiedBy(x, "Conflict")
        BY <1>1, <2>3, <2>4, Disputed
    <2> QED BY <1>2, <1>10, <2>1, <2>5, RefuseSound DEF Local
<1> QED BY <1>12, <1>13

\* assembles tools,
LEMMA AssembleToolsLocal ==
    ASSUME Known, NEW x \in Made, Prepares(x), AssembleTools(x)
    PROVE  Local(x)
<1>1. w[x].pc = "tools"
    BY DEF AssembleTools, At
<1>2. Claims(x)
    BY ClaimsNone DEF AssembleTools, Reads
<1>3. CASE w' = Advance(x)
    BY <1>1, <1>2, <1>3, AdvanceSound DEF Local
<1>4. CASE cfg.refuses /\ w' = Refuse(x, "Host")
    <2>1. JustifiedBy(x, "Host")
        BY <1>4 DEF JustifiedBy
    <2> QED BY <1>1, <1>2, <1>4, <2>1, RefuseSound DEF Local
<1> QED BY <1>3, <1>4 DEF AssembleTools

\* reads the context,
LEMMA ContextReadLocal ==
    ASSUME Known, NEW x \in Made, Prepares(x), ContextRead(x)
    PROVE  Local(x)
<1>1. PICK o, snap : o = Req(x).owner /\ snap = SnapOf(x)
    OBVIOUS
<1>2. w[x].pc = "context" /\ Req(x).op = "child"
    BY Role DEF ContextRead, At, Known
<1>3. Snapshot(x) = snap /\ Bound(x)
    BY <1>1, <1>2, Working DEF CallSound, PastBinding
<1>4. VerifyOwner(o, {"child"}, Snapshot(x))
    BY <1>1, <1>2, <1>3 DEF VerifyOwner, Bound
<1>5. PICK sub : sub = IF Rows(ContextStream(o)) = << >> THEN "append" ELSE "confirm"
    OBVIOUS
<1>6. w' = Step(x, sub) /\ journal' = journal
    BY <1>1, <1>4, <1>5 DEF ContextRead, Reads
<1>7. sub = "confirm" => HeadOf(ContextStream(o))' > 0
    BY <1>5, <1>6, SingleHead DEF Known, HeadOf, Rows
<1>8. Claims(x)
    BY ClaimsNone DEF ContextRead, Reads
<1> QED BY <1>1, <1>2, <1>6, <1>7, <1>8, StepSound DEF Local

\* appends it,
LEMMA ContextAppendLocal ==
    ASSUME Known, NEW x \in Made, Prepares(x), ContextAppend(x)
    PROVE  Local(x)
<1>1. PICK r, snap : r = Req(x) /\ snap = SnapOf(x)
    OBVIOUS
<1>2. w[x].pc = "context" /\ r.op = "child"
    BY <1>1, Role DEF ContextAppend, At, Known
<1>3. Snapshot(x) = snap /\ Bound(x) /\ r = Req(x)' /\ snap = SnapOf(x)' /\ cfg' = cfg
    BY <1>1, <1>2, Working DEF CallSound, PastBinding
<1>4. PICK s, draft : s = ContextStream(r.owner) /\ draft = ContextDraft(r.owner, snap, r.msg)
    OBVIOUS
<1>5. ContextDraftOf(x) = draft
    BY <1>1, <1>3, <1>4 DEF ContextDraftOf
<1>6. s[1] \in Singles /\ draft.id = s
    BY <1>4, StreamNames DEF ContextDraft, Singles
<1>7. \A c \in Range(draft.causes) : Resolves(c)
    <2>1. draft.causes = <<Ownership(r.owner)>>
        BY <1>4 DEF ContextDraft
    <2>2. Resolves(Ownership(r.owner))
        BY <1>1, <1>3, OwnershipResolves
    <2> QED BY <2>1, <2>2, OneTuple
<1>8. Written(s, 0, draft) /\ UNCHANGED <<sessions, tasks>>
    BY <1>1, <1>4, <1>5 DEF ContextAppend, Writes
<1>9. /\ AppendOutcome(s, 0, draft) # "MissingCause" /\ HeadOf(s)' > 0
      /\ Rows(s)' = <<draft>> \/ HeadOf(s) > 0
      /\ HeadOf(s) > 0 => DOMAIN journal' = DOMAIN journal
    BY <1>6, <1>7, <1>8, SingleWritten DEF Known
<1>10. w' = Step(x, "confirm")
    BY <1>1, <1>4, <1>5, <1>9 DEF ContextAppend
<1>11. Claims(x)
    <2>1. ASSUME Rows(s)' = <<draft>> PROVE Authored(s)'
        <3>1. Bound(x)'
            BY <1>3, BoundStays DEF Known
        <3>2. Contexted(x)'
            BY <1>2, <1>3, <1>4, <2>1, <3>1 DEF Contexted
        <3>3. x \in Made' /\ Prepares(x)' /\ s = ContextStream(Req(x).owner)'
            BY <1>1, <1>3, <1>4 DEF Made, Prepares, ContextStream
        <3> QED BY <3>2, <3>3 DEF Authored
    <2>2. s \in DOMAIN journal' => s \in DOMAIN journal \/ Authored(s)'
        BY <1>9, <2>1
    <2> QED BY <1>8, <2>2, ClaimsWritten
<1>12. PICK o : o = r.owner
    OBVIOUS
<1> QED BY <1>1, <1>2, <1>4, <1>9, <1>10, <1>11, <1>12, StepSound DEF Local

\* confirms it,
LEMMA ContextConfirmLocal ==
    ASSUME Known, NEW x \in Made, Prepares(x), ContextConfirm(x)
    PROVE  Local(x)
<1>1. PICK r, snap : r = Req(x) /\ snap = SnapOf(x)
    OBVIOUS
<1>2. w[x].pc = "context" /\ r.op = "child" /\ At(x, "context", "confirm")
    BY <1>1, Role DEF ContextConfirm, At, Known
<1>3. Snapshot(x) = snap /\ Bound(x) /\ HeadOf(ContextStream(r.owner)) > 0
    BY <1>1, <1>2, Working DEF CallSound, PastBinding
<1>4. ContextDraftOf(x) = ContextDraft(r.owner, snap, r.msg)
    BY <1>1, <1>3 DEF ContextDraftOf
<1>5. Claims(x)
    BY ClaimsNone DEF ContextConfirm, Reads
<1>6. CASE Rows(ContextStream(r.owner)) = <<ContextDraftOf(x)>>
    <2>1. w' = Advance(x)
        BY <1>1, <1>6 DEF ContextConfirm
    <2>2. Contexted(x)
        BY <1>1, <1>2, <1>3, <1>4, <1>6 DEF Contexted
    <2>3. Contexted(x)'
        BY <2>2, ContextedStays DEF Known
    <2> QED BY <1>2, <1>5, <2>1, <2>3, AdvanceSound DEF Local
<1>7. CASE Rows(ContextStream(r.owner)) # <<ContextDraftOf(x)>>
    <2>1. w' = Refuse(x, "Conflict")
        BY <1>1, <1>7 DEF ContextConfirm
    <2>2. PICK y \in Made : Prepares(y) /\ Req(y).owner = r.owner /\ Contexted(y)
        BY <1>3, ContextAuthor DEF Known
    <2>3. Req(y) # r
        BY <1>1, <1>4, <1>7, <2>2 DEF Contexted, SnapOf
    <2>4. JustifiedBy(x, "Conflict")
        BY <1>1, <2>2, <2>3, Disputed
    <2> QED BY <1>2, <1>5, <2>1, <2>4, RefuseSound DEF Local
<1> QED BY <1>6, <1>7

\* initialises the session,
LEMMA InitializeContextLocal ==
    ASSUME Known, NEW x \in Made, Prepares(x), InitializeContext(x)
    PROVE  Local(x)
<1>1. PICK r, snap : r = Req(x) /\ snap = SnapOf(x)
    OBVIOUS
<1>2. w[x].pc = "session" /\ r.op = "child"
    BY <1>1, Role DEF InitializeContext, At, Known
<1>3. Snapshot(x) = snap /\ Contexted(x) /\ r = Req(x)' /\ snap = SnapOf(x)'
    BY <1>1, <1>2, Working DEF CallSound, PastContext
<1>4. PICK o, value : o = r.owner /\ value = Initialization(snap, r.msg)
    OBVIOUS
<1>5. journal' = journal /\ tasks' = tasks
    BY DEF InitializeContext
<1>6. Contexted(x)'
    BY <1>3, ContextedStays DEF Known
<1>7. CASE o \in DOMAIN sessions /\ sessions[o] = value
    <2>1. w' = Advance(x) /\ sessions' = sessions
        BY <1>1, <1>3, <1>4, <1>7 DEF InitializeContext
    <2>2. Sessioned(x)'
        BY <1>3, <1>4, <1>6, <1>7, <2>1 DEF Sessioned
    <2> QED BY <1>2, <1>5, <2>1, <2>2, ClaimsNone, AdvanceSound DEF Local
<1>8. CASE o \in DOMAIN sessions /\ sessions[o] # value
    <2>1. w' = Refuse(x, "Conflict") /\ sessions' = sessions
        BY <1>1, <1>3, <1>4, <1>8 DEF InitializeContext
    <2>2. PICK y \in Made : Prepares(y) /\ Req(y).owner = o /\ Sessioned(y)
        BY <1>8 DEF Known, AuthorInv
    <2>3. Req(y) # r
        BY <1>1, <1>4, <1>8, <2>2 DEF Sessioned, SnapOf
    <2>4. JustifiedBy(x, "Conflict")
        BY <1>1, <1>4, <2>2, <2>3, Disputed
    <2> QED BY <1>2, <1>5, <2>1, <2>4, ClaimsNone, RefuseSound DEF Local
<1>9. CASE o \notin DOMAIN sessions
    <2>1. w' = Advance(x) /\ sessions' = Put(sessions, o, value)
        BY <1>1, <1>3, <1>4, <1>9 DEF InitializeContext
    <2>2. /\ DOMAIN sessions' = DOMAIN sessions \cup {o}
          /\ sessions'[o] = value
        BY <2>1 DEF Put
    <2>3. Sessioned(x)'
        BY <1>3, <1>4, <1>6, <2>2 DEF Sessioned
    <2>4. Claims(x)
        BY <1>1, <1>4, <1>5, <2>2, <2>3 DEF Claims
    <2> QED BY <1>2, <2>1, <2>3, <2>4, AdvanceSound DEF Local
<1> QED BY <1>7, <1>8, <1>9

\* reads it back,
LEMMA LoadInitializationLocal ==
    ASSUME Known, NEW x \in Made, Prepares(x), LoadInitialization(x)
    PROVE  Local(x)
<1>1. PICK r, snap : r = Req(x) /\ snap = SnapOf(x)
    OBVIOUS
<1>2. w[x].pc = "initialized" /\ r.op = "child"
    BY <1>1, Role DEF LoadInitialization, At, Known
<1>3. Snapshot(x) = snap /\ Sessioned(x)
    BY <1>1, <1>2, Working DEF CallSound, PastSession
<1>4. Contexted(x) /\ Bound(x)
    BY <1>3 DEF Sessioned, Contexted
<1>5. VerifyOwner(r.owner, {"child"}, snap)
    BY <1>1, <1>2, <1>4 DEF VerifyOwner, Bound
<1>6. /\ r.owner \in DOMAIN sessions
      /\ sessions[r.owner] = Initialization(snap, r.msg)
    BY <1>1, <1>3 DEF Sessioned
<1>7. sessions[r.owner].msg = r.msg
    BY <1>6 DEF Initialization
<1>8. Rows(ContextStream(r.owner)) = <<ContextDraft(r.owner, snap, r.msg)>>
    BY <1>1, <1>4 DEF Contexted
<1>9. VerifiedInitialization(r.owner, snap)
    BY <1>5, <1>6, <1>7, <1>8 DEF VerifiedInitialization
<1>10. w' = Advance(x)
    BY <1>1, <1>3, <1>9 DEF LoadInitialization
<1>11. Claims(x)
    BY ClaimsNone DEF LoadInitialization, Reads
<1> QED BY <1>2, <1>10, <1>11, AdvanceSound DEF Local

\* while nothing the policy allows is revoked, a sound selection is current
LEMMA Current ==
    ASSUME Replays, NEW ad, NEW def, AdSound(ad, def), Acl[def] \cap Revoked = {}
    PROVE  CheckCurrent(ad, def)
<1>1. ad = Discover(def) /\ \A key \in Acl[def] : EntriesOf(key) # {}
    BY DEF AdSound
<1>2. \A s \in ad : s.key \notin Revoked
    BY <1>1 DEF Discover
<1> QED BY <1>1, <1>2 DEF CheckCurrent, Discoverable

\* What discovery finds is a sound selection.
LEMMA DiscoverSound ==
    ASSUME JournalInv, NEW def, Discoverable(def)
    PROVE  AdSound(Discover(def), def)
<1>1. IsFiniteSet(Discover(def))
    BY DiscoverFinite
<1>2. ASSUME NEW s \in Discover(def) PROVE Registered(s)
    <2>1. PICK i \in Entries : s = [key |-> CatalogRows[i].body.key, meta |-> CatalogRows[i].body.meta,
                                    registration |-> RegistrationAt(i)]
        BY <1>2 DEF Discover
    <2>2. i \in EntriesOf(s.key)
        BY <2>1 DEF EntriesOf
    <2> QED BY <2>1, <2>2 DEF Registered
<1> QED BY <1>1, <1>2 DEF AdSound, Discoverable

\* discovers Skills,
LEMMA DiscoverSkillsLocal ==
    ASSUME Known, NEW x \in Made, Prepares(x), DiscoverSkills(x)
    PROVE  Local(x)
<1>1. PICK r, snap, def : r = Req(x) /\ snap = SnapOf(x) /\ def = r.def
    OBVIOUS
<1>2. w[x].pc = "skills" /\ cfg.skills
    BY Role DEF DiscoverSkills, At, Known
<1>3. /\ Progress /\ x \in Calls /\ CallSound(x) /\ cfg' = cfg /\ r = Req(x)' /\ snap = SnapOf(x)'
      /\ r.op = "child" => r.parent \in DOMAIN tasks'
    BY <1>1, <1>2, Working
<1>4. Claims(x)
    BY ClaimsNone DEF DiscoverSkills, Reads
<1>5. CASE Discoverable(def)
    <2>1. PICK ad : ad = Discover(def)
        OBVIOUS
    <2>2. w' = [Step(x, "check") EXCEPT ![x].ad = ad]
        BY <1>1, <1>5, <2>1 DEF DiscoverSkills
    <2>3. Others(x) /\ w'[x].pc = "skills" /\ w'[x].sub = "check" /\ w'[x].ad = ad
        <3>1. Progress /\ x \in Calls
            BY <1>3
        <3>2. Others(x) /\ w'[x].pc = w[x].pc /\ w'[x].sub = "check" /\ w'[x].ad = ad
            BY <2>2, <3>1 DEF Progress, Fields, Others, Step
        <3> QED BY <1>2, <3>2
    <2>4. AdSound(ad, def)'
        BY <1>5, <2>1, DiscoverSound, AdSoundStays DEF Known
    <2>5. Bound(x)'
        BY <1>2, <1>3, BoundStays DEF CallSound, PastBinding, Known
    <2>6. r.op = "child" => Contexted(x)' /\ Sessioned(x)'
        BY <1>1, <1>2, <1>3, ContextedStays, SessionedStays DEF CallSound, PastContext, PastSession, Known
    <2>7. ~PastSkills(x)' /\ ~Ended(x, "ok")'
        BY <2>3 DEF PastSkills, Ended
    <2>8. (PastContext(x)' => r.op = "child") /\ (PastSession(x)' => r.op = "child")
        BY <1>3 DEF PastContext, PastSession
    <2>9. \A pc \in {"context", "skills", "publish"} : ~At(x, pc, "confirm")'
        BY <2>3 DEF At
    <2>10. CallSound(x)'
        BY <1>1, <1>3, <2>3, <2>4, <2>5, <2>6, <2>7, <2>8, <2>9 DEF CallSound
    <2> QED BY <1>4, <2>3, <2>10 DEF Local
<1>6. CASE ~Discoverable(def)
    <2>1. w' = Refuse(x, "Provenance")
        BY <1>1, <1>6 DEF DiscoverSkills
    <2>2. JustifiedBy(x, "Provenance")
        BY <1>2 DEF JustifiedBy
    <2> QED BY <1>2, <1>4, <2>1, <2>2, RefuseSound DEF Local
<1> QED BY <1>5, <1>6

\* at the Skill stage, discovery done
LEMMA Selecting ==
    ASSUME Known, NEW x \in Made, Prepares(x), w[x].pc = "skills", w[x].sub # "read",
           NEW r, r = Req(x), NEW snap, snap = SnapOf(x), NEW ad, ad = w[x].ad
    PROVE  /\ cfg.skills /\ Replays /\ Bound(x) /\ Opened(x) /\ AdSound(ad, r.def)
           /\ Snapshot(x) = snap
           /\ VerifyOwner(r.owner, {r.op}, snap) /\ VerifyOwner(r.owner, {"root", "child"}, snap)
<1>1. cfg.skills /\ Replays
    BY Role DEF Known, CatalogInv
<1>2. Snapshot(x) = snap /\ CallSound(x) /\ r.op \in {"root", "child"}
    BY Working
<1>3. Bound(x) /\ AdSound(ad, r.def)
    BY <1>2 DEF CallSound, PastBinding
<1>4. Opened(x)
    BY <1>2, <1>3 DEF CallSound, PastSession, Opened
<1>5. Rows(BindingStream(r.owner)) = <<BindingDraft(r.owner, r.op, snap)>>
    BY <1>3 DEF Bound
<1> QED BY <1>1, <1>2, <1>3, <1>4, <1>5 DEF VerifyOwner

\* checks the selection,
LEMMA BindCheckLocal ==
    ASSUME Known, NEW x \in Made, Prepares(x), BindCheck(x)
    PROVE  Local(x)
<1>1. PICK r, snap, ad : r = Req(x) /\ snap = SnapOf(x) /\ ad = w[x].ad
    OBVIOUS
<1>2. w[x].pc = "skills" /\ w[x].sub = "check"
    BY DEF BindCheck, At
<1>3. /\ cfg.skills /\ Replays /\ AdSound(ad, r.def) /\ Snapshot(x) = snap
      /\ VerifyOwner(r.owner, {r.op}, snap)
    BY <1>1, <1>2, Selecting
<1>4. Claims(x)
    BY ClaimsNone DEF BindCheck, Reads
<1>5. CASE CheckCurrent(ad, r.def)
    <2>1. w' = Step(x, "append")
        BY <1>1, <1>3, <1>5 DEF BindCheck
    <2> QED BY <1>2, <1>4, <2>1, StepSound DEF Local
<1>6. CASE ~CheckCurrent(ad, r.def)
    <2>1. w' = Refuse(x, "Revoked")
        BY <1>1, <1>3, <1>6 DEF BindCheck
    <2>2. JustifiedBy(x, "Revoked")
        BY <1>1, <1>3, <1>6, Current DEF JustifiedBy
    <2> QED BY <1>2, <1>4, <2>1, <2>2, RefuseSound DEF Local
<1> QED BY <1>5, <1>6

\* The causes of a sound selection resolve.
LEMMA SkillCausesResolve ==
    ASSUME NEW x, Bound(x), NEW o, o = Req(x).owner, NEW snap, NEW ad, NEW def, AdSound(ad, def),
           JournalInv
    PROVE  \A c \in Range(SkillDraft(o, snap, ad).causes) : Resolves(c)
<1>1. \A c \in Range(SkillDraft(o, snap, ad).causes) :
          c = Ownership(o) \/ \E s \in ad : c = s.registration
    BY SkillCauses DEF AdSound
<1>2. Resolves(Ownership(o))
    BY OwnershipResolves
<1>3. ASSUME NEW s \in ad PROVE Resolves(s.registration)
    <2>1. PICK i : i \in DOMAIN CatalogRows /\ s.registration = RegistrationAt(i)
        BY DEF AdSound, Registered, EntriesOf, Entries
    <2>2. DOMAIN Rows(Catalog) = 1..HeadOf(Catalog)
        BY AllStreams, SeqShape DEF StreamSound, HeadOf
    <2> QED BY <2>1, <2>2 DEF RegistrationAt, FactRef, Resolves, CatalogRows
<1> QED BY <1>1, <1>2, <1>3

\* appends it,
LEMMA BindAppendLocal ==
    ASSUME Known, NEW x \in Made, Prepares(x), BindAppend(x)
    PROVE  Local(x)
<1>1. PICK r, snap, ad, o : r = Req(x) /\ snap = SnapOf(x) /\ ad = w[x].ad /\ o = r.owner
    OBVIOUS
<1>2. w[x].pc = "skills" /\ w[x].sub = "append"
    BY DEF BindAppend, At
<1>3. cfg.skills /\ Bound(x) /\ Opened(x) /\ AdSound(ad, r.def) /\ Snapshot(x) = snap
    BY <1>1, <1>2, Selecting
<1>4. r = Req(x)' /\ snap = SnapOf(x)' /\ cfg' = cfg
    BY <1>1, <1>2, Working
<1>5. PICK s, draft : s = SkillStream(o, snap) /\ draft = SkillDraft(o, snap, ad)
    OBVIOUS
<1>6. s[1] \in Singles /\ draft.id = s
    BY <1>5, StreamNames DEF SkillDraft, Singles
<1>7. \A c \in Range(draft.causes) : Resolves(c)
    BY <1>1, <1>3, <1>5, SkillCausesResolve DEF Known
<1>8. Written(s, 0, draft) /\ UNCHANGED <<sessions, tasks>>
    BY <1>1, <1>3, <1>5 DEF BindAppend, Writes
<1>9. /\ AppendOutcome(s, 0, draft) # "MissingCause" /\ HeadOf(s)' > 0
      /\ Rows(s)' = <<draft>> \/ HeadOf(s) > 0
      /\ HeadOf(s) > 0 => DOMAIN journal' = DOMAIN journal
    BY <1>6, <1>7, <1>8, SingleWritten DEF Known
<1>10. w' = Step(x, "confirm")
    BY <1>1, <1>3, <1>5, <1>9 DEF BindAppend
<1>11. Claims(x)
    <2>1. ASSUME Rows(s)' = <<draft>> PROVE Authored(s)'
        <3>1. Opened(x)' /\ AdSound(ad, r.def)'
            BY <1>3, OpenedStays, AdSoundStays DEF Known
        <3>2. SavedSelection(o, snap)' = ad
            BY <1>5, <2>1, OneTuple DEF SavedSelection, SkillDraft
        <3>3. Selected(x, ad)'
            BY <1>1, <1>3, <1>4, <1>5, <2>1, <3>1 DEF Selected
        <3>4. x \in Made' /\ Prepares(x)' /\ s = SkillStream(Req(x).owner, SnapOf(x))'
            BY <1>1, <1>4, <1>5 DEF Made, Prepares, SkillStream
        <3>5. Selected(x, SavedSelection(Req(x).owner, SnapOf(x)))'
            BY <1>1, <1>4, <3>2, <3>3
        <3> QED BY <3>1, <3>4, <3>5 DEF Authored
    <2>2. s \in DOMAIN journal' => s \in DOMAIN journal \/ Authored(s)'
        BY <1>9, <2>1
    <2> QED BY <1>8, <2>2, ClaimsWritten
<1> QED BY <1>1, <1>2, <1>5, <1>9, <1>10, <1>11, StepSound DEF Local

\* confirms it,
LEMMA BindConfirmLocal ==
    ASSUME Known, NEW x \in Made, Prepares(x), BindConfirm(x)
    PROVE  Local(x)
<1>1. PICK r, snap, ad, o : r = Req(x) /\ snap = SnapOf(x) /\ ad = w[x].ad /\ o = r.owner
    OBVIOUS
<1>2. w[x].pc = "skills" /\ w[x].sub = "confirm"
    BY DEF BindConfirm, At
<1>3. /\ cfg.skills /\ Replays /\ Opened(x) /\ AdSound(ad, r.def) /\ Snapshot(x) = snap
      /\ VerifyOwner(o, {"root", "child"}, snap)
    BY <1>1, <1>2, Selecting
<1>4. HeadOf(SkillStream(o, snap)) > 0
    BY <1>1, <1>2, Working DEF CallSound, At
<1>5. PICK saved : saved = SavedSelection(o, snap)
    OBVIOUS
<1>6. PICK y \in Made : Prepares(y) /\ SnapOf(y) = snap /\ Req(y).owner = o /\ Selected(y, saved)
    BY <1>4, <1>5, SkillAuthor DEF Known
<1>7. Req(y).def = r.def
    BY <1>1, <1>6 DEF SnapOf
<1>8. AdSound(saved, r.def) /\ Rows(SkillStream(o, snap)) = <<SkillDraft(o, snap, saved)>>
    BY <1>6, <1>7 DEF Selected
<1>9. RestoreBinding(o, snap)
    <2>1. HeadOf(SkillStream(o, snap)) = 1 /\ Rows(SkillStream(o, snap))[1] = SkillDraft(o, snap, saved)
        BY <1>8, OneTuple DEF HeadOf
    <2>2. \A s \in saved : Registered(s)
        BY <1>8 DEF AdSound
    <2> QED BY <1>3, <1>5, <2>1, <2>2 DEF RestoreBinding, Registered
<1>10. Claims(x)
    BY ClaimsNone DEF BindConfirm, Reads
<1>11. CASE saved # ad
    <2>1. w' = Refuse(x, "SkillConflict")
        BY <1>1, <1>3, <1>5, <1>9, <1>11 DEF BindConfirm
    <2>2. Acl[r.def] \cap Revoked # {}
        BY <1>3, <1>8, <1>11 DEF AdSound
    <2>3. JustifiedBy(x, "SkillConflict")
        BY <1>1, <1>3, <2>2 DEF JustifiedBy
    <2> QED BY <1>2, <1>10, <2>1, <2>3, RefuseSound DEF Local
<1>12. CASE saved = ad /\ ValidateCurrent(o, snap)
    <2>1. w' = Advance(x)
        BY <1>1, <1>3, <1>5, <1>9, <1>12 DEF BindConfirm
    <2>2. Selected(x, ad)
        BY <1>1, <1>3, <1>8, <1>12 DEF Selected
    <2>3. Selected(x, ad)'
        BY <2>2, SelectedStays DEF Known
    <2> QED BY <1>1, <1>2, <1>10, <2>1, <2>3, AdvanceSound DEF Local
<1>13. CASE saved = ad /\ ~ValidateCurrent(o, snap)
    <2>1. w' = Refuse(x, "Revoked")
        BY <1>1, <1>3, <1>5, <1>9, <1>13 DEF BindConfirm
    <2>2. snap.def = r.def
        BY <1>1 DEF SnapOf
    <2>3. ~CheckCurrent(ad, r.def)
        BY <1>5, <1>9, <1>13, <2>2 DEF ValidateCurrent
    <2>4. JustifiedBy(x, "Revoked")
        BY <1>1, <1>3, <2>3, Current DEF JustifiedBy
    <2> QED BY <1>2, <1>10, <2>1, <2>4, RefuseSound DEF Local
<1> QED BY <1>11, <1>12, <1>13

\* archives the document,
LEMMA ArchiveLocal ==
    ASSUME Known, NEW x \in Made, Prepares(x), Archive(x)
    PROVE  Local(x)
<1>1. PICK r, snap : r = Req(x) /\ snap = SnapOf(x)
    OBVIOUS
<1>2. w[x].pc = "archive"
    BY DEF Archive, At
<1>3. Snapshot(x) = snap /\ r = Req(x)' /\ snap = SnapOf(x)' /\ cfg' = cfg
    BY <1>1, <1>2, Working
<1>4. Document(x) = DocOf(x) /\ DocOf(x)' = DocOf(x)
    BY <1>1, <1>3 DEF Document, DocOf, DocumentOf
<1>5. (DocOf(x) \in artifacts)' /\ w' = Advance(x)
    BY <1>4 DEF Archive
<1>6. Claims(x)
    BY ClaimsNone DEF Archive
<1> QED BY <1>2, <1>5, <1>6, AdvanceSound DEF Local

\* at the publication
LEMMA Publishing ==
    ASSUME Known, NEW x \in Made, Prepares(x), w[x].pc \in {"publish", "admit"},
           NEW r, r = Req(x), NEW snap, snap = SnapOf(x), NEW doc, doc = DocOf(x)
    PROVE  /\ Ready(x) /\ doc \in artifacts /\ Snapshot(x) = snap /\ Document(x) = doc
           /\ InputOf(x) = InputDraft(r.owner, r.op, snap, doc)
           /\ ValidateCauses(Causes(doc), InputStream(r.owner))
<1>1. CallSound(x) /\ Snapshot(x) = snap
    BY Working
<1>2. Document(x) = doc /\ doc \in artifacts
    BY <1>1 DEF Document, DocOf, CallSound
<1>3. Bound(x) /\ (r.op = "child" => Sessioned(x)) /\ (cfg.skills => Selected(x, w[x].ad))
    BY <1>1 DEF CallSound, PastBinding, PastSession, PastSkills
<1>4. Ready(x)
    BY <1>3, SavedAd DEF Ready, Opened
<1>5. InputOf(x) = InputDraft(r.owner, r.op, snap, doc)
    BY <1>1, <1>2 DEF InputOf
<1>6. ValidateCauses(Causes(doc), InputStream(r.owner))
    BY <1>4, CausesValid DEF Known
<1> QED BY <1>1, <1>2, <1>4, <1>5, <1>6

\* reads the input,
LEMMA PublishReadLocal ==
    ASSUME Known, NEW x \in Made, Prepares(x), PublishRead(x)
    PROVE  Local(x)
<1>1. PICK o, doc : o = Req(x).owner /\ doc = DocOf(x)
    OBVIOUS
<1>2. w[x].pc = "publish"
    BY DEF PublishRead, At
<1>3. Document(x) = doc /\ ValidateCauses(Causes(doc), InputStream(o))
    BY <1>1, <1>2, Publishing
<1>4. PICK sub : sub = IF Rows(InputStream(o)) = << >> THEN "append" ELSE "confirm"
    OBVIOUS
<1>5. w' = Step(x, sub) /\ journal' = journal
    BY <1>1, <1>3, <1>4 DEF PublishRead, Reads
<1>6. sub = "confirm" => HeadOf(InputStream(o))' > 0
    BY <1>4, <1>5, SingleHead DEF Known, HeadOf, Rows
<1>7. Claims(x)
    BY ClaimsNone DEF PublishRead, Reads
<1> QED BY <1>1, <1>2, <1>5, <1>6, <1>7, StepSound DEF Local

\* appends it,
LEMMA PublishAppendLocal ==
    ASSUME Known, NEW x \in Made, Prepares(x), PublishAppend(x)
    PROVE  Local(x)
<1>1. PICK r, snap, doc, o : r = Req(x) /\ snap = SnapOf(x) /\ doc = DocOf(x) /\ o = r.owner
    OBVIOUS
<1>2. w[x].pc = "publish"
    BY DEF PublishAppend, At
<1>3. Ready(x) /\ doc \in artifacts /\ InputOf(x) = InputDraft(o, r.op, snap, doc)
    BY <1>1, <1>2, Publishing
<1>4. r = Req(x)' /\ snap = SnapOf(x)' /\ cfg' = cfg
    BY <1>1, <1>2, Working
<1>5. doc = DocOf(x)'
    BY <1>1, <1>4 DEF DocOf, DocumentOf
<1>6. PICK s, draft : s = InputStream(o) /\ draft = InputDraft(o, r.op, snap, doc)
    OBVIOUS
<1>7. s[1] \in Singles /\ draft.id = s /\ draft.causes = Causes(doc)
    BY <1>6, StreamNames DEF InputDraft, Singles
<1>8. \A c \in Range(draft.causes) : Resolves(c)
    BY <1>1, <1>3, <1>7, CausesSound DEF Known
<1>9. Written(s, 0, draft) /\ UNCHANGED <<sessions, tasks>>
    BY <1>1, <1>3, <1>6 DEF PublishAppend, Writes
<1>10. /\ HeadOf(s)' > 0
       /\ Rows(s)' = <<draft>> \/ HeadOf(s) > 0
       /\ HeadOf(s) > 0 => DOMAIN journal' = DOMAIN journal
    BY <1>7, <1>8, <1>9, SingleWritten DEF Known
<1>11. w' = Step(x, "confirm")
    BY DEF PublishAppend
<1>12. Claims(x)
    <2>1. ASSUME Rows(s)' = <<draft>> PROVE Authored(s)'
        <3>1. Ready(x)' /\ (doc \in artifacts')
            BY <1>3, ReadyStays DEF Known, Grown, Grows
        <3>2. Published(x)'
            BY <1>1, <1>4, <1>5, <1>6, <2>1, <3>1 DEF Published
        <3>3. x \in Made' /\ Prepares(x)' /\ s = InputStream(Req(x).owner)'
            BY <1>1, <1>4, <1>6 DEF Made, Prepares, InputStream
        <3> QED BY <3>2, <3>3 DEF Authored
    <2>2. s \in DOMAIN journal' => s \in DOMAIN journal \/ Authored(s)'
        BY <1>10, <2>1
    <2> QED BY <1>9, <2>2, ClaimsWritten
<1> QED BY <1>1, <1>2, <1>6, <1>10, <1>11, <1>12, StepSound DEF Local

\* A published input loads and verifies.
LEMMA PublishedLoads ==
    ASSUME Shape, JournalInv, AuthorInv, NEW x \in Made, Prepares(x), Published(x)
    PROVE  LoadVerifiedInput(Req(x).owner, SnapOf(x), Req(x).op)
<1>1. PICK r, snap, doc, o : r = Req(x) /\ snap = SnapOf(x) /\ doc = DocOf(x) /\ o = r.owner
    OBVIOUS
<1>2. Ready(x) /\ Rows(InputStream(o)) = <<InputDraft(o, r.op, snap, doc)>>
    BY <1>1 DEF Published
<1>3. HeadOf(InputStream(o)) = 1 /\ Rows(InputStream(o))[1] = InputDraft(o, r.op, snap, doc)
    BY <1>2, OneTuple DEF HeadOf
<1>4. ValidateCauses(Causes(doc), InputStream(o))
    BY <1>1, <1>2, CausesValid
<1>5. PICK fact : fact = Rows(InputStream(o))[1]
    OBVIOUS
<1>6. fact.body.scope = [owner |-> o, snap |-> snap] /\ fact.body.kind = r.op /\ fact.causes = Causes(doc)
    BY <1>3, <1>5 DEF InputDraft
<1> QED BY <1>1, <1>3, <1>4, <1>5, <1>6 DEF LoadVerifiedInput

\* confirms it,
LEMMA PublishConfirmLocal ==
    ASSUME Known, NEW x \in Made, Prepares(x), PublishConfirm(x)
    PROVE  Local(x)
<1>1. PICK r, snap, doc, o : r = Req(x) /\ snap = SnapOf(x) /\ doc = DocOf(x) /\ o = r.owner
    OBVIOUS
<1>2. w[x].pc = "publish" /\ At(x, "publish", "confirm")
    BY DEF PublishConfirm, At
<1>3. /\ Ready(x) /\ doc \in artifacts /\ Snapshot(x) = snap
      /\ InputOf(x) = InputDraft(o, r.op, snap, doc)
    BY <1>1, <1>2, Publishing
<1>4. HeadOf(InputStream(o)) > 0
    BY <1>1, <1>2, Working DEF CallSound
<1>5. Claims(x)
    BY ClaimsNone DEF PublishConfirm, Reads
<1>6. CASE Rows(InputStream(o)) = <<InputOf(x)>>
    <2>1. Published(x)
        BY <1>1, <1>3, <1>6 DEF Published
    <2>2. LoadVerifiedInput(o, snap, r.op)
        BY <1>1, <2>1, PublishedLoads DEF Known
    <2>3. w' = Advance(x)
        BY <1>1, <1>3, <1>6, <2>2 DEF PublishConfirm
    <2>4. Published(x)'
        BY <2>1, PublishedStays DEF Known
    <2> QED BY <1>2, <1>5, <2>3, <2>4, AdvanceSound DEF Local
<1>7. CASE Rows(InputStream(o)) # <<InputOf(x)>>
    <2>1. w' = Refuse(x, "Conflict")
        BY <1>1, <1>7 DEF PublishConfirm
    <2>2. PICK y \in Made : Prepares(y) /\ Req(y).owner = o /\ Published(y)
        BY <1>4, InputAuthor DEF Known
    <2>3. Req(y) # r
        BY <1>1, <1>3, <1>7, <2>2 DEF Published, SnapOf, DocOf
    <2>4. JustifiedBy(x, "Conflict")
        BY <1>1, <2>2, <2>3, Disputed
    <2> QED BY <1>2, <1>5, <2>1, <2>4, RefuseSound DEF Local
<1> QED BY <1>6, <1>7

\* and is admitted.
LEMMA AdmitLocal ==
    ASSUME Known, NEW x \in Made, Prepares(x), Admit(x)
    PROVE  Local(x)
<1>1. PICK r, snap : r = Req(x) /\ snap = SnapOf(x)
    OBVIOUS
<1>2. w[x].pc = "admit"
    BY DEF Admit, At
<1>3. Published(x) /\ Snapshot(x) = snap /\ r = Req(x)' /\ snap = SnapOf(x)'
    BY <1>1, <1>2, Working DEF CallSound
<1>4. PICK o, value : o = r.owner /\ value = [snap |-> snap, source |-> InputStream(o)]
    OBVIOUS
<1>5. LoadVerifiedInput(o, Snapshot(x), Req(x).op)
    BY <1>1, <1>3, <1>4, PublishedLoads DEF Known
<1>6. Published(x)' /\ UNCHANGED <<journal, sessions>>
    BY <1>3, PublishedStays DEF Known, Admit
<1>7. CASE o \in DOMAIN tasks /\ tasks[o] = value
    <2>1. w' = Advance(x) /\ tasks' = tasks
        BY <1>1, <1>3, <1>4, <1>5, <1>7 DEF Admit
    <2>2. Admitted(x)'
        BY <1>3, <1>4, <1>6, <1>7, <2>1 DEF Admitted, InputStream
    <2> QED BY <1>2, <1>6, <2>1, <2>2, ClaimsNone, AdvanceSound DEF Local
<1>8. CASE o \in DOMAIN tasks /\ tasks[o] # value
    <2>1. w' = Refuse(x, "Conflict") /\ tasks' = tasks
        BY <1>1, <1>3, <1>4, <1>5, <1>8 DEF Admit
    <2>2. PICK y \in Made : Prepares(y) /\ Req(y).owner = o /\ Admitted(y)
        BY <1>8 DEF Known, AuthorInv
    <2>3. Req(y) # r
        BY <1>1, <1>4, <1>8, <2>2 DEF Admitted, SnapOf
    <2>4. JustifiedBy(x, "Conflict")
        BY <1>1, <1>4, <2>2, <2>3, Disputed
    <2> QED BY <1>2, <1>6, <2>1, <2>4, ClaimsNone, RefuseSound DEF Local
<1>9. CASE o \notin DOMAIN tasks
    <2>1. w' = Advance(x) /\ tasks' = Put(tasks, o, value)
        BY <1>1, <1>3, <1>4, <1>5, <1>9 DEF Admit
    <2>2. DOMAIN tasks' = DOMAIN tasks \cup {o} /\ tasks'[o] = value
        BY <2>1 DEF Put
    <2>3. Admitted(x)'
        BY <1>3, <1>4, <1>6, <2>2 DEF Admitted, InputStream
    <2>4. Claims(x)
        BY <1>1, <1>4, <1>6, <2>2, <2>3 DEF Claims
    <2> QED BY <1>2, <2>1, <2>3, <2>4, AdvanceSound DEF Local
<1> QED BY <1>7, <1>8, <1>9

\* a call that prepares nothing
LEMMA OtherLocal ==
    ASSUME Known, NEW x \in Made, ~Prepares(x),
           \/ Works(x) \/ Start(x) \/ ReserveLoad(x) \/ ReserveAppend(x) \/ DiscoverSkills(x)
           \/ RegisterRead(x) \/ RevokeRead(x) \/ AppendOnce(x) \/ LoadPrepare(x) \/ Crash(x)
    PROVE  Others(x) /\ w'[x].instance \in {0, w[x].instance}
<1>1. Progress /\ x \in Calls /\ Shape
    BY Configured DEF Known, Shape
<1>2. CASE Works(x)
    BY <1>1, <1>2, OnwardCall DEF Works
<1>3. CASE Start(x)
    BY <1>1, <1>3, StartCall DEF Start
<1>4. CASE ReserveLoad(x) \/ ReserveAppend(x) \/ DiscoverSkills(x)
    BY <1>1, <1>4, Role DEF ReserveLoad, ReserveAppend, DiscoverSkills, At
<1>5. CASE RegisterRead(x) \/ RevokeRead(x)
    <2>1. \/ w' = Advance(x) \/ \E why : w' = Refuse(x, why)
          \/ \E n : w' = [Step(x, "append") EXCEPT ![x].head = n]
        BY <1>5 DEF RegisterRead, RevokeRead
    <2>2. CASE w' = Advance(x)
        BY <2>2, <1>1, AdvanceCall
    <2>3. CASE \E why : w' = Refuse(x, why)
        BY <2>3, <1>1, RefuseCall
    <2>4. CASE \E n : w' = [Step(x, "append") EXCEPT ![x].head = n]
        <3>1. PICK n : w' = [Step(x, "append") EXCEPT ![x].head = n]
            BY <2>4
        <3> QED BY <3>1, <1>1 DEF Progress, Fields, Others, Step
    <2> QED BY <2>1, <2>2, <2>3, <2>4
<1>6. CASE AppendOnce(x)
    BY <1>1, <1>6, StepCall DEF AppendOnce
<1>7. CASE LoadPrepare(x)
    <2>1. CASE \E why : w' = Refuse(x, why)
        BY <2>1, <1>1, RefuseCall
    <2>2. CASE \E ad : w' = [Step(x, "granted") EXCEPT ![x].ad = ad]
        <3>1. PICK ad : w' = [Step(x, "granted") EXCEPT ![x].ad = ad]
            BY <2>2
        <3> QED BY <3>1, <1>1 DEF Progress, Fields, Others, Step
    <2> QED BY <1>7, <2>1, <2>2 DEF LoadPrepare
<1>8. CASE Crash(x)
    <2>1. Others(x) /\ w'[x] = Idle
        BY <1>1, <1>8, CrashCall DEF Crash
    <2> QED BY <2>1 DEF Idle
<1> QED BY <1>2, <1>3, <1>4, <1>5, <1>6, <1>7, <1>8

\* Nothing they write is an owner's.
LEMMA OtherClaims ==
    ASSUME Known, NEW x \in Made, ~Prepares(x),
           \/ Start(x) \/ Reserve(x) \/ Save(x) \/ AssembleTools(x)
           \/ Context(x) \/ PrepareSkills(x) \/ Publish(x) \/ Admit(x)
           \/ CatalogCall(x) \/ LoadSkill(x) \/ Crash(x)
    PROVE  Claims(x)
<1>1. CASE AppendOnce(x)
    <2>1. Written(Catalog, w[x].head, CatalogDraft(x)) /\ UNCHANGED <<sessions, tasks>>
        BY <1>1 DEF AppendOnce, Writes
    <2> QED BY <2>1, ClaimsWritten
<1>2. CASE Start(x) \/ RegisterRead(x) \/ RevokeRead(x) \/ CatalogConfirm(x) \/ LoadSkill(x) \/ Crash(x)
    BY <1>2, ClaimsNone DEF Start, RegisterRead, RevokeRead, CatalogConfirm, LoadSkill, LoadPrepare,
       LoadExecute, Crash, Reads
<1>3. w[x].pc \notin {"reserve", "save", "retain", "tools", "context", "session", "initialized", "skills",
                      "archive", "publish", "admit"}
    BY Role DEF Known, Prepares
<1>4. ~(Reserve(x) \/ Save(x) \/ AssembleTools(x) \/ Context(x) \/ PrepareSkills(x) \/ Publish(x) \/ Admit(x))
    BY <1>3 DEF Reserve, Save, AssembleTools, Context, PrepareSkills, Publish, Admit, ReserveLoad,
       ReserveAppend, SaveLoad, SaveAppend, ContextRead, ContextAppend, ContextConfirm,
       InitializeContext, LoadInitialization, DiscoverSkills, BindCheck, BindAppend, BindConfirm,
       Archive, PublishRead, PublishAppend, PublishConfirm, At
<1> QED BY <1>1, <1>2, <1>4 DEF CatalogCall

\* At first nothing is there.
LEMMA AuthorInit == Init => AuthorInv
<1>1. SUFFICES ASSUME Init PROVE AuthorInv
    OBVIOUS
<1>2. journal = << >> /\ sessions = << >> /\ tasks = << >> /\ w = [x \in Calls |-> Idle] /\ Made \subseteq Calls
    BY <1>1, Configured DEF Init
<1>3. DOMAIN journal = {} /\ DOMAIN sessions = {} /\ DOMAIN tasks = {}
    BY <1>2, EmptyTuple
<1>4. \A x \in Made : w[x] = Idle
    BY <1>2
<1>5. \A x \in Made : w[x].pc = "idle" /\ w[x].instance = 0
    BY <1>4 DEF Idle
<1>6. \A x \in Made : CallSound(x)
    BY <1>5 DEF CallSound, PastBinding, PastContext, PastSession, PastSkills, Ended, At
<1> QED BY <1>3, <1>5, <1>6 DEF AuthorInv

\* the stores keep what they had, and each call but x its progress
LEMMA AuthorGlue ==
    ASSUME Known, NEW x, Others(x), Claims(x), x \in Made \/ UNCHANGED <<sessions, tasks>>,
           x \in Made => IF Prepares(x) THEN CallSound(x)' ELSE w'[x].instance = 0
    PROVE  AuthorInv'
<1>1. Grown /\ AuthorInv /\ Made \subseteq Calls
    BY Configured DEF Known, Shape
<1>2. /\ cfg' = cfg /\ Made' = Made
      /\ \A y : Prepares(y)' = Prepares(y) /\ Req(y)' = Req(y)
    BY <1>1 DEF Grown, Grows, Made, Prepares, Req
<1>3. ASSUME NEW s \in DOMAIN journal' PROVE s = Registry \/ s = Catalog \/ Authored(s)'
    <2>1. CASE s \in DOMAIN journal
        BY <2>1, <1>1, AuthoredStays DEF AuthorInv
    <2> QED BY <2>1 DEF Claims
<1>4. ASSUME NEW o \in DOMAIN sessions'
      PROVE  \E y \in Made : Prepares(y) /\ Req(y).owner = o /\ Sessioned(y)'
    <2>1. CASE o \in DOMAIN sessions
        <3>1. PICK y \in Made : Prepares(y) /\ Req(y).owner = o /\ Sessioned(y)
            BY <2>1, <1>1 DEF AuthorInv
        <3> QED BY <3>1, <1>1, SessionedStays
    <2>2. CASE o \notin DOMAIN sessions
        <3>1. o = Req(x).owner /\ Sessioned(x)'
            BY <2>2 DEF Claims
        <3>2. Prepares(x)
            BY <3>1, <1>2 DEF Sessioned, Contexted, Prepares
        <3>3. x \in Made
            BY <2>2
        <3> QED BY <3>1, <3>2, <3>3
    <2> QED BY <2>1, <2>2
<1>5. ASSUME NEW o \in DOMAIN tasks'
      PROVE  \E y \in Made : Prepares(y) /\ Req(y).owner = o /\ Admitted(y)'
    <2>1. CASE o \in DOMAIN tasks
        <3>1. PICK y \in Made : Prepares(y) /\ Req(y).owner = o /\ Admitted(y)
            BY <2>1, <1>1 DEF AuthorInv
        <3> QED BY <3>1, <1>1, AdmittedStays
    <2>2. CASE o \notin DOMAIN tasks
        BY <2>2 DEF Claims
    <2> QED BY <2>1, <2>2
<1>6. ASSUME NEW y \in Made
      PROVE  IF Prepares(y) THEN CallSound(y)' ELSE w'[y].instance = 0
    <2>1. CASE y # x
        <3>1. w'[y] = w[y]
            BY <1>1, <2>1 DEF Others
        <3> QED BY <1>1, <3>1, CallSoundStays DEF AuthorInv
    <2> QED BY <2>1
<1> QED BY <1>2, <1>3, <1>4, <1>5, <1>6 DEF AuthorInv

\* Every step keeps the authors.
LEMMA AuthorStep ==
    ASSUME Known, Next
    PROVE  AuthorInv'
<1>1. PICK x \in Made : \/ Start(x) \/ Reserve(x) \/ Save(x) \/ AssembleTools(x)
                        \/ Context(x) \/ PrepareSkills(x) \/ Publish(x) \/ Admit(x)
                        \/ CatalogCall(x) \/ LoadSkill(x) \/ Crash(x)
    BY DEF Next
<1>2. CASE Prepares(x)
    <2>1. ~CatalogCall(x) /\ ~LoadSkill(x)
        BY <1>2, Role DEF Known, Prepares, CatalogCall, LoadSkill, RegisterRead, RevokeRead, AppendOnce,
           CatalogConfirm, LoadPrepare, LoadExecute, At
    <2>2. Local(x)
        <3>1. CASE Start(x) \/ Crash(x)
            BY <1>2, <3>1, StartLocal, CrashLocal
        <3>2. CASE Reserve(x)
            BY <1>2, <3>2, ReserveLoadLocal, ReserveAppendLocal DEF Reserve
        <3>3. CASE Save(x)
            BY <1>2, <3>3, SaveLoadLocal, SaveAppendLocal DEF Save
        <3>4. CASE Context(x)
            BY <1>2, <3>4, ContextReadLocal, ContextAppendLocal, ContextConfirmLocal, InitializeContextLocal,
               LoadInitializationLocal DEF Context
        <3>5. CASE PrepareSkills(x)
            BY <1>2, <3>5, DiscoverSkillsLocal, BindCheckLocal, BindAppendLocal, BindConfirmLocal DEF PrepareSkills
        <3>6. CASE Publish(x)
            BY <1>2, <3>6, ArchiveLocal, PublishReadLocal, PublishAppendLocal, PublishConfirmLocal DEF Publish
        <3>7. CASE AssembleTools(x) \/ Admit(x)
            BY <1>2, <3>7, AssembleToolsLocal, AdmitLocal
        <3> QED BY <1>1, <2>1, <3>1, <3>2, <3>3, <3>4, <3>5, <3>6, <3>7
    <2> QED BY <1>2, <2>2, AuthorGlue DEF Local
<1>3. CASE ~Prepares(x)
    <2>1. \/ Works(x) \/ Start(x) \/ ReserveLoad(x) \/ ReserveAppend(x) \/ DiscoverSkills(x)
          \/ RegisterRead(x) \/ RevokeRead(x) \/ AppendOnce(x) \/ LoadPrepare(x) \/ Crash(x)
        BY <1>1, WorkSteps DEF Reserve, PrepareSkills, CatalogCall, LoadSkill
    <2>2. Others(x) /\ w'[x].instance \in {0, w[x].instance}
        BY <1>3, <2>1, OtherLocal
    <2>3. Claims(x)
        BY <1>1, <1>3, OtherClaims
    <2>4. w[x].instance = 0
        BY <1>3 DEF Known, AuthorInv
    <2> QED BY <1>3, <2>2, <2>3, <2>4, AuthorGlue
<1> QED BY <1>2, <1>3

\* So does a stutter.
LEMMA AuthorStutter ==
    ASSUME Shape, JournalInv, RegistryInv, CatalogInv, AuthorInv, UNCHANGED vars
    PROVE  AuthorInv'
<1>1. /\ journal' = journal /\ cfg' = cfg /\ sessions' = sessions /\ artifacts' = artifacts
      /\ tasks' = tasks /\ w' = w
    BY DEF vars
<1>2. \A s : Rows(s)' = Rows(s) /\ HeadOf(s)' = HeadOf(s)
    BY <1>1 DEF Rows, HeadOf
<1>3. \A s : HeadOf(s) \in Nat /\ DOMAIN Rows(s) = 1..HeadOf(s)
    BY AllStreams, SeqShape DEF StreamSound, HeadOf
<1>4. Grows
    BY <1>1, <1>2, <1>3 DEF Grows, Extends
<1>5. RegistryLoads'
    BY <1>1, <1>2 DEF RegistryInv, RegistryLoads, ReservedBy
<1>6. Replays'
    BY <1>1, <1>2, CatalogSame DEF CatalogInv
<1>7. Known
    BY <1>4, <1>5, <1>6 DEF Known, Grown, RegistryInv
<1>8. PICK x : x = 0
    OBVIOUS
<1>9. Others(x) /\ Claims(x)
    BY <1>1, ClaimsNone DEF Others
<1>10. x \in Made => IF Prepares(x) THEN CallSound(x)' ELSE w'[x].instance = 0
    BY <1>1, <1>7, CallSoundStays DEF Known, AuthorInv
<1> QED BY <1>1, <1>7, <1>9, <1>10, AuthorGlue

\* Whatever other callers of an owner do between a call's reads and its appends, each
\* fact, session and Task of an owner is one its own preparing call wrote, complete.
THEOREM AuthorTheorem == Spec => []AuthorInv
<1>1. Shape /\ JournalInv /\ RegistryInv /\ CatalogInv /\ AuthorInv /\ RegistryInv' /\ CatalogInv' /\ Next
        => AuthorInv'
    <2>1. SUFFICES ASSUME Shape, JournalInv, RegistryInv, CatalogInv, AuthorInv, RegistryInv', CatalogInv', Next
                   PROVE  AuthorInv'
        OBVIOUS
    <2>2. Known
        BY <2>1, StepGrows DEF Known, Grown, RegistryInv, CatalogInv
    <2> QED BY <2>1, <2>2, AuthorStep
<1>2. Shape /\ JournalInv /\ RegistryInv /\ CatalogInv /\ AuthorInv /\ RegistryInv' /\ CatalogInv' /\ [Next]_vars
        => AuthorInv'
    BY <1>1, AuthorStutter
<1> QED BY <1>2, AuthorInit, ShapeTheorem, JournalTheorem, RegistryTheorem, CatalogTheorem, PTL DEF Spec

\* A preparation is refused only for what its caller can name: a different request for
\* the owner, a revoked Skill, a host that refuses, a registry that is full or contended.
THEOREM RefusalTheorem == Spec => []RefusalJustified
<1>1. AuthorInv => RefusalJustified
    BY DEF AuthorInv, CallSound, RefusalJustified
<1> QED BY <1>1, AuthorTheorem, PTL

\* What a call returned as prepared is what the stores hold for its owner.
THEOREM ReturnedTheorem == Spec => []ReturnedIsSaved
<1>1. RegistryInv /\ AuthorInv => ReturnedIsSaved
    <2>1. SUFFICES ASSUME RegistryInv, AuthorInv, NEW x \in Made, Prepares(x), Ended(x, "ok"),
                          NEW r, r = Req(x), NEW snap, snap = SnapOf(x)
                   PROVE  /\ r.owner \in DOMAIN tasks /\ tasks[r.owner].snap = Snapshot(x)
                          /\ Rows(BindingStream(r.owner)) = <<BindingOf(x)>>
                          /\ Rows(InputStream(r.owner)) = <<InputOf(x)>>
                          /\ r.op = "child" =>
                                 /\ Rows(ContextStream(r.owner)) = <<ContextDraftOf(x)>>
                                 /\ sessions[r.owner] = Initialization(Snapshot(x), r.msg)
                          /\ cfg.skills => SavedSelection(r.owner, Snapshot(x)) = w[x].ad
        BY DEF ReturnedIsSaved
    <2>2. Snapshot(x) = snap
        BY <2>1, SnapshotIs DEF Ended
    <2>3. CallSound(x)
        BY <2>1 DEF AuthorInv
    <2>4. Admitted(x)
        BY <2>1, <2>3 DEF CallSound
    <2>5. Published(x) /\ Bound(x) /\ (r.op = "child" => Sessioned(x) /\ Contexted(x))
        BY <2>1, <2>4 DEF Admitted, Published, Ready, Opened, Sessioned
    <2>6. r.owner \in DOMAIN tasks /\ tasks[r.owner].snap = Snapshot(x)
        BY <2>1, <2>2, <2>4 DEF Admitted
    <2>7. Document(x) = DocOf(x)
        BY <2>1, <2>2 DEF Document, DocOf
    <2>8. /\ Rows(BindingStream(r.owner)) = <<BindingOf(x)>>
          /\ Rows(InputStream(r.owner)) = <<InputOf(x)>>
        BY <2>1, <2>2, <2>5, <2>7 DEF Bound, Published, BindingOf, InputOf
    <2>9. r.op = "child" => /\ Rows(ContextStream(r.owner)) = <<ContextDraftOf(x)>>
                            /\ sessions[r.owner] = Initialization(Snapshot(x), r.msg)
        BY <2>1, <2>2, <2>5 DEF Contexted, Sessioned, ContextDraftOf
    <2>10. cfg.skills => SavedSelection(r.owner, Snapshot(x)) = w[x].ad
        BY <2>1, <2>2, <2>3, SavedAd DEF CallSound, PastSkills
    <2> QED BY <2>6, <2>8, <2>9, <2>10
<1> QED BY <1>1, AuthorTheorem, RegistryTheorem, PTL

-----------------------------------------------------------------------------
(* The stores stay usable *)

\* A saved selection is restored.
LEMMA SelectedRestores ==
    ASSUME CatalogInv, NEW x, Prepares(x), Selected(x, SavedSelection(Req(x).owner, SnapOf(x)))
    PROVE  RestoreBinding(Req(x).owner, SnapOf(x))
<1>1. PICK o, snap, saved : o = Req(x).owner /\ snap = SnapOf(x) /\ saved = SavedSelection(o, snap)
    OBVIOUS
<1>2. Bound(x) /\ AdSound(saved, Req(x).def) /\ Rows(SkillStream(o, snap)) = <<SkillDraft(o, snap, saved)>>
    BY <1>1 DEF Selected, Opened
<1>3. HeadOf(SkillStream(o, snap)) = 1 /\ Rows(SkillStream(o, snap))[1] = SkillDraft(o, snap, saved)
    BY <1>2, OneTuple DEF HeadOf
<1>4. Replays /\ \A s \in saved : Registered(s)
    BY <1>2 DEF AdSound, CatalogInv
<1>5. VerifyOwner(o, {"root", "child"}, snap)
    BY <1>1, <1>2 DEF VerifyOwner, Bound, Prepares
<1> QED BY <1>1, <1>3, <1>4, <1>5 DEF RestoreBinding, Registered

\* An initialised session verifies.
LEMMA SessionedVerified ==
    ASSUME NEW x, Sessioned(x)
    PROVE  /\ VerifiedInitialization(Req(x).owner, SnapOf(x))
           /\ sessions[Req(x).owner].msg = Req(x).msg
<1>1. PICK r, snap : r = Req(x) /\ snap = SnapOf(x)
    OBVIOUS
<1>2. Contexted(x) /\ Bound(x) /\ r.op = "child"
    BY <1>1 DEF Sessioned, Contexted
<1>3. VerifyOwner(r.owner, {"child"}, snap)
    BY <1>1, <1>2 DEF VerifyOwner, Bound
<1>4. r.owner \in DOMAIN sessions /\ sessions[r.owner] = Initialization(snap, r.msg)
    BY <1>1 DEF Sessioned
<1>5. sessions[r.owner].msg = r.msg
    BY <1>4 DEF Initialization
<1>6. Rows(ContextStream(r.owner)) = <<ContextDraft(r.owner, snap, r.msg)>>
    BY <1>1, <1>2 DEF Contexted
<1> QED BY <1>1, <1>3, <1>4, <1>5, <1>6 DEF VerifiedInitialization

\* The input of an admitted call verifies.
LEMMA Verified ==
    ASSUME Shape, JournalInv, CatalogInv, AuthorInv, NEW x \in Made, Prepares(x), Admitted(x),
           NEW o, o = Req(x).owner, NEW snap, snap = SnapOf(x), NEW doc, doc = DocOf(x)
    PROVE  VerifyRootInput(o, snap, doc) \/ VerifyChildInput(o, snap, doc)
<1>1. PICK r : r = Req(x) /\ r.owner = o /\ r.op \in {"root", "child"}
    BY DEF Prepares
<1>2. /\ Ready(x) /\ Published(x) /\ Bound(x) /\ doc \in artifacts
      /\ o \in DOMAIN tasks /\ tasks[o].snap = snap
    BY <1>1 DEF Admitted, Published, Ready, Opened
<1>3. doc = DocumentOf(r, snap)
    BY <1>1 DEF DocOf
<1>4. Rows(BindingStream(o)) = <<BindingDraft(o, r.op, snap)>>
    BY <1>1, <1>2 DEF Bound
<1>5. Rows(InputStream(o))[1] = InputDraft(o, r.op, snap, doc)
    BY <1>1, <1>2, OneTuple DEF Published
<1>6. Rows(InputStream(o))[1].body.doc = doc /\ Rows(InputStream(o))[1].causes = Causes(doc)
    BY <1>5 DEF InputDraft
<1>7. LoadInputDocument(o, snap, r.op)
    BY <1>1, <1>2, <1>6, PublishedLoads DEF LoadInputDocument
<1>8. doc.ownership = Ownership(o) /\ doc.def = snap.def
    BY <1>1, <1>3 DEF DocumentOf, SnapOf
<1>9. VerifySkillOrigin(o, snap, doc)
    <2>1. doc.skill = IF cfg.skills THEN <<SkillRef(o, snap)>> ELSE << >>
        BY <1>1, <1>3 DEF DocumentOf
    <2>2. cfg.skills => RestoreBinding(o, snap)
        BY <1>1, <1>2, SelectedRestores DEF Ready
    <2> QED BY <2>1, <2>2 DEF VerifySkillOrigin
<1>10. VerifyInput(o, snap, r.op, doc)
    BY <1>4, <1>6, <1>7, <1>8, <1>9 DEF VerifyInput
<1>11. CASE r.op = "root"
    <2>1. doc.parent = << >> /\ doc.initialization = << >>
        BY <1>3, <1>11 DEF DocumentOf
    <2> QED BY <1>10, <1>11, <2>1 DEF VerifyRootInput
<1>12. CASE r.op = "child"
    <2>1. /\ doc.parent = <<Ownership(r.parent)>> /\ doc.msg = r.msg
          /\ doc.initialization = <<FactRef(ContextStream(o), 1, ContextStream(o))>>
        BY <1>1, <1>3, <1>12 DEF DocumentOf
    <2>2. r.parent \in DOMAIN tasks
        BY <1>1, <1>2, <1>12 DEF Bound
    <2>3. PICK y \in Made : Prepares(y) /\ Req(y).owner = r.parent /\ Admitted(y)
        BY <2>2 DEF AuthorInv
    <2>4. Resolves(Ownership(r.parent))
        BY <2>3, OwnershipResolves DEF Admitted, Published, Ready, Opened
    <2>5. VerifiedInitialization(o, snap) /\ sessions[o].msg = r.msg
        BY <1>1, <1>2, <1>12, SessionedVerified DEF Ready, Opened
    <2> QED BY <1>2, <1>10, <1>12, <2>1, <2>2, <2>4, <2>5 DEF VerifyChildInput
<1> QED BY <1>1, <1>11, <1>12

\* So every admitted Task's input verifies.
LEMMA AdmittedVerify ==
    ASSUME Shape, JournalInv, CatalogInv, AuthorInv
    PROVE  AdmittedVerifies
<1>1. SUFFICES ASSUME NEW o \in DOMAIN tasks,
                      NEW snap, snap = Rows(BindingStream(o))[1].body.snap,
                      NEW doc, doc = Rows(InputStream(o))[1].body.doc
               PROVE  /\ tasks[o].snap = snap
                      /\ VerifyRootInput(o, snap, doc) \/ VerifyChildInput(o, snap, doc)
    BY DEF AdmittedVerifies
<1>2. PICK x \in Made : Prepares(x) /\ Req(x).owner = o /\ Admitted(x)
    BY DEF AuthorInv
<1>3. Bound(x) /\ Published(x) /\ tasks[o].snap = SnapOf(x)
    BY <1>2 DEF Admitted, Published, Ready, Opened
<1>4. snap = SnapOf(x)
    BY <1>1, <1>2, <1>3, OneTuple DEF Bound, BindingDraft
<1>5. doc = DocOf(x)
    BY <1>1, <1>2, <1>3, OneTuple DEF Published, InputDraft
<1> QED BY <1>2, <1>3, <1>4, <1>5, Verified

\* A stream whose head is zero has no rows.
LEMMA NoRows ==
    ASSUME JournalInv, NEW s, ~(HeadOf(s) > 0)
    PROVE  DOMAIN Rows(s) = {}
BY SingleHead, EmptyTuple

\* the call an owner's stores fit
Fits(x) ==
    LET o == Req(x).owner
    IN  /\ HeadOf(BindingStream(o)) > 0 => Bound(x)
        /\ HeadOf(ContextStream(o)) > 0 => Contexted(x)
        /\ o \in DOMAIN sessions => Sessioned(x)
        /\ HeadOf(InputStream(o)) > 0 => Published(x)

\* Two calls bound to one owner are of one kind.
LEMMA SameKind ==
    ASSUME NEW x, NEW y, Bound(x), Bound(y), Req(x).owner = Req(y).owner
    PROVE  Req(x).op = Req(y).op
BY OneTuple DEF Bound, BindingDraft

\* Some request fits all that is there for its owner.
LEMMA SomeFits ==
    ASSUME AuthorInv, NEW o \in Owners
    PROVE  \E x \in Preparers(o) : Fits(x)
<1>1. ASSUME o \in DOMAIN sessions
      PROVE  \E x \in Made : Prepares(x) /\ Req(x).owner = o /\ Sessioned(x)
    BY <1>1 DEF AuthorInv
<1>2. CASE HeadOf(InputStream(o)) > 0
    <2>1. PICK x \in Made : Prepares(x) /\ Req(x).owner = o /\ Published(x)
        BY <1>2, InputAuthor
    <2>2. Bound(x) /\ (Req(x).op = "child" => Sessioned(x) /\ Contexted(x))
        BY <2>1 DEF Published, Ready, Opened, Sessioned
    <2>3. HeadOf(ContextStream(o)) > 0 => Req(x).op = "child"
        BY <2>1, <2>2, ContextAuthor, SameKind DEF Contexted
    <2>4. o \in DOMAIN sessions => Req(x).op = "child"
        BY <2>1, <2>2, <1>1, SameKind DEF Contexted, Sessioned
    <2> QED BY <2>1, <2>2, <2>3, <2>4 DEF Fits, Preparers
<1>3. CASE ~(HeadOf(InputStream(o)) > 0) /\ o \in DOMAIN sessions
    BY <1>1, <1>3 DEF Fits, Preparers, Sessioned, Contexted
<1>4. CASE ~(HeadOf(InputStream(o)) > 0) /\ o \notin DOMAIN sessions /\ HeadOf(ContextStream(o)) > 0
    BY <1>4, ContextAuthor DEF Fits, Preparers, Contexted
<1>5. CASE /\ ~(HeadOf(InputStream(o)) > 0) /\ o \notin DOMAIN sessions
           /\ ~(HeadOf(ContextStream(o)) > 0) /\ HeadOf(BindingStream(o)) > 0
    BY <1>5, BindingAuthor DEF Fits, Preparers
<1>6. CASE /\ ~(HeadOf(InputStream(o)) > 0) /\ o \notin DOMAIN sessions
           /\ ~(HeadOf(ContextStream(o)) > 0) /\ ~(HeadOf(BindingStream(o)) > 0)
    BY <1>6 DEF Fits, Preparers, Owners
<1> QED BY <1>2, <1>3, <1>4, <1>5, <1>6

\* So some request of an owner can always be finished.
LEMMA FinishableStores ==
    ASSUME JournalInv, AuthorInv
    PROVE  Finishable
<1>1. SUFFICES ASSUME NEW o \in Owners
               PROVE  \E x \in Preparers(o) :
        /\ \A i \in DOMAIN Rows(BindingStream(o)) :
               Rows(BindingStream(o))[i].body.snap.def = Req(x).def
        /\ \A i \in DOMAIN Rows(ContextStream(o)) : Rows(ContextStream(o))[i].body.msg = Req(x).msg
        /\ o \in DOMAIN sessions => sessions[o].msg = Req(x).msg
        /\ \A i \in DOMAIN Rows(InputStream(o)) :
               /\ Rows(InputStream(o))[i].body.doc.msg = Req(x).msg
               /\ Rows(InputStream(o))[i].body.doc.def = Req(x).def
    BY DEF Finishable
<1>2. PICK x \in Preparers(o) : Fits(x)
    BY SomeFits
<1>3. PICK r, snap : r = Req(x) /\ snap = SnapOf(x) /\ r.owner = o
    BY <1>2 DEF Preparers
<1>4. ASSUME NEW i \in DOMAIN Rows(BindingStream(o))
      PROVE  Rows(BindingStream(o))[i].body.snap.def = r.def
    <2>1. Rows(BindingStream(o)) = <<BindingDraft(o, r.op, snap)>>
        BY <1>2, <1>3, NoRows DEF Fits, Bound
    <2>2. Rows(BindingStream(o))[i] = BindingDraft(o, r.op, snap)
        BY <2>1, OneTuple
    <2> QED BY <1>3, <2>2 DEF BindingDraft, SnapOf
<1>5. ASSUME NEW i \in DOMAIN Rows(ContextStream(o))
      PROVE  Rows(ContextStream(o))[i].body.msg = r.msg
    <2>1. Rows(ContextStream(o)) = <<ContextDraft(o, snap, r.msg)>>
        BY <1>2, <1>3, NoRows DEF Fits, Contexted
    <2>2. Rows(ContextStream(o))[i] = ContextDraft(o, snap, r.msg)
        BY <2>1, OneTuple
    <2> QED BY <2>2 DEF ContextDraft
<1>6. o \in DOMAIN sessions => sessions[o].msg = r.msg
    BY <1>2, <1>3, SessionedVerified DEF Fits
<1>7. ASSUME NEW i \in DOMAIN Rows(InputStream(o))
      PROVE  /\ Rows(InputStream(o))[i].body.doc.msg = r.msg
             /\ Rows(InputStream(o))[i].body.doc.def = r.def
    <2>1. Rows(InputStream(o)) = <<InputDraft(o, r.op, snap, DocOf(x))>>
        BY <1>2, <1>3, NoRows DEF Fits, Published
    <2>2. Rows(InputStream(o))[i] = InputDraft(o, r.op, snap, DocOf(x))
        BY <2>1, OneTuple
    <2>3. Rows(InputStream(o))[i].body.doc = DocumentOf(r, snap)
        BY <1>3, <2>2 DEF InputDraft, DocOf
    <2> QED BY <2>3 DEF DocumentOf
<1> QED BY <1>2, <1>3, <1>4, <1>5, <1>6, <1>7

\* The stores stay usable: registry and catalog load, an admitted Task's input verifies
\* after any restart, and no crash leaves an owner that no request can prepare any more.
THEOREM StoresTheorem == Spec => []StoresUsable
<1>1. Shape /\ JournalInv /\ RegistryInv /\ CatalogInv /\ AuthorInv => StoresUsable
    <2>1. SUFFICES ASSUME Shape, JournalInv, RegistryInv, CatalogInv, AuthorInv PROVE StoresUsable
        OBVIOUS
    <2>2. InstanceUnique
        BY <2>1 DEF InstanceUnique, RegistryInv, RegistryCall, AuthorInv
    <2>3. CatalogReplays
        BY <2>1 DEF CatalogReplays, CatalogInv
    <2> QED BY <2>1, <2>2, <2>3, FinishableStores, AdmittedVerify DEF StoresUsable
<1> QED BY <1>1, ShapeTheorem, JournalTheorem, RegistryTheorem, CatalogTheorem, AuthorTheorem, PTL
===========
