---------------------------- MODULE MCPreparation ----------------------------
EXTENDS Preparation

Root(o, d, m) == [op |-> "root", owner |-> o, def |-> d, msg |-> m]
Child(o, d, m) == [op |-> "child", owner |-> o, def |-> d, msg |-> m, parent |-> "r"]
Register(k, m) == [op |-> "register", key |-> k, meta |-> m]
Revoke(k, by) == [op |-> "revoke", key |-> k, by |-> by]
Load(o, k) == [op |-> "load", owner |-> o, key |-> k]

MCAcl == [d \in {"d1", "d2"} |-> IF d = "d1" THEN {"k1"} ELSE {"k1", "k2"}]
Base == [skills |-> FALSE, capacity |-> 3, refuses |-> FALSE, crashes |-> 0]
With(base, calls) == [calls |-> calls, skills |-> base.skills, capacity |-> base.capacity,
                      refuses |-> base.refuses, crashes |-> base.crashes]
\* One owner asked for with another definition, and with another input; more
\* owners than the registry holds; a child asked for exactly twice and with
\* another input; a Skill revoked under a preparation and under skill.load;
\* the catalog's own races, at its limit.
MCConfigs ==
    {With([Base EXCEPT !.crashes = 1],
          <<Root("r", "d1", "m1"), Root("r", "d2", "m1"), Root("s", "d1", "m1")>>),
     With([Base EXCEPT !.crashes = 1, !.refuses = TRUE],
          <<Root("r", "d1", "m1"), Root("r", "d1", "m2"), Root("r", "d1", "m1")>>),
     With([Base EXCEPT !.capacity = 2],
          <<Root("r", "d1", "m1"), Root("s", "d1", "m1"), Root("t", "d1", "m1")>>),
     With(Base, <<Root("r", "d1", "m1"), Root("s", "d1", "m1"), Root("t", "d1", "m1")>>),
     With([Base EXCEPT !.crashes = 2],
          <<Root("r", "d1", "m1"), Child("c", "d1", "m1"), Child("c", "d1", "m2")>>),
     With([Base EXCEPT !.crashes = 1],
          <<Root("r", "d1", "m1"), Child("c", "d1", "m1"), Child("c", "d1", "m1")>>),
     With([Base EXCEPT !.skills = TRUE, !.crashes = 1],
          <<Root("r", "d1", "m1"), Register("k1", "a"), Revoke("k1", "o1"), Load("r", "k1")>>),
     With([Base EXCEPT !.skills = TRUE],
          <<Root("r", "d1", "m1"), Root("r", "d1", "m1"), Register("k1", "a"), Revoke("k1", "o1")>>),
     With([Base EXCEPT !.skills = TRUE],
          <<Root("r", "d2", "m1"), Child("c", "d1", "m1"), Register("k1", "a"), Register("k2", "a"),
            Revoke("k1", "o1")>>),
     With([Base EXCEPT !.crashes = 1],
          <<Register("k1", "a"), Register("k1", "b"), Register("k2", "a"), Revoke("k1", "o1"),
            Revoke("k1", "o2")>>),
     With([Base EXCEPT !.crashes = 1],
          <<Register("k1", "a"), Register("k2", "a"), Register("k3", "a"), Revoke("k1", "o1"),
            Revoke("k2", "o1")>>)}
==============================================================================
