---------------------------- MODULE RestorePlan ----------------------------
(***************************************************************************)
(* computeRestorePlan and applyRestorePlan (domain/snapshot/diff-engine.ts): *)
(* from any snapshot and any present content of one section, the requests  *)
(* rollback_change sends, one by one, with failures and repeated attempts. *)
(*                                                                         *)
(* A record has a name, its semantic key (SEMANTIC_KEYS), other fields     *)
(* that may be absent, and may be dynamic, that is, made by the router.    *)
(* Runtime fields are stripped on both sides and are left out.             *)
(***************************************************************************)
EXTENDS Naturals, FiniteSets

CONSTANTS
    Id,             \* the ids the router gives to records
    Name, Field, Value,
    InitialIds,     \* bound of the model: ids in use before the rollback
    Paths,          \* the kinds of section: see Path
    MaxAttempts     \* bound of the model: rollbacks tried

\* keyed: SEMANTIC_KEYS has the path; user: it is the user section; unique: the
\* router refuses a second record of the same name; singleton: a set menu.
Path == [keyed : BOOLEAN, user : BOOLEAN, unique : BOOLEAN, singleton : BOOLEAN]

ASSUME PathsAssumption == Paths \subseteq Path
ASSUME IdsAssumption == InitialIds \subseteq Id /\ InitialIds # {}

VARIABLES
    path,
    before,     \* the snapshot: ids and records
    table,      \* the section on the router
    plan,       \* what is left of the restore plan
    pc,         \* "idle", "applying", "restored"
    attempts,
    first       \* history: the section as the first rollback found it

restoreVars == <<path, before, table, plan, pc, attempts, first>>

Partial(S, T) == UNION {[D -> T] : D \in SUBSET S}
Fields == Partial(Field, Value)
Rec == [name : Name, fields : Fields, dynamic : BOOLEAN]

\* The records of a set menu have no id; the one there is bears TheId here.
TheId == CHOOSE i \in InitialIds : TRUE

\* normalizeForDiff: dynamic records are left out.
Static(t) == {i \in DOMAIN t : ~t[i].dynamic}

UniqueNames(t) == \A i, j \in Static(t) : t[i].name = t[j].name => i = j

\* The sections a router can hold, and the snapshots of them: takeSnapshot
\* stores the normalized records.
Tables == Partial(InitialIds, Rec)
Snapshots == Partial(InitialIds, {r \in Rec : ~r.dynamic})

Possible(p, t) ==
    /\ p.unique => UniqueNames(t)
    /\ p.singleton => DOMAIN t = {TheId} /\ ~t[TheId].dynamic

NoPlan == [remove |-> {}, create |-> {}, update |-> {}]

RestoreInit ==
    /\ path \in Paths
    /\ table \in Tables /\ Possible(path, table)
    /\ before \in Snapshots /\ Possible(path, before)
    /\ path.singleton => table[TheId].name = before[TheId].name
    /\ plan = NoPlan /\ pc = "idle" /\ attempts = 0
    /\ first = table

-----------------------------------------------------------------------------

Equal(a, b) == a.name = b.name /\ a.fields = b.fields

\* The plan of matching by semantic key.
PlanByKey ==
    LET current == Static(table)
    IN  [remove |-> {i \in current : \A j \in DOMAIN before : before[j].name # table[i].name},
         create |-> {j \in DOMAIN before : \A i \in current : before[j].name # table[i].name},
         update |-> {u \in current \X DOMAIN before :
                        /\ table[u[1]].name = before[u[2]].name
                        /\ ~Equal(table[u[1]], before[u[2]])}]

\* The plan of matching whole records (signatures).
PlanBySignature ==
    LET current == Static(table)
    IN  [remove |-> {i \in current : \A j \in DOMAIN before : ~Equal(table[i], before[j])},
         create |-> {j \in DOMAIN before : \A i \in current : ~Equal(table[i], before[j])},
         update |-> {}]

\* A set menu is written back whole.
PlanSingleton ==
    [NoPlan EXCEPT !.update =
        {u \in Static(table) \X DOMAIN before : ~Equal(table[u[1]], before[u[2]])}]

\* Mutant: keys are used even if records share one.
KeysAlways == path.keyed

\* Keys are of use if no two records on one side share one.
CanUseKeys == path.keyed /\ UniqueNames(before) /\ UniqueNames(table)

\* Mutant: deleted users are created again.
RecreateUsers(p) == p

\* A user's password is not in the snapshot.
applyUserRestriction(p) == IF path.user THEN [p EXCEPT !.create = {}] ELSE p

computeRestorePlan ==
    IF path.singleton THEN PlanSingleton
    ELSE applyUserRestriction(IF CanUseKeys THEN PlanByKey ELSE PlanBySignature)

\* rollback_change reads the section and compares it with the snapshot.
StartRollback ==
    /\ pc = "idle" /\ attempts < MaxAttempts
    /\ attempts' = attempts + 1
    /\ plan' = computeRestorePlan
    /\ pc' = "applying"
    /\ UNCHANGED <<path, before, table, first>>

-----------------------------------------------------------------------------
(* applyRestorePlan: removals, then creations, then updates                *)

Without(i) == [k \in DOMAIN table \ {i} |-> table[k]]

With(i, r) == [k \in DOMAIN table \cup {i} |-> IF k = i THEN r ELSE table[k]]

\* Fields that the request does not name keep their values.
Patched(i, r) ==
    LET named == DOMAIN r.fields
        kept == DOMAIN table[i].fields \ named
    IN  [table[i] EXCEPT
            !.name = r.name,
            !.fields = [f \in named \cup kept |->
                           IF f \in named THEN r.fields[f] ELSE table[i].fields[f]]]

\* Creating a second record of a name fails where names are unique.
Refused(r) == path.unique /\ \E i \in Static(table) : table[i].name = r.name

\* The request is answered and the rest follows, or its answer is lost and the
\* rollback fails with it.
GoOn(p) ==
    \/ plan' = p /\ UNCHANGED pc
    \/ plan' = NoPlan /\ pc' = "idle"

Remove ==
    /\ pc = "applying"
    /\ \E i \in plan.remove :
          /\ table' = Without(i)
          /\ GoOn([plan EXCEPT !.remove = @ \ {i}])
    /\ UNCHANGED <<path, before, attempts, first>>

\* Mutant: the creations do not wait for the removals.
CreatesFirst == pc = "applying"

\* The creations are next in the order of applyRestorePlan.
CreatesNext == pc = "applying" /\ plan.remove = {}

Create ==
    /\ CreatesNext
    /\ \E j \in plan.create, i \in Id \ DOMAIN table :
          /\ ~Refused(before[j])
          /\ table' = With(i, before[j])
          /\ GoOn([plan EXCEPT !.create = @ \ {j}])
    /\ UNCHANGED <<path, before, attempts, first>>

Update ==
    /\ pc = "applying" /\ plan.remove = {} /\ plan.create = {}
    /\ \E u \in plan.update :
          /\ table' = With(u[1], Patched(u[1], before[u[2]]))
          /\ GoOn([plan EXCEPT !.update = @ \ {u}])
    /\ UNCHANGED <<path, before, attempts, first>>

\* A request fails without effect; the caller may roll back once more.
Fail ==
    /\ pc = "applying" /\ plan # NoPlan
    /\ plan' = NoPlan /\ pc' = "idle"
    /\ UNCHANGED <<path, before, table, attempts, first>>

Done ==
    /\ pc = "applying" /\ plan = NoPlan
    /\ pc' = "restored"
    /\ UNCHANGED <<path, before, table, plan, attempts, first>>

RestoreNext == StartRollback \/ Remove \/ Create \/ Update \/ Fail \/ Done

RestoreSpec == RestoreInit /\ [][RestoreNext]_restoreVars

-----------------------------------------------------------------------------
(* Properties                                                              *)

\* Record r of the section carries all that record b of the snapshot says.
Carries(r, b) ==
    /\ r.name = b.name
    /\ \A f \in DOMAIN b.fields : f \in DOMAIN r.fields /\ r.fields[f] = b.fields[f]

\* A rollback that completes, be it after others that stopped anywhere, leaves
\* a record for each record of the snapshot with all of its fields, and none
\* that has no counterpart in the snapshot.  Only deleted users stay deleted.
RestoresContent ==
    pc = "restored" =>
        /\ \A j \in DOMAIN before :
              \/ \E i \in Static(table) : Carries(table[i], before[j])
              \/ path.user
        /\ \A i \in Static(table) : \E j \in DOMAIN before : Carries(table[i], before[j])

\* No user comes back without a password: a rollback never adds a user.
AddsNoUser ==
    path.user => DOMAIN table \subseteq DOMAIN first

\* What the router made itself and what is as it was in the snapshot is never
\* touched, not even between two requests.
KeepsWhatMatches ==
    \A i \in DOMAIN first :
        first[i].dynamic \/ (\E j \in DOMAIN before : Equal(first[i], before[j]))
            => i \in DOMAIN table /\ table[i] = first[i]

\* No creation whose turn it is in the order of applyRestorePlan is refused for
\* the name of a record, not even of one that is on its way out: a rollback fails
\* only if a request does.
NamesAreFree ==
    CreatesNext => \A j \in plan.create : ~Refused(before[j])

\* change-management-tools.ts:549: "Restore device state to before a write":
\* the records are those of the snapshot, as many of each.
RestoresExactly ==
    pc = "restored" /\ ~path.user =>
        \A r \in Rec :
            Cardinality({i \in Static(table) : table[i] = r})
                = Cardinality({j \in DOMAIN before : before[j] = r})
=============================================================================
