----------------------------- MODULE Management -----------------------------
(***************************************************************************)
(* The management API (internal/api/server.go) over either kind of store,   *)
(* the registry of SDK keys (internal/sdkauth), and the start and the end   *)
(* of the process (cmd/server/main.go).                                     *)
(*                                                                         *)
(* Handlers run concurrently and take several store calls each, with no     *)
(* lock across them.  A crash loses the handlers, the registry and the hub, *)
(* and the store too if it is the in-memory one.  Here projects and         *)
(* environments come and go, so calls fail; Propagation has the steps of    *)
(* Build and Publish, which are one step each here.  The audit log is       *)
(* written and never read by a handler, and is left out.                    *)
(***************************************************************************)
EXTENDS StoreData, FiniteSets, SequencesExt

CONSTANTS
  Handlers,      \* requests of several steps that may be in progress at once
  Keys,          \* values that createSDKKey gives out (distinct times)
  DemoKey,       \* the key of seedDemoData
  DemoProject, DemoEnv,
  BodyKeys,      \* the sdk_keys that an environment may have in a body
  MaxRequests,   \* bound on the number of requests
  MaxCrashes     \* bound on the number of crashes

Mem == INSTANCE MemoryStore
Sql == INSTANCE SqlStore

ASSUME ManagementAssumption ==
  /\ DemoProject \in Projects /\ DemoEnv \in EnvKeys
  /\ DemoKey \notin Keys
  /\ MaxRequests \in Nat /\ MaxCrashes \in Nat
  /\ BodyKeys \subseteq Seq(Keys \cup {DemoKey})
  /\ Absent \notin Seq(Keys \cup {DemoKey}) \cup Nat

VARIABLES
  backend,     \* "memory" or "sql": which store NewStore opened
  db,          \* the store
  registry,    \* SDK key -> "none", "active" or "revoked"     (Authenticator)
  boot,        \* what main does next: "project", "env", "register", "serving"
  pc,          \* handler -> where it is
  loc,         \* handler -> its local variables
  requests,    \* requests so far
  crashes,     \* crashes so far
  spent,       \* key values given out
  published,   \* scope -> the highest version given to Hub.Publish
  gone,        \* history: scopes that this process saw removed
  issued,      \* history: keys whose creation was answered
  revoked,     \* history: issued keys whose revocation was answered
  owed         \* history: handler -> scope -> version when the handler wrote,
               \*          while the environment is there

httpVars    == <<pc, loc, requests, spent>>
historyVars == <<issued, revoked>>
vars == <<backend, db, registry, boot, httpVars, crashes, published, gone,
          historyVars, owed>>

AllKeys == Keys \cup {DemoKey}
NoLocals == [scope |-> Absent, key |-> Absent, keys |-> <<>>, request |-> 0,
             todo |-> {}, version |-> 0]
NothingOwed == [s \in Scopes |-> Absent]

-----------------------------------------------------------------------------
(***************************************************************************)
(* The ConfigStore interface.                                               *)
(***************************************************************************)
CreateProject(p, es) ==
  IF backend = "memory" THEN Mem!CreateProject(db, p, es)
                        ELSE Sql!CreateProject(db, p, es)
UpdateProject(p, es) ==
  IF backend = "memory" THEN Mem!UpdateProject(db, p, es)
                        ELSE Sql!UpdateProject(db, p, es)
DeleteProject(p) ==
  IF backend = "memory" THEN Mem!DeleteProject(db, p)
                        ELSE Sql!DeleteProject(db, p)
FindsEnvironment(s) ==
  IF backend = "memory" THEN Mem!FindsEnvironment(db, s)
                        ELSE Sql!FindsEnvironment(db, s)
ListEnvironments(p) ==
  IF backend = "memory" THEN Mem!ListEnvironments(db, p)
                        ELSE Sql!ListEnvironments(db, p)
CreateEnvironment(s, ks) ==
  IF backend = "memory" THEN Mem!CreateEnvironment(db, s, ks)
                        ELSE Sql!CreateEnvironment(db, s, ks)
UpdateEnvironment(s, ks) ==
  IF backend = "memory" THEN Mem!UpdateEnvironment(db, s, ks)
                        ELSE Sql!UpdateEnvironment(db, s, ks)
DeleteEnvironment(s) ==
  IF backend = "memory" THEN Mem!DeleteEnvironment(db, s)
                        ELSE Sql!DeleteEnvironment(db, s)
UpsertFlagConfig(s, f, n) ==
  IF backend = "memory" THEN Mem!UpsertFlagConfig(db, s, f, n)
                        ELSE Sql!UpsertFlagConfig(db, s, f, n)
IncrementEnvVersion(s) ==
  IF backend = "memory" THEN Mem!IncrementEnvVersion(db, s)
                        ELSE Sql!IncrementEnvVersion(db, s)
Builds(s) ==
  IF backend = "memory" THEN Mem!FindsVersion(db, s)
                        ELSE Sql!FindsVersion(db, s)
Reopened == IF backend = "memory" THEN Mem!Reopen(db) ELSE Sql!Reopen(db)

\* The six calls that change a flag or a segment of a project.
FlagCalls(p, f) ==
  IF backend = "memory"
    THEN {Mem!CreateFlag(db, p, f), Mem!UpdateFlag(db, p, f), Mem!DeleteFlag(db, p, f)}
    ELSE {Sql!CreateFlag(db, p, f), Sql!UpdateFlag(db, p, f), Sql!DeleteFlag(db, p, f)}
SegmentCalls(p, g) ==
  IF backend = "memory"
    THEN {Mem!CreateSegment(db, p, g), Mem!UpdateSegment(db, p, g),
          Mem!DeleteSegment(db, p, g)}
    ELSE {Sql!CreateSegment(db, p, g), Sql!UpdateSegment(db, p, g),
          Sql!DeleteSegment(db, p, g)}

\* The store becomes next.  What is owed for an environment is owed no more
\* when the environment or its version is removed.
Writes(next) ==
  LET There(s) == next.envs[s] # Absent /\ next.versions[s] # Absent
      Removed(s) == \/ db.envs[s] # Absent /\ next.envs[s] = Absent
                    \/ db.versions[s] # Absent /\ next.versions[s] = Absent
  IN  /\ db' = next
      /\ gone' = gone \cup {s \in Scopes : Removed(s)}
      /\ owed' = [h \in Handlers |->
                    [s \in Scopes |-> IF There(s) THEN owed[h][s] ELSE Absent]]

-----------------------------------------------------------------------------
Init ==
  /\ backend \in {"memory", "sql"}
  /\ db = EmptyStore
  /\ registry = [k \in AllKeys |-> "none"]
  /\ boot = "project"
  /\ pc = [h \in Handlers |-> "idle"]
  /\ loc = [h \in Handlers |-> NoLocals]
  /\ requests = 0
  /\ crashes = 0
  /\ spent = {}
  /\ published = [s \in Scopes |-> 0]
  /\ gone = {}
  /\ issued = {}
  /\ revoked = {}
  /\ owed = [h \in Handlers |-> NothingOwed]

-----------------------------------------------------------------------------
(***************************************************************************)
(* main: seedDemoData runs before the server listens, and its error is only *)
(* logged.                                                                  *)
(***************************************************************************)
SeedProject ==
  /\ boot = "project"
  /\ LET r == CreateProject(DemoProject, [e \in EnvKeys |-> Absent]) IN
       /\ Writes(r.db)
       /\ boot' = IF r.ok THEN "env" ELSE "serving"
  /\ UNCHANGED <<backend, registry, httpVars, crashes, published, historyVars>>

SeedEnvironment ==
  /\ boot = "env"
  /\ LET r == CreateEnvironment(<<DemoProject, DemoEnv>>, <<DemoKey>>) IN
       /\ Writes(r.db)
       /\ boot' = IF r.ok THEN "register" ELSE "serving"
  /\ UNCHANGED <<backend, registry, httpVars, crashes, published, historyVars>>

RegisterDemoKeys ==
  /\ boot = "register"
  /\ boot' = "serving"
  /\ registry' = [registry EXCEPT ![DemoKey] = "active"]
  /\ UNCHANGED <<backend, db, httpVars, crashes, published, gone, historyVars, owed>>

StoredKeys(store) ==
  UNION {ToSet(store.envs[s]) : s \in {t \in Scopes : store.envs[t] # Absent}}

\* Mutant: the registry is filled from the store at the start.
Crash_LoadKeys ==
  /\ crashes < MaxCrashes
  /\ crashes' = crashes + 1
  /\ boot' = "project"
  /\ db' = Reopened
  /\ registry' = [k \in AllKeys |->
                    IF k \in StoredKeys(Reopened) THEN "active" ELSE "none"]
  /\ pc' = [h \in Handlers |-> "idle"]
  /\ loc' = [h \in Handlers |-> NoLocals]
  /\ published' = [s \in Scopes |-> 0]
  /\ gone' = {}
  /\ owed' = [h \in Handlers |-> NothingOwed]
  /\ UNCHANGED <<backend, requests, spent, historyVars>>

\* The process ends, at any moment, and is started again: main opens the store
\* and makes a new hub and a new, empty registry.
Crash ==
  /\ crashes < MaxCrashes
  /\ crashes' = crashes + 1
  /\ boot' = "project"
  /\ db' = Reopened
  /\ registry' = [k \in AllKeys |-> "none"]
  /\ pc' = [h \in Handlers |-> "idle"]
  /\ loc' = [h \in Handlers |-> NoLocals]
  /\ published' = [s \in Scopes |-> 0]
  /\ gone' = {}
  /\ owed' = [h \in Handlers |-> NothingOwed]
  /\ UNCHANGED <<backend, requests, spent, historyVars>>

-----------------------------------------------------------------------------
(***************************************************************************)
(* Handlers of one store call: projects and environments.                   *)
(***************************************************************************)
Request == boot = "serving" /\ requests < MaxRequests /\ requests' = requests + 1

\* A request that is refused changes nothing and is left out, here and below.
OneCall(r) ==
  /\ Request
  /\ r.ok
  /\ Writes(r.db)
  /\ UNCHANGED <<backend, registry, boot, pc, loc, spent, crashes, published,
                 historyVars>>

\* The environments in the body of a project, each with its list of keys.
ProjectBodies == [EnvKeys -> BodyKeys \cup {Absent}]

HandleCreateProject == \E p \in Projects, es \in ProjectBodies : OneCall(CreateProject(p, es))
HandleUpdateProject == \E p \in Projects, es \in ProjectBodies : OneCall(UpdateProject(p, es))
HandleDeleteProject == \E p \in Projects : OneCall(DeleteProject(p))
HandleCreateEnvironment == \E s \in Scopes, ks \in BodyKeys :
                             OneCall(CreateEnvironment(s, ks))
HandleUpdateEnvironment == \E s \in Scopes, ks \in BodyKeys :
                             OneCall(UpdateEnvironment(s, ks))
HandleDeleteEnvironment == \E s \in Scopes : OneCall(DeleteEnvironment(s))

-----------------------------------------------------------------------------
(***************************************************************************)
(* SDK keys: read the environment, change the list, write the environment,  *)
(* and only then the registry.                                              *)
(***************************************************************************)
keyUnchanged == <<backend, boot, crashes, published>>

Goto(h, label) == pc' = [pc EXCEPT ![h] = label]

Answer(h) == Goto(h, "idle") /\ loc' = [loc EXCEPT ![h] = NoLocals]

\* createSDKKey up to GetEnvironment; without the environment it is refused.
CreateSDKKey(h) ==
  /\ pc[h] = "idle"
  /\ Request
  /\ \E s \in Scopes, k \in Keys \ spent :
       /\ FindsEnvironment(s)
       /\ spent' = spent \cup {k}
       /\ loc' = [loc EXCEPT ![h] =
                    [NoLocals EXCEPT !.scope = s, !.key = k, !.keys = db.envs[s]]]
  /\ Goto(h, "append")
  /\ UNCHANGED <<keyUnchanged, db, registry, gone, historyVars, owed>>

\* env.SDKKeys = append(env.SDKKeys, newKey).  GetEnvironment of the
\* in-memory store copies the slice, not its array.  When the array has room,
\* the key goes into a place that another handler, or the store, may be using
\* for the key which it appended to the same list.
Overwrite(ks, h) ==
  LET i == Len(loc[h].keys) + 1
  IN  IF Len(ks) >= i /\ SubSeq(ks, 1, i - 1) = loc[h].keys
        THEN [ks EXCEPT ![i] = loc[h].key] ELSE ks

AppendSDKKey(h) ==
  /\ pc[h] = "append"
  /\ Goto(h, "update")
  /\ LET appended == [loc EXCEPT ![h].keys = Append(@, loc[h].key)]
     IN  \/ loc' = appended /\ UNCHANGED db
         \/ /\ backend = "memory"
            /\ loc' = [g \in Handlers |->
                         IF /\ g # h /\ pc[g] \in {"append", "update"}
                              /\ loc[g].scope = loc[h].scope
                           THEN [loc[g] EXCEPT !.keys = Overwrite(@, h)]
                           ELSE appended[g]]
            /\ db' = IF db.envs[loc[h].scope] = Absent THEN db
                     ELSE [db EXCEPT !.envs[loc[h].scope] = Overwrite(@, h)]
  /\ UNCHANGED <<keyUnchanged, registry, requests, spent, gone, historyVars, owed>>

\* UpdateEnvironment of createSDKKey and of revokeSDKKey.
StoreKeys(h, next) ==
  LET r == UpdateEnvironment(loc[h].scope, loc[h].keys) IN
  /\ Writes(r.db)
  /\ IF r.ok THEN Goto(h, next) /\ UNCHANGED loc ELSE Answer(h)
  /\ UNCHANGED <<keyUnchanged, registry, requests, spent, historyVars>>

UpdateForCreate(h) == pc[h] = "update" /\ StoreKeys(h, "register")
UpdateForRevoke(h) == pc[h] = "remove" /\ StoreKeys(h, "revoke")

\* Authenticator.Register, and the answer.
RegisterSDKKey(h) ==
  /\ pc[h] = "register"
  /\ registry' = [registry EXCEPT ![loc[h].key] = "active"]
  /\ issued' = issued \cup {loc[h].key}
  /\ Answer(h)
  /\ UNCHANGED <<keyUnchanged, db, requests, spent, gone, revoked, owed>>

\* newKeys: the keys of a list without k, in the order of the list.
KeysWithout(ks, k) ==
  LET kept[i \in 0 .. Len(ks)] ==
        IF i = 0 THEN <<>>
        ELSE IF ks[i] = k THEN kept[i - 1] ELSE Append(kept[i - 1], ks[i])
  IN  kept[Len(ks)]

\* revokeSDKKey up to GetEnvironment: a key that is not in the list is not
\* found, whatever the registry says.
RevokeSDKKey(h) ==
  /\ pc[h] = "idle"
  /\ Request
  /\ \E s \in Scopes, k \in AllKeys :
       /\ FindsEnvironment(s)
       /\ k \in ToSet(db.envs[s])
       /\ loc' = [loc EXCEPT ![h] =
                    [NoLocals EXCEPT !.scope = s, !.key = k,
                                     !.keys = KeysWithout(db.envs[s], k)]]
  /\ Goto(h, "remove")
  /\ UNCHANGED <<keyUnchanged, db, registry, spent, gone, historyVars, owed>>

\* Authenticator.Revoke, and the answer.
RevokeInRegistry(h) ==
  /\ pc[h] = "revoke"
  /\ registry' = [registry EXCEPT ![loc[h].key] =
                    IF @ = "none" THEN "none" ELSE "revoked"]
  /\ revoked' = revoked \cup ({loc[h].key} \cap issued)
  /\ Answer(h)
  /\ UNCHANGED <<keyUnchanged, db, requests, spent, gone, issued, owed>>

\* authenticateSDK.
Lookup(k) == registry[k] = "active"

-----------------------------------------------------------------------------
(***************************************************************************)
(* Changes of flags, segments and configs: write, then version, build and   *)
(* publish.                                                                 *)
(***************************************************************************)
publishUnchanged == <<backend, boot, registry, crashes, historyVars>>

\* What a successful write to the scopes ss owes: a higher version.
Owes(next, ss) ==
  [s \in Scopes |->
     IF s \in ss /\ next.envs[s] # Absent THEN next.versions[s] ELSE Absent]

\* A call that succeeds is a request that goes on at next; owed is set.
WritesFor(h, r, ss, next, l) ==
  /\ pc[h] = "idle"
  /\ Request
  /\ r.ok
  /\ db' = r.db
  /\ owed' = [owed EXCEPT ![h] = Owes(r.db, ss)]
  /\ Goto(h, next)
  /\ loc' = [loc EXCEPT ![h] = l]
  /\ UNCHANGED <<publishUnchanged, spent, published, gone>>

\* createFlag, updateFlag, deleteFlag and the same for segments.
ChangeDefinition(h) ==
  \E p \in Projects :
    \E r \in (UNION {FlagCalls(p, f) : f \in FlagKeys})
             \cup (UNION {SegmentCalls(p, g) : g \in SegKeys}) :
      WritesFor(h, r, ScopesOf(p), "list", [NoLocals EXCEPT !.scope = <<p, Absent>>])

\* publishFlagChange: ListEnvironments; nothing is published when it fails.
ListForPublish(h) ==
  /\ pc[h] = "list"
  /\ loc' = [loc EXCEPT ![h].todo = ListEnvironments(loc[h].scope[1])]
  /\ Goto(h, "loop")
  /\ UNCHANGED <<publishUnchanged, db, requests, spent, published, gone, owed>>

Increments(h, s, onError) ==
  LET r == IncrementEnvVersion(s) IN
  /\ Writes(r.db)
  /\ loc' = [loc EXCEPT ![h].scope = s, ![h].todo = @ \ {s[2]},
                        ![h].version = r.version]
  /\ Goto(h, IF r.ok THEN "build" ELSE onError)
  /\ UNCHANGED <<publishUnchanged, requests, spent, published>>

\* Mutant: the loop ends at the first environment that has no version.
IncrementNext_Break(h) ==
  /\ pc[h] = "loop"
  /\ \E e \in loc[h].todo : Increments(h, <<loc[h].scope[1], e>>, "answer")

IncrementNext(h) ==
  /\ pc[h] = "loop"
  /\ \E e \in loc[h].todo : Increments(h, <<loc[h].scope[1], e>>, "loop")

\* Build, and on to Publish; the loop goes on without it when Build fails.
BuildNext(h) ==
  /\ pc[h] \in {"build", "buildConfig"}
  /\ Goto(h, IF Builds(loc[h].scope) THEN "publish"
             ELSE IF pc[h] = "build" THEN "loop" ELSE "answer")
  /\ UNCHANGED <<publishUnchanged, db, loc, requests, spent, published, gone, owed>>

PublishNext(h) ==
  /\ pc[h] = "publish"
  /\ published' = [published EXCEPT ![loc[h].scope] =
                     IF @ < loc[h].version THEN loc[h].version ELSE @]
  /\ Goto(h, IF loc[h].request = 0 THEN "loop" ELSE "answer")
  /\ UNCHANGED <<publishUnchanged, db, loc, requests, spent, gone, owed>>

\* putFlagConfig up to UpsertFlagConfig.
PutFlagConfig(h) ==
  \E s \in Scopes, f \in FlagKeys :
    WritesFor(h, UpsertFlagConfig(s, f, requests + 1), {s}, "increment",
              [NoLocals EXCEPT !.scope = s, !.key = f, !.request = requests + 1])

\* newVersion, _ := IncrementEnvVersion: an error gives version 0.
IncrementForConfig(h) ==
  LET r == IncrementEnvVersion(loc[h].scope) IN
  /\ pc[h] = "increment"
  /\ Writes(r.db)
  /\ loc' = [loc EXCEPT ![h].version = r.version]
  /\ Goto(h, "buildConfig")
  /\ UNCHANGED <<publishUnchanged, requests, spent, published>>

Respond(h) ==
  /\ \/ pc[h] = "loop" /\ loc[h].todo = {}
     \/ pc[h] = "answer"
  /\ Answer(h)
  /\ owed' = [owed EXCEPT ![h] = NothingOwed]
  /\ UNCHANGED <<publishUnchanged, db, requests, spent, published, gone>>

-----------------------------------------------------------------------------
KeyStep(h) ==
  \/ CreateSDKKey(h) \/ AppendSDKKey(h) \/ UpdateForCreate(h) \/ RegisterSDKKey(h)
  \/ RevokeSDKKey(h) \/ UpdateForRevoke(h) \/ RevokeInRegistry(h)

PublishStep(h) ==
  \/ ChangeDefinition(h) \/ ListForPublish(h) \/ IncrementNext(h)
  \/ PutFlagConfig(h) \/ IncrementForConfig(h)
  \/ BuildNext(h) \/ PublishNext(h) \/ Respond(h)

Next ==
  \/ SeedProject \/ SeedEnvironment \/ RegisterDemoKeys \/ Crash
  \/ HandleCreateProject \/ HandleUpdateProject \/ HandleDeleteProject
  \/ HandleCreateEnvironment \/ HandleUpdateEnvironment \/ HandleDeleteEnvironment
  \/ \E h \in Handlers : KeyStep(h) \/ PublishStep(h)

Spec == Init /\ [][Next]_vars

-----------------------------------------------------------------------------
\* Types, and what the in-memory store relies on: nothing is kept for a
\* project that does not exist (memory.go looks its maps up by project and
\* takes a missing map for a missing project).
TypeOK ==
  /\ backend \in {"memory", "sql"}
  /\ db.projects \subseteq Projects
  /\ \A s \in Scopes : /\ db.envs[s] \in Seq(AllKeys) \cup {Absent}
                       /\ db.versions[s] \in Nat \cup {Absent}
  /\ registry \in [AllKeys -> {"none", "active", "revoked"}]
  /\ spent \subseteq Keys
  /\ published \in [Scopes -> Nat]
  /\ backend = "memory" =>
       /\ \A x \in db.flags \cup db.segments : x[1] \in db.projects
       /\ \A s \in Scopes : s[1] \in db.projects \/ db.versions[s] = Absent
       /\ \A c \in ConfigKeys : c[1] \in db.projects \/ db.configs[c] = Absent

\* Once revokeSDKKey has answered for a key whose creation had been answered,
\* authenticateSDK never accepts that key again: not when a concurrent
\* createSDKKey writes the old list back into the store, and not after a
\* restart on a store that still, or again, lists the key.
RevocationHolds == \A k \in revoked : ~Lookup(k)

\* When a change of a flag, a segment or a config is about to be answered,
\* every environment of the project that was there when the change was written
\* and has been there since has a higher version than it had then; an
\* environment that fails (removed meanwhile, or listed without a version) does
\* not keep the others from theirs.
ChangesAreVersioned ==
  \A h \in Handlers :
    pc[h] = "answer" \/ (pc[h] = "loop" /\ loc[h].todo = {})
      => \A s \in Scopes : owed[h][s] # Absent => db.versions[s] > owed[h][s]

\* putFlagConfig ignores the error of IncrementEnvVersion and may then publish
\* a message of version 0, which every stream skips.  Nothing is lost by it:
\* whenever that happens the config it wrote is no longer in the store.
ZeroVersionLosesNothing ==
  \A h \in Handlers :
    pc[h] = "publish" /\ loc[h].version = 0
      => LET s == loc[h].scope IN
         db.configs[<<s[1], s[2], loc[h].key>>] # loc[h].request

\* What has been published for an environment is never ahead of its version in
\* the store, as long as this process has not seen the environment removed: a
\* stream that starts at the stored version skips nothing new.
HubBehindStore ==
  \A s \in Scopes \ gone :
    db.envs[s] # Absent /\ db.versions[s] # Absent
      => published[s] <= db.versions[s]
=============================================================================
