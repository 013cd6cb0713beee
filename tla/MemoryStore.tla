---------------------------- MODULE MemoryStore ----------------------------
(***************************************************************************)
(* internal/store/memory.go.  Each method holds the store's lock from its   *)
(* first statement to its last, so a call is one step.  The maps flags,     *)
(* segments, configs and versions of a project exist exactly while the      *)
(* project does, which is why nearly every method fails without it.         *)
(***************************************************************************)
EXTENDS StoreData

\* A new project, with the environments that the body embeds: es gives for each
\* its sdk_keys.
CreateProject(db, p, es) ==
  Result(db, p \notin db.projects,
    [db EXCEPT
       !.projects = @ \cup {p},
       !.envs     = OfProject(@, p, es),
       !.versions = OfProject(@, p, [e \in EnvKeys |->
                                       IF es[e] = Absent THEN Absent ELSE 0]),
       !.configs  = Put(@, ConfigsOf(p), Absent),
       !.flags    = Without(@, p),
       !.segments = Without(@, p)])

\* The body replaces the project, and with it the list of environments;
\* versions and configs stay.
UpdateProject(db, p, es) ==
  Result(db, p \in db.projects, [db EXCEPT !.envs = OfProject(@, p, es)])

\* Mutant: the versions of the project are forgotten.
DeleteProject_KeepVersions(db, p) ==
  Result(db, TRUE,
    [db EXCEPT
       !.projects = @ \ {p},
       !.envs     = Put(@, ScopesOf(p), Absent),
       !.configs  = Put(@, ConfigsOf(p), Absent),
       !.flags    = Without(@, p),
       !.segments = Without(@, p)])

DeleteProject(db, p) ==
  Result(db, TRUE,
    [db EXCEPT
       !.projects = @ \ {p},
       !.envs     = Put(@, ScopesOf(p), Absent),
       !.versions = Put(@, ScopesOf(p), Absent),
       !.configs  = Put(@, ConfigsOf(p), Absent),
       !.flags    = Without(@, p),
       !.segments = Without(@, p)])

\* GetEnvironment and ListEnvironments.
FindsEnvironment(db, s) == s[1] \in db.projects /\ db.envs[s] # Absent

ListEnvironments(db, p) == {e \in EnvKeys : FindsEnvironment(db, <<p, e>>)}

\* Mutant: no look at the environments that exist.
CreateEnvironment_Unchecked(db, s, ks) ==
  Result(db, s[1] \in db.projects,
    [db EXCEPT !.envs[s] = ks,
               !.configs = Put(@, ConfigsIn(s), Absent),
               !.versions[s] = 0])

\* Mutant: the configs of an earlier environment of that key are kept.
CreateEnvironment_KeepConfigs(db, s, ks) ==
  Result(db, s[1] \in db.projects /\ db.envs[s] = Absent,
    [db EXCEPT !.envs[s] = ks, !.versions[s] = 0])

CreateEnvironment(db, s, ks) ==
  Result(db, s[1] \in db.projects /\ db.envs[s] = Absent,
    [db EXCEPT !.envs[s] = ks,
               !.configs = Put(@, ConfigsIn(s), Absent),
               !.versions[s] = 0])

UpdateEnvironment(db, s, ks) ==
  Result(db, FindsEnvironment(db, s), [db EXCEPT !.envs[s] = ks])

\* Also without complaint when there is no such environment.
DeleteEnvironment(db, s) ==
  Result(db, s[1] \in db.projects,
    [db EXCEPT !.envs[s] = Absent,
               !.configs = Put(@, ConfigsIn(s), Absent),
               !.versions[s] = Absent])

CreateFlag(db, p, f) ==
  Result(db, p \in db.projects /\ <<p, f>> \notin db.flags,
    [db EXCEPT !.flags = @ \cup {<<p, f>>}])

UpdateFlag(db, p, f) ==
  Result(db, p \in db.projects /\ <<p, f>> \in db.flags, db)

DeleteFlag(db, p, f) ==
  Result(db, p \in db.projects, [db EXCEPT !.flags = @ \ {<<p, f>>}])

CreateSegment(db, p, g) ==
  Result(db, p \in db.projects /\ <<p, g>> \notin db.segments,
    [db EXCEPT !.segments = @ \cup {<<p, g>>}])

UpdateSegment(db, p, g) ==
  Result(db, p \in db.projects /\ <<p, g>> \in db.segments, db)

DeleteSegment(db, p, g) ==
  Result(db, p \in db.projects, [db EXCEPT !.segments = @ \ {<<p, g>>}])

\* The environment need not exist: its map of configs is made on demand.
UpsertFlagConfig(db, s, f, n) ==
  Result(db, s[1] \in db.projects, [db EXCEPT !.configs[<<s[1], s[2], f>>] = n])

\* Whether GetEnvVersion succeeds, and with it Build: its other calls fail
\* only without the project, whose versions are then gone too.
FindsVersion(db, s) == s[1] \in db.projects /\ db.versions[s] # Absent

IncrementEnvVersion(db, s) ==
  IF FindsVersion(db, s)
    THEN [ok |-> TRUE, db |-> [db EXCEPT !.versions[s] = @ + 1],
          version |-> db.versions[s] + 1]
    ELSE [ok |-> FALSE, db |-> db, version |-> 0]

\* NewStore starts with nothing, whatever an earlier process stored.
Reopen(db) == EmptyStore
=============================================================================
