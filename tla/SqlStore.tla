------------------------------ MODULE SqlStore ------------------------------
(***************************************************************************)
(* internal/store/sqlite.go.  Each method is one statement or one           *)
(* transaction on the single connection, so a call is one step.  No table   *)
(* refers to another, so most calls succeed for a project or an             *)
(* environment that does not exist, and leave rows that belong to nothing.  *)
(***************************************************************************)
EXTENDS StoreData

\* The environments of the body are stored with the project and never read.
CreateProject(db, p, es) ==
  Result(db, p \notin db.projects, [db EXCEPT !.projects = @ \cup {p}])

UpdateProject(db, p, es) == Result(db, p \in db.projects, db)

DeleteProject(db, p) ==
  Result(db, TRUE,
    [db EXCEPT
       !.projects = @ \ {p},
       !.envs     = Put(@, ScopesOf(p), Absent),
       !.versions = Put(@, ScopesOf(p), Absent),
       !.configs  = Put(@, ConfigsOf(p), Absent),
       !.flags    = Without(@, p),
       !.segments = Without(@, p)])

\* GetEnvironment and ListEnvironments.
FindsEnvironment(db, s) == db.envs[s] # Absent

ListEnvironments(db, p) == {e \in EnvKeys : FindsEnvironment(db, <<p, e>>)}

\* INSERT OR IGNORE keeps the version that a row without environment has.
CreateEnvironment(db, s, ks) ==
  Result(db, db.envs[s] = Absent,
    [db EXCEPT !.envs[s] = ks,
               !.versions[s] = IF @ = Absent THEN 0 ELSE @])

UpdateEnvironment(db, s, ks) ==
  Result(db, FindsEnvironment(db, s), [db EXCEPT !.envs[s] = ks])

DeleteEnvironment(db, s) ==
  Result(db, TRUE,
    [db EXCEPT !.envs[s] = Absent,
               !.configs = Put(@, ConfigsIn(s), Absent),
               !.versions[s] = Absent])

CreateFlag(db, p, f) ==
  Result(db, <<p, f>> \notin db.flags, [db EXCEPT !.flags = @ \cup {<<p, f>>}])

UpdateFlag(db, p, f) == Result(db, <<p, f>> \in db.flags, db)

DeleteFlag(db, p, f) == Result(db, TRUE, [db EXCEPT !.flags = @ \ {<<p, f>>}])

CreateSegment(db, p, g) ==
  Result(db, <<p, g>> \notin db.segments,
    [db EXCEPT !.segments = @ \cup {<<p, g>>}])

UpdateSegment(db, p, g) == Result(db, <<p, g>> \in db.segments, db)

DeleteSegment(db, p, g) ==
  Result(db, TRUE, [db EXCEPT !.segments = @ \ {<<p, g>>}])

UpsertFlagConfig(db, s, f, n) ==
  Result(db, TRUE, [db EXCEPT !.configs[<<s[1], s[2], f>>] = n])

\* GetEnvVersion answers 0 without a row, so Build succeeds for anything.
FindsVersion(db, s) == TRUE

\* One INSERT ... ON CONFLICT DO UPDATE ... RETURNING.
IncrementEnvVersion(db, s) ==
  LET next == IF db.versions[s] = Absent THEN 1 ELSE db.versions[s] + 1
  IN  [ok |-> TRUE, db |-> [db EXCEPT !.versions[s] = next], version |-> next]

\* A new process opens the same file.
Reopen(db) == db
=============================================================================
