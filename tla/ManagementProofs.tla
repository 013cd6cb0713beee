---------------------------- MODULE ManagementProofs ----------------------------
(***************************************************************************)
(* The invariants of Management for any projects, environments, keys and    *)
(* handlers, any number of requests and crashes, and both kinds of store.   *)
(*                                                                         *)
(* The proof has three layers: what a call does to a store (Follows), what  *)
(* that means for a handler that is somewhere else in its code              *)
(* (Bystander), and what each step does to the handler that takes it.       *)
(***************************************************************************)
EXTENDS Management, UpToInduction, TLAPS

\* The shape of the store and of the local variables of a handler.
Stores ==
  [projects : SUBSET Projects,
   envs     : [Scopes -> Seq(AllKeys) \cup {Absent}],
   flags    : SUBSET (Projects \X FlagKeys),
   segments : SUBSET (Projects \X SegKeys),
   configs  : [ConfigKeys -> Nat \cup {Absent}],
   versions : [Scopes -> Nat \cup {Absent}]]

Locals ==
  [scope   : Scopes \cup (Projects \X {Absent}) \cup {Absent},
   key     : AllKeys \cup FlagKeys \cup {Absent},
   keys    : Seq(AllKeys),
   request : Nat,
   todo    : SUBSET EnvKeys,
   version : Nat]

CreateLabels  == {"append", "update", "register"}
RevokeLabels  == {"remove", "revoke"}
ChangeLabels  == {"list", "loop", "build", "publish"}
ConfigLabels  == {"increment", "buildConfig", "publish", "answer"}
PublishLabels == ChangeLabels \cup ConfigLabels
Labels        == {"idle"} \cup CreateLabels \cup RevokeLabels \cup PublishLabels

Types ==
  /\ backend \in {"memory", "sql"} /\ db \in Stores
  /\ registry \in [AllKeys -> {"none", "active", "revoked"}]
  /\ pc \in [Handlers -> Labels] /\ loc \in [Handlers -> Locals]
  /\ requests \in Nat /\ spent \subseteq Keys /\ gone \subseteq Scopes
  /\ published \in [Scopes -> Nat]
  /\ owed \in [Handlers -> [Scopes -> Nat \cup {Absent}]]

\* What the in-memory store relies on: nothing is kept for a project that does
\* not exist.
InMemory(store) ==
  /\ \A x \in store.flags \cup store.segments : x[1] \in store.projects
  /\ \A s \in Scopes : \/ s[1] \in store.projects
                       \/ store.versions[s] = Absent /\ store.envs[s] = Absent
  /\ \A c \in ConfigKeys : c[1] \in store.projects \/ store.configs[c] = Absent

\* The version of an environment, 0 without one.
Ver(s) == IF db.versions[s] = Absent THEN 0 ELSE db.versions[s]

\* The store with itself, with the hub and with the requests so far.
StoreInv ==
  /\ backend = "memory" => InMemory(db)
  /\ \A s \in Scopes \ gone :
       /\ published[s] <= Ver(s)
       /\ backend = "memory" /\ db.envs[s] = Absent => db.versions[s] = Absent
  /\ \A c \in ConfigKeys : db.configs[c] # Absent => db.configs[c] <= requests

\* A key that is being created has not been answered, so it is not revoked.
KeysInv ==
  /\ revoked \subseteq issued /\ issued \subseteq spent
  /\ \A h \in Handlers : pc[h] \in CreateLabels => loc[h].key \in spent \ issued
  /\ \A g, h \in Handlers :
       /\ pc[g] \in CreateLabels /\ pc[h] \in CreateLabels /\ loc[g].key = loc[h].key
       => g = h
  /\ \A k \in revoked : registry[k] # "active"

\* What a handler has in its variables where it is.
LocalsOf(h) ==
  /\ pc[h] \in CreateLabels => loc[h].scope \in Scopes /\ loc[h].key \in Keys
  /\ pc[h] \in RevokeLabels => loc[h].scope \in Scopes /\ loc[h].key \in AllKeys
  /\ pc[h] \in {"list", "loop"} => loc[h].scope \in Scopes \cup (Projects \X {Absent})
  /\ pc[h] \in {"build", "publish", "increment", "buildConfig"} => loc[h].scope \in Scopes
  /\ pc[h] \in ChangeLabels \ {"publish"} => loc[h].request = 0
  /\ pc[h] \in ConfigLabels \ {"publish"} => loc[h].request # 0
  /\ pc[h] \in ConfigLabels /\ loc[h].request # 0 => loc[h].key \in FlagKeys

\* A version that is about to be published is not ahead of the store.
NotAhead(h) ==
  pc[h] \in {"build", "buildConfig", "publish"} /\ loc[h].scope \notin gone
    => loc[h].version <= Ver(loc[h].scope)

\* What a handler owes to an environment it has still to do, or has done.
Pays(h, s) ==
  /\ db.envs[s] # Absent /\ db.versions[s] # Absent /\ owed[h][s] <= db.versions[s]
  /\ pc[h] \in PublishLabels
  /\ pc[h] = "increment" => s = loc[h].scope
  /\ pc[h] \in ChangeLabels /\ loc[h].request = 0 => s[1] = loc[h].scope[1]
  /\ pc[h] \in ChangeLabels \ {"list"} /\ loc[h].request = 0 =>
       s[2] \in loc[h].todo \/ owed[h][s] < db.versions[s]
  /\ pc[h] \in {"buildConfig", "publish", "answer"} /\ loc[h].request # 0 =>
       owed[h][s] < db.versions[s]

\* The config that a handler wrote is replaced or removed, or has no version to
\* be published with, if the handler has version 0.
ConfigOf(h) == <<loc[h].scope[1], loc[h].scope[2], loc[h].key>>

ZeroOf(h) ==
  /\ loc[h].request <= requests
  /\ pc[h] = "build" \/ (pc[h] = "publish" /\ loc[h].request = 0) => loc[h].version # 0
  /\ pc[h] \in {"buildConfig", "publish"} /\ backend = "sql" => loc[h].version # 0
  /\ pc[h] = "buildConfig" /\ loc[h].version = 0 =>
       db.versions[loc[h].scope] = Absent \/ db.configs[ConfigOf(h)] # loc[h].request
  /\ pc[h] = "publish" /\ loc[h].version = 0 => db.configs[ConfigOf(h)] # loc[h].request

HandlerInv(h) ==
  /\ LocalsOf(h) /\ NotAhead(h) /\ ZeroOf(h)
  /\ \A s \in Scopes : owed[h][s] # Absent => Pays(h, s)

ManagementInv == Types /\ StoreInv /\ KeysInv /\ \A h \in Handlers : HandlerInv(h)

-----------------------------------------------------------------------------
(***************************************************************************)
(* Lists of keys.                                                           *)
(***************************************************************************)
LEMMA NoKeys ==
  ASSUME NEW S
  PROVE  <<>> \in Seq(S)
OBVIOUS

\* What revokeSDKKey leaves of a list of keys is a list of keys
\* (internal/api/server.go:620-628).
LEMMA KeysWithoutType ==
  ASSUME NEW S, NEW ks \in Seq(S), NEW k
  PROVE  KeysWithout(ks, k) \in Seq(S)
<1> DEFINE n == Len(ks)
           step(g, i) == IF i = 0 THEN <<>>
                         ELSE IF ks[i] = k THEN g[i - 1] ELSE Append(g[i - 1], ks[i])
           kept == CHOOSE g : g = [i \in 0 .. n |-> step(g, i)]
<1>0. n \in Nat
  OBVIOUS
<1>1. PICK d : d = [x \in Seq(S) \X (1 .. n) |->
                      IF ks[x[2]] = k THEN x[1] ELSE Append(x[1], ks[x[2]])]
  OBVIOUS
<1>2. d \in Bodies(n, Seq(S))
  BY <1>1 DEF Bodies
<1>3. PICK f : f \in Runs(n, Seq(S), <<>>, d)
  BY <1>0, <1>2, NoKeys, DefinedUpTo
<1>4. \A i \in 0 .. n : f[i] = step(f, i)
  <2> SUFFICES ASSUME NEW i \in 0 .. n, i # 0 PROVE f[i] = step(f, i)
    BY <1>3 DEF Runs
  <2>1. i \in 1 .. n /\ i - 1 \in 0 .. n
    BY <1>0
  <2>2. <<f[i - 1], i>> \in Seq(S) \X (1 .. n)
    BY <1>3, <2>1 DEF Runs
  <2> QED
    BY <1>1, <1>3, <2>1, <2>2 DEF Runs
<1>5. f = [i \in 0 .. n |-> step(f, i)]
  <2> HIDE DEF step
  <2> QED
    BY <1>3, <1>4 DEF Runs
<1>6. kept = [i \in 0 .. n |-> step(kept, i)]
  <2> HIDE DEF step, n
  <2> QED
    BY <1>5, Zenon
<1>7. KeysWithout(ks, k) = kept[n]
  BY DEF KeysWithout
<1> HIDE DEF kept
<1>8. kept = f
  <2> HIDE DEF n
  <2>1. kept = [i \in 0 .. n |-> kept[i]] /\ f = [i \in 0 .. n |-> f[i]] /\ kept[0] = f[0]
    BY <1>0, <1>3, <1>6 DEF Runs
  <2>2. ASSUME NEW i \in 1 .. n, kept[i - 1] = f[i - 1] PROVE kept[i] = f[i]
    <3>1. i \in 0 .. n /\ i # 0
      BY <1>0
    <3>2. kept[i] = step(kept, i) /\ f[i] = step(f, i)
      BY <1>4, <1>6, <3>1
    <3> QED
      BY <2>2, <3>1, <3>2
  <2> QED
    <3>1. Alike(n, kept, f)
      BY <2>1, <2>2 DEF Alike
    <3> QED
      BY <1>0, <3>1, SameUpTo
<1> QED
  BY <1>0, <1>3, <1>7, <1>8 DEF Runs

-----------------------------------------------------------------------------
(***************************************************************************)
(* What a call does to the store.                                           *)
(***************************************************************************)
\* The store n may follow db.  The version of an environment stays, goes or
\* grows, begins in a row of its own, or begins again with a new environment in
\* memory, which has no configs.
Follows(n) ==
  /\ n \in Stores
  /\ backend = "memory" => InMemory(n)
  /\ \A c \in ConfigKeys : n.configs[c] \in {db.configs[c], Absent}
  /\ \A s \in Scopes :
       \/ n.versions[s] \in {db.versions[s], Absent}
       \/ db.versions[s] # Absent /\ n.versions[s] # Absent /\ db.versions[s] <= n.versions[s]
       \/ backend = "sql" /\ db.versions[s] = Absent
       \/ /\ backend = "memory" /\ db.envs[s] = Absent /\ n.envs[s] # Absent
          /\ \A f \in FlagKeys : n.configs[<<s[1], s[2], f>>] = Absent

LEMMA AbsentIs == Absent \notin Nat /\ Absent \notin Seq(AllKeys) /\ <<>> # Absent
<1>1. <<>> \in Seq(AllKeys)
  OBVIOUS
<1> QED
  BY <1>1, ManagementAssumption DEF AllKeys

\* Types of the parts of a store, and of a store from its parts.
LEMMA StoreParts ==
  ASSUME NEW d \in Stores
  PROVE  /\ d.projects \subseteq Projects
         /\ d.envs \in [Scopes -> Seq(AllKeys) \cup {Absent}]
         /\ d.flags \subseteq Projects \X FlagKeys
         /\ d.segments \subseteq Projects \X SegKeys
         /\ d.configs \in [ConfigKeys -> Nat \cup {Absent}]
         /\ d.versions \in [Scopes -> Nat \cup {Absent}]
BY DEF Stores

LEMMA StoreFollows == Types /\ StoreInv => Follows(db)
BY DEF Follows, Types, StoreInv

\* Scopes and the keys of configs, part by part.
LEMMA ScopeParts ==
  /\ \A s \in Scopes : s = <<s[1], s[2]>> /\ s[1] \in Projects /\ s[2] \in EnvKeys
  /\ \A p \in Projects, e \in EnvKeys : <<p, e>> \in Scopes
  /\ \A c \in ConfigKeys : c = <<c[1], c[2], c[3]>> /\ <<c[1], c[2]>> \in Scopes
  /\ \A s \in Scopes, f \in FlagKeys : <<s[1], s[2], f>> \in ConfigKeys
BY DEF Scopes, ConfigKeys


\* The stores use the operators of StoreData.
LEMMA SameOperators ==
  /\ \A p : Mem!ScopesOf(p) = ScopesOf(p) /\ Sql!ScopesOf(p) = ScopesOf(p)
  /\ \A p : Mem!ConfigsOf(p) = ConfigsOf(p) /\ Sql!ConfigsOf(p) = ConfigsOf(p)
  /\ \A s : Mem!ConfigsIn(s) = ConfigsIn(s) /\ Sql!ConfigsIn(s) = ConfigsIn(s)
  /\ \A f, S, v : Mem!Put(f, S, v) = Put(f, S, v) /\ Sql!Put(f, S, v) = Put(f, S, v)
  /\ \A items, p : /\ Mem!Without(items, p) = Without(items, p)
                   /\ Sql!Without(items, p) = Without(items, p)
  /\ \A f, p, g : Mem!OfProject(f, p, g) = OfProject(f, p, g)
BY DEF Mem!ScopesOf, Sql!ScopesOf, ScopesOf, Mem!ConfigsOf, Sql!ConfigsOf, ConfigsOf,
       Mem!ConfigsIn, Sql!ConfigsIn, ConfigsIn, Mem!Put, Sql!Put, Put,
       Mem!Without, Sql!Without, Without, Mem!OfProject, OfProject

\* Which scopes and configs belong to a project, and which configs to a scope.
LEMMA Belongs ==
  /\ \A s \in Scopes, p \in Projects : s \in ScopesOf(p) <=> s[1] = p
  /\ \A c \in ConfigKeys, p \in Projects : c \in ConfigsOf(p) <=> c[1] = p
  /\ \A c \in ConfigKeys, s \in Scopes : c \in ConfigsIn(s) <=> c[1] = s[1] /\ c[2] = s[2]
BY ScopeParts DEF ScopesOf, ConfigsOf, ConfigsIn, ConfigKeys, Scopes

\* Key lists of the environments in the body of a project.
KeysOfBodies == [EnvKeys -> Seq(AllKeys) \cup {Absent}]

LEMMA MemCreateProject ==
  ASSUME Types, StoreInv, backend = "memory", NEW p \in Projects, NEW es \in KeysOfBodies
  PROVE  Follows(Mem!CreateProject(db, p, es).db)
<1> DEFINE n  == Mem!CreateProject(db, p, es).db
           N  == [e \in EnvKeys |-> IF es[e] = Absent THEN Absent ELSE 0]
           E  == OfProject(db.envs, p, es)
           V  == OfProject(db.versions, p, N)
           C  == Put(db.configs, ConfigsOf(p), Absent)
           F  == Without(db.flags, p)
           G  == Without(db.segments, p)
<1>1. CASE p \in db.projects
  BY <1>1, StoreFollows DEF Mem!CreateProject, Mem!Result
<1>2. CASE p \notin db.projects
  <2>1. n = [db EXCEPT !.projects = db.projects \cup {p}, !.envs = E, !.versions = V,
                       !.configs = C, !.flags = F, !.segments = G]
    BY <1>2, SameOperators DEF Mem!CreateProject, Mem!Result
  <2> HIDE DEF n
  <2>2. /\ E \in [Scopes -> Seq(AllKeys) \cup {Absent}]
        /\ \A s \in Scopes : E[s] = IF s[1] = p THEN es[s[2]] ELSE db.envs[s]
    BY StoreParts, ScopeParts DEF Types, OfProject, KeysOfBodies
  <2>3. /\ V \in [Scopes -> Nat \cup {Absent}]
        /\ \A s \in Scopes : V[s] = IF s[1] # p THEN db.versions[s]
                                    ELSE IF es[s[2]] = Absent THEN Absent ELSE 0
    BY StoreParts, ScopeParts DEF Types, OfProject
  <2>4. /\ C \in [ConfigKeys -> Nat \cup {Absent}]
        /\ \A c \in ConfigKeys : C[c] = IF c[1] = p THEN Absent ELSE db.configs[c]
    BY StoreParts, Belongs DEF Types, Put
  <2>5. /\ F \subseteq db.flags /\ G \subseteq db.segments
        /\ F \in SUBSET (Projects \X FlagKeys) /\ G \in SUBSET (Projects \X SegKeys)
        /\ db.projects \cup {p} \in SUBSET Projects /\ db \in Stores
    BY StoreParts DEF Without, Types
  <2> HIDE DEF E, V, C, F, G
  <2>6. /\ n \in Stores /\ n.projects = db.projects \cup {p} /\ n.envs = E
        /\ n.versions = V /\ n.configs = C /\ n.flags = F /\ n.segments = G
    BY <2>1, <2>2, <2>3, <2>4, <2>5 DEF Stores
  <2>7. InMemory(n)
    BY <2>2, <2>3, <2>4, <2>5, <2>6 DEF InMemory, StoreInv
  <2>8. \A s \in Scopes : s[1] = p => db.envs[s] = Absent
    BY <1>2 DEF StoreInv, InMemory
  <2>9. ASSUME NEW s \in Scopes
        PROVE  \/ V[s] \in {db.versions[s], Absent}
               \/ /\ backend = "memory" /\ db.envs[s] = Absent /\ E[s] # Absent
                  /\ \A f \in FlagKeys : C[<<s[1], s[2], f>>] = Absent
    BY <2>2, <2>3, <2>4, <2>8, ScopeParts, AbsentIs
  <2>10. Follows(n)
    BY <2>4, <2>6, <2>7, <2>9 DEF Follows
  <2> QED
    BY <2>10 DEF n
<1> QED
  BY <1>1, <1>2

LEMMA MemUpdateProject ==
  ASSUME Types, StoreInv, backend = "memory", NEW p \in Projects, NEW es \in KeysOfBodies
  PROVE  Follows(Mem!UpdateProject(db, p, es).db)
<1> DEFINE n  == Mem!UpdateProject(db, p, es).db
           E  == OfProject(db.envs, p, es)
<1>1. CASE p \notin db.projects
  BY <1>1, StoreFollows DEF Mem!UpdateProject, Mem!Result
<1>2. CASE p \in db.projects
  <2>1. n = [db EXCEPT !.envs = E]
    BY <1>2, SameOperators DEF Mem!UpdateProject, Mem!Result
  <2> HIDE DEF n
  <2>2. /\ E \in [Scopes -> Seq(AllKeys) \cup {Absent}]
        /\ \A s \in Scopes : s[1] # p => E[s] = db.envs[s]
    BY StoreParts, ScopeParts DEF Types, OfProject, KeysOfBodies
  <2> HIDE DEF E
  <2>3. db \in Stores
    BY DEF Types
  <2>4. /\ n \in Stores /\ n.projects = db.projects /\ n.envs = E
        /\ n.versions = db.versions /\ n.configs = db.configs
        /\ n.flags = db.flags /\ n.segments = db.segments
    BY <2>1, <2>2, <2>3 DEF Stores
  <2>5. InMemory(n)
    BY <1>2, <2>2, <2>4 DEF InMemory, StoreInv
  <2>6. Follows(n)
    BY <2>4, <2>5 DEF Follows
  <2> QED
    BY <2>6 DEF n
<1> QED
  BY <1>1, <1>2

\* DeleteProject of both stores.
LEMMA ProjectDeleted ==
  ASSUME Types, StoreInv, NEW p \in Projects
  PROVE  Follows([db EXCEPT !.projects = db.projects \ {p},
                            !.envs     = Put(db.envs, ScopesOf(p), Absent),
                            !.versions = Put(db.versions, ScopesOf(p), Absent),
                            !.configs  = Put(db.configs, ConfigsOf(p), Absent),
                            !.flags    = Without(db.flags, p),
                            !.segments = Without(db.segments, p)])
<1> DEFINE E == Put(db.envs, ScopesOf(p), Absent)
           V == Put(db.versions, ScopesOf(p), Absent)
           C == Put(db.configs, ConfigsOf(p), Absent)
           F == Without(db.flags, p)
           G == Without(db.segments, p)
           P == db.projects \ {p}
           n == [db EXCEPT !.projects = P, !.envs = E, !.versions = V, !.configs = C,
                           !.flags = F, !.segments = G]
<1>1. /\ E \in [Scopes -> Seq(AllKeys) \cup {Absent}]
      /\ \A s \in Scopes : E[s] = IF s[1] = p THEN Absent ELSE db.envs[s]
  BY StoreParts, Belongs DEF Types, Put
<1>2. /\ V \in [Scopes -> Nat \cup {Absent}]
      /\ \A s \in Scopes : V[s] = IF s[1] = p THEN Absent ELSE db.versions[s]
  BY StoreParts, Belongs DEF Types, Put
<1>3. /\ C \in [ConfigKeys -> Nat \cup {Absent}]
      /\ \A c \in ConfigKeys : C[c] = IF c[1] = p THEN Absent ELSE db.configs[c]
  BY StoreParts, Belongs DEF Types, Put
<1>4. /\ F \in SUBSET (Projects \X FlagKeys) /\ G \in SUBSET (Projects \X SegKeys)
      /\ P \in SUBSET Projects /\ db \in Stores
  BY StoreParts DEF Without, Types
<1>4a. F = {x \in db.flags : x[1] # p} /\ G = {x \in db.segments : x[1] # p}
  BY DEF Without
<1> HIDE DEF E, V, C, F, G, P
<1>5. /\ n \in Stores /\ n.projects = P /\ n.envs = E
      /\ n.versions = V /\ n.configs = C /\ n.flags = F /\ n.segments = G
  BY <1>1, <1>2, <1>3, <1>4 DEF Stores
<1> HIDE DEF n
<1>6. backend = "memory" => InMemory(n)
  BY <1>1, <1>2, <1>3, <1>4a, <1>5 DEF InMemory, StoreInv, P
<1>7. Follows(n)
  BY <1>2, <1>3, <1>5, <1>6 DEF Follows
<1> QED
  BY <1>7 DEF n, E, V, C, F, G, P

\* DeleteEnvironment of both stores.
LEMMA EnvironmentDeleted ==
  ASSUME Types, StoreInv, NEW s \in Scopes
  PROVE  Follows([db EXCEPT !.envs[s] = Absent,
                            !.configs = Put(db.configs, ConfigsIn(s), Absent),
                            !.versions[s] = Absent])
<1> DEFINE E == [db.envs EXCEPT ![s] = Absent]
           V == [db.versions EXCEPT ![s] = Absent]
           C == Put(db.configs, ConfigsIn(s), Absent)
           n == [db EXCEPT !.envs = E, !.configs = C, !.versions = V]
<1>1. /\ E \in [Scopes -> Seq(AllKeys) \cup {Absent}]
      /\ \A t \in Scopes : E[t] = IF t = s THEN Absent ELSE db.envs[t]
  BY StoreParts DEF Types
<1>2. /\ V \in [Scopes -> Nat \cup {Absent}]
      /\ \A t \in Scopes : V[t] = IF t = s THEN Absent ELSE db.versions[t]
  BY StoreParts DEF Types
<1>3. /\ C \in [ConfigKeys -> Nat \cup {Absent}]
      /\ \A c \in ConfigKeys : C[c] \in {db.configs[c], Absent}
  BY StoreParts DEF Types, Put
<1>4. db \in Stores
  BY DEF Types
<1> HIDE DEF E, V, C
<1>5. /\ n \in Stores /\ n.projects = db.projects /\ n.envs = E
      /\ n.versions = V /\ n.configs = C /\ n.flags = db.flags /\ n.segments = db.segments
  BY <1>1, <1>2, <1>3, <1>4 DEF Stores
<1> HIDE DEF n
<1>6. backend = "memory" => InMemory(n)
  BY <1>1, <1>2, <1>3, <1>5 DEF InMemory, StoreInv
<1>7. Follows(n)
  BY <1>2, <1>3, <1>5, <1>6 DEF Follows
<1> QED
  BY <1>7 DEF n, E, V, C

\* The list of keys of an environment that is there is replaced: UpdateEnvironment
\* of both stores, and an append into a shared array.
LEMMA EnvironmentUpdated ==
  ASSUME Types, StoreInv, NEW s \in Scopes, NEW ks \in Seq(AllKeys), db.envs[s] # Absent
  PROVE  Follows([db EXCEPT !.envs[s] = ks])
<1> DEFINE E == [db.envs EXCEPT ![s] = ks]
           n == [db EXCEPT !.envs = E]
<1>1. /\ E \in [Scopes -> Seq(AllKeys) \cup {Absent}]
      /\ \A t \in Scopes : E[t] = IF t = s THEN ks ELSE db.envs[t]
  BY StoreParts DEF Types
<1>2. db \in Stores
  BY DEF Types
<1> HIDE DEF E
<1>3. /\ n \in Stores /\ n.projects = db.projects /\ n.envs = E
      /\ n.versions = db.versions /\ n.configs = db.configs
      /\ n.flags = db.flags /\ n.segments = db.segments
  BY <1>1, <1>2 DEF Stores
<1> HIDE DEF n
<1>4. backend = "memory" => InMemory(n)
  BY <1>1, <1>3 DEF InMemory, StoreInv
<1>5. Follows(n)
  BY <1>3, <1>4 DEF Follows
<1> QED
  BY <1>5 DEF n, E

LEMMA MemCreateEnvironment ==
  ASSUME Types, StoreInv, backend = "memory", NEW s \in Scopes, NEW ks \in Seq(AllKeys)
  PROVE  Follows(Mem!CreateEnvironment(db, s, ks).db)
<1> DEFINE ok == s[1] \in db.projects /\ db.envs[s] = Absent
           E == [db.envs EXCEPT ![s] = ks]
           V == [db.versions EXCEPT ![s] = 0]
           C == Put(db.configs, ConfigsIn(s), Absent)
           n == [db EXCEPT !.envs = E, !.configs = C, !.versions = V]
<1>1. CASE ~ok
  BY <1>1, StoreFollows DEF Mem!CreateEnvironment, Mem!Result
<1>2. CASE ok
  <2>1. /\ E \in [Scopes -> Seq(AllKeys) \cup {Absent}]
        /\ \A t \in Scopes : E[t] = IF t = s THEN ks ELSE db.envs[t]
    BY StoreParts DEF Types
  <2>2. /\ V \in [Scopes -> Nat \cup {Absent}]
        /\ \A t \in Scopes : V[t] = IF t = s THEN 0 ELSE db.versions[t]
    BY StoreParts DEF Types
  <2>3. /\ C \in [ConfigKeys -> Nat \cup {Absent}]
        /\ \A c \in ConfigKeys :
             C[c] = IF c[1] = s[1] /\ c[2] = s[2] THEN Absent ELSE db.configs[c]
    BY StoreParts, Belongs DEF Types, Put
  <2>4. Mem!CreateEnvironment(db, s, ks).db = n
    BY <1>2, SameOperators DEF Mem!CreateEnvironment, Mem!Result
  <2>5. db \in Stores
    BY DEF Types
  <2> HIDE DEF E, V, C
  <2>6. /\ n \in Stores /\ n.projects = db.projects /\ n.envs = E
        /\ n.versions = V /\ n.configs = C /\ n.flags = db.flags /\ n.segments = db.segments
    BY <2>1, <2>2, <2>3, <2>5 DEF Stores
  <2> HIDE DEF n
  <2>7. InMemory(n)
    <3>1. InMemory(db)
      BY DEF StoreInv
    <3>2. \A t \in Scopes : \/ t[1] \in n.projects
                            \/ n.versions[t] = Absent /\ n.envs[t] = Absent
      BY <1>2, <2>1, <2>2, <2>6, <3>1 DEF InMemory
    <3>3. \A c \in ConfigKeys : c[1] \in n.projects \/ n.configs[c] = Absent
      BY <2>3, <2>6, <3>1 DEF InMemory
    <3> QED
      BY <2>6, <3>1, <3>2, <3>3 DEF InMemory
  <2>8. \A f \in FlagKeys : C[<<s[1], s[2], f>>] = Absent
    BY <2>3, ScopeParts
  <2>9. ks # Absent
    BY AbsentIs
  <2>10. Follows(n)
    BY <1>2, <2>1, <2>2, <2>3, <2>6, <2>7, <2>8, <2>9 DEF Follows
  <2> QED
    BY <2>4, <2>10
<1> QED
  BY <1>1, <1>2

LEMMA SqlCreateEnvironment ==
  ASSUME Types, StoreInv, backend = "sql", NEW s \in Scopes, NEW ks \in Seq(AllKeys)
  PROVE  Follows(Sql!CreateEnvironment(db, s, ks).db)
<1> DEFINE E == [db.envs EXCEPT ![s] = ks]
           v == IF db.versions[s] = Absent THEN 0 ELSE db.versions[s]
           V == [db.versions EXCEPT ![s] = v]
           n == [db EXCEPT !.envs = E, !.versions = V]
<1>1. CASE db.envs[s] # Absent
  BY <1>1, StoreFollows DEF Sql!CreateEnvironment, Sql!Result
<1>2. CASE db.envs[s] = Absent
  <2>1. E \in [Scopes -> Seq(AllKeys) \cup {Absent}]
    BY StoreParts DEF Types
  <2>2. v \in Nat
    BY StoreParts DEF Types
  <2>3. Sql!CreateEnvironment(db, s, ks).db = n
    BY <1>2 DEF Sql!CreateEnvironment, Sql!Result
  <2>4. db.versions[s] = Absent \/ v = db.versions[s]
    OBVIOUS
  <2> HIDE DEF v
  <2>5. /\ V \in [Scopes -> Nat \cup {Absent}]
        /\ \A t \in Scopes : V[t] = IF t = s THEN v ELSE db.versions[t]
    BY <2>2, StoreParts DEF Types
  <2>6. db \in Stores
    BY DEF Types
  <2> HIDE DEF E, V
  <2>7. n \in Stores /\ n.versions = V /\ n.configs = db.configs
    BY <2>1, <2>5, <2>6 DEF Stores
  <2> HIDE DEF n
  <2>8. Follows(n)
    BY <2>4, <2>5, <2>7 DEF Follows
  <2> QED
    BY <2>3, <2>8
<1> QED
  BY <1>1, <1>2

LEMMA SqlCreateProject ==
  ASSUME Types, StoreInv, backend = "sql", NEW p \in Projects, NEW es
  PROVE  Follows(Sql!CreateProject(db, p, es).db)
<1> DEFINE n == [db EXCEPT !.projects = db.projects \cup {p}]
<1>1. CASE p \in db.projects
  BY <1>1, StoreFollows DEF Sql!CreateProject, Sql!Result
<1>2. CASE p \notin db.projects
  <2>1. Sql!CreateProject(db, p, es).db = n
    BY <1>2 DEF Sql!CreateProject, Sql!Result
  <2>2. db \in Stores
    BY DEF Types
  <2>3. n \in Stores /\ n.versions = db.versions /\ n.configs = db.configs
    BY <2>2 DEF Stores
  <2> HIDE DEF n
  <2>4. Follows(n)
    BY <2>3 DEF Follows
  <2> QED
    BY <2>1, <2>4
<1> QED
  BY <1>1, <1>2

\* The version of an environment goes up by one, from nothing in a SQL store.
LEMMA VersionRaised ==
  ASSUME Types, StoreInv, NEW s \in Scopes, NEW v \in Nat,
         \/ db.versions[s] # Absent /\ v = db.versions[s] + 1
         \/ backend = "sql" /\ db.versions[s] = Absent
  PROVE  /\ Follows([db EXCEPT !.versions[s] = v])
         /\ [db EXCEPT !.versions[s] = v].envs = db.envs
         /\ [db EXCEPT !.versions[s] = v].versions = [db.versions EXCEPT ![s] = v]
<1> DEFINE V == [db.versions EXCEPT ![s] = v]
           n == [db EXCEPT !.versions = V]
<1>1. /\ V \in [Scopes -> Nat \cup {Absent}]
      /\ \A t \in Scopes : V[t] = IF t = s THEN v ELSE db.versions[t]
  BY StoreParts DEF Types
<1>2. db \in Stores
  BY DEF Types
<1> HIDE DEF V
<1>3. /\ n \in Stores /\ n.projects = db.projects /\ n.envs = db.envs
      /\ n.versions = V /\ n.configs = db.configs
      /\ n.flags = db.flags /\ n.segments = db.segments
  BY <1>1, <1>2 DEF Stores
<1> HIDE DEF n
<1>4. db.versions[s] # Absent => db.versions[s] \in Nat /\ v = db.versions[s] + 1
  BY StoreParts DEF Types
<1>5. v # Absent
  BY AbsentIs
<1>6. backend = "memory" => InMemory(n)
  BY <1>1, <1>3 DEF InMemory, StoreInv
<1>7. db.versions[s] # Absent => db.versions[s] <= v
  BY <1>4
<1>8. Follows(n)
  BY <1>1, <1>3, <1>5, <1>6, <1>7 DEF Follows
<1> QED
  BY <1>3, <1>8 DEF n, V

\* The calls that administrate projects and environments, of either store
\* (internal/store/memory.go, internal/store/sqlite.go).
LEMMA CallsFollow ==
  ASSUME Types, StoreInv
  PROVE  /\ \A p \in Projects, es \in KeysOfBodies :
              Follows(CreateProject(p, es).db) /\ Follows(UpdateProject(p, es).db)
         /\ \A p \in Projects : Follows(DeleteProject(p).db)
         /\ \A s \in Scopes, ks \in Seq(AllKeys) :
              Follows(CreateEnvironment(s, ks).db) /\ Follows(UpdateEnvironment(s, ks).db)
         /\ \A s \in Scopes : Follows(DeleteEnvironment(s).db)
<1>0. backend \in {"memory", "sql"} /\ Follows(db)
  BY StoreFollows DEF Types
<1>1. ASSUME NEW p \in Projects, NEW es \in KeysOfBodies
      PROVE  Follows(CreateProject(p, es).db) /\ Follows(UpdateProject(p, es).db)
  <2>1. Follows(CreateProject(p, es).db)
    BY <1>0, MemCreateProject, SqlCreateProject DEF CreateProject
  <2>2. Follows(Sql!UpdateProject(db, p, es).db)
    BY <1>0 DEF Sql!UpdateProject, Sql!Result
  <2>3. Follows(UpdateProject(p, es).db)
    BY <1>0, <2>2, MemUpdateProject DEF UpdateProject
  <2> QED
    BY <2>1, <2>3
<1>2. ASSUME NEW p \in Projects PROVE Follows(DeleteProject(p).db)
  <2> DEFINE E == Put(db.envs, ScopesOf(p), Absent)
             V == Put(db.versions, ScopesOf(p), Absent)
             C == Put(db.configs, ConfigsOf(p), Absent)
             F == Without(db.flags, p)
             G == Without(db.segments, p)
             n == [db EXCEPT !.projects = db.projects \ {p}, !.envs = E, !.versions = V,
                             !.configs = C, !.flags = F, !.segments = G]
  <2>1. Follows(n)
    BY ProjectDeleted, Zenon
  <2>2. /\ Mem!Put(db.envs, Mem!ScopesOf(p), Absent) = E
        /\ Sql!Put(db.envs, Sql!ScopesOf(p), Absent) = E
        /\ Mem!Put(db.versions, Mem!ScopesOf(p), Absent) = V
        /\ Sql!Put(db.versions, Sql!ScopesOf(p), Absent) = V
        /\ Mem!Put(db.configs, Mem!ConfigsOf(p), Absent) = C
        /\ Sql!Put(db.configs, Sql!ConfigsOf(p), Absent) = C
        /\ Mem!Without(db.flags, p) = F /\ Sql!Without(db.flags, p) = F
        /\ Mem!Without(db.segments, p) = G /\ Sql!Without(db.segments, p) = G
    BY SameOperators
  <2>3. DeleteProject(p).db = n
    BY <2>2, Zenon
    DEF DeleteProject, Mem!DeleteProject, Sql!DeleteProject, Mem!Result, Sql!Result
  <2> QED
    BY <2>1, <2>3
<1>3. ASSUME NEW s \in Scopes, NEW ks \in Seq(AllKeys)
      PROVE  Follows(CreateEnvironment(s, ks).db) /\ Follows(UpdateEnvironment(s, ks).db)
  <2>1. Follows(CreateEnvironment(s, ks).db)
    BY <1>0, MemCreateEnvironment, SqlCreateEnvironment DEF CreateEnvironment
  <2>2. CASE db.envs[s] # Absent
    <3>1. Follows([db EXCEPT !.envs[s] = ks])
      BY <2>2, EnvironmentUpdated
    <3>2. UpdateEnvironment(s, ks).db \in {db, [db EXCEPT !.envs[s] = ks]}
      BY DEF UpdateEnvironment, Mem!UpdateEnvironment, Sql!UpdateEnvironment,
             Mem!Result, Sql!Result
    <3> QED
      BY <1>0, <2>1, <3>1, <3>2
  <2>3. CASE db.envs[s] = Absent
    <3>1. UpdateEnvironment(s, ks).db = db
      BY <2>3 DEF UpdateEnvironment, Mem!UpdateEnvironment, Sql!UpdateEnvironment,
                  Mem!Result, Sql!Result, Mem!FindsEnvironment, Sql!FindsEnvironment
    <3> QED
      BY <1>0, <2>1, <3>1
  <2> QED
    BY <2>2, <2>3
<1>4. ASSUME NEW s \in Scopes PROVE Follows(DeleteEnvironment(s).db)
  <2> DEFINE C == Put(db.configs, ConfigsIn(s), Absent)
             n == [db EXCEPT !.envs[s] = Absent, !.configs = C, !.versions[s] = Absent]
  <2>1. Follows(n)
    BY EnvironmentDeleted, Zenon
  <2>2. Mem!Put(db.configs, Mem!ConfigsIn(s), Absent) = C
        /\ Sql!Put(db.configs, Sql!ConfigsIn(s), Absent) = C
    BY SameOperators
  <2>3. DeleteEnvironment(s).db \in {db, n}
    BY <2>2, Zenon
    DEF DeleteEnvironment, Mem!DeleteEnvironment, Sql!DeleteEnvironment, Mem!Result, Sql!Result
  <2> QED
    BY <1>0, <2>1, <2>3
<1> QED
  BY <1>1, <1>2, <1>3, <1>4

\* IncrementEnvVersion fails only in memory and without a version
\* (internal/store/memory.go, internal/store/sqlite.go).
LEMMA IncrementIs ==
  ASSUME Types, StoreInv, NEW s \in Scopes
  PROVE  LET r == IncrementEnvVersion(s) IN
         /\ Follows(r.db) /\ r.version \in Nat /\ r.db.envs = db.envs
         /\ \A t \in Scopes \ {s} : r.db.versions[t] = db.versions[t]
         /\ r.ok => /\ r.version # 0 /\ r.db.versions[s] = r.version
                    /\ db.versions[s] # Absent => db.versions[s] < r.version
         /\ ~r.ok => /\ backend = "memory" /\ db.versions[s] = Absent
                     /\ r.db = db /\ r.version = 0
<1> DEFINE r == IncrementEnvVersion(s)
           v == IF db.versions[s] = Absent THEN 1 ELSE db.versions[s] + 1
           n == [db EXCEPT !.versions[s] = v]
<1>1. db.versions[s] \in Nat \cup {Absent} /\ db.versions \in [Scopes -> Nat \cup {Absent}]
  BY StoreParts DEF Types
<1>2. v \in Nat /\ v # 0 /\ (db.versions[s] # Absent => v = db.versions[s] + 1)
  BY <1>1
<1>3. CASE backend = "memory" /\ ~Mem!FindsVersion(db, s)
  <2>1. r = [ok |-> FALSE, db |-> db, version |-> 0]
    BY <1>3 DEF IncrementEnvVersion, Mem!IncrementEnvVersion
  <2>2. db.versions[s] = Absent
    BY <1>3 DEF Mem!FindsVersion, StoreInv, InMemory
  <2> HIDE DEF r
  <2>3. ~r.ok /\ r.db = db /\ r.version = 0
    BY <2>1
  <2>4. Follows(r.db)
    BY <2>3, StoreFollows
  <2> QED
    BY <1>3, <2>2, <2>3, <2>4 DEF r
<1>4. CASE (backend = "memory" /\ Mem!FindsVersion(db, s)) \/ backend = "sql"
  <2>1. r = [ok |-> TRUE, db |-> n, version |-> v]
    BY <1>4 DEF IncrementEnvVersion, Mem!IncrementEnvVersion, Sql!IncrementEnvVersion,
                Mem!FindsVersion
  <2> HIDE DEF r
  <2>2. db.versions[s] # Absent \/ backend = "sql"
    BY <1>4 DEF Mem!FindsVersion
  <2> HIDE DEF v
  <2>3. /\ Follows(n) /\ n.envs = db.envs /\ n.versions = [db.versions EXCEPT ![s] = v]
    BY <1>2, <2>2, VersionRaised
  <2> HIDE DEF n
  <2>4. r.ok /\ r.db = n /\ r.version = v
    BY <2>1
  <2>5. n.versions[s] = v /\ \A t \in Scopes \ {s} : n.versions[t] = db.versions[t]
    BY <1>1, <2>3
  <2>6. db.versions[s] # Absent => db.versions[s] < v
    BY <1>1, <1>2
  <2> QED
    BY <1>2, <2>3, <2>4, <2>5, <2>6 DEF r
<1> QED
  BY <1>3, <1>4 DEF Types

-----------------------------------------------------------------------------
(***************************************************************************)
(* What that means for the other handlers.                                  *)
(***************************************************************************)
\* What every step but a crash does to the store.
StoreMoves ==
  /\ backend' = backend /\ db' \in Stores
  /\ gone \subseteq gone' /\ gone' \subseteq Scopes
  /\ requests' \in Nat /\ requests <= requests'
  /\ backend = "memory" => InMemory(db')
  /\ \A c \in ConfigKeys :
       \/ db'.configs[c] \in {db.configs[c], Absent}
       \/ db'.configs[c] = requests + 1 /\ requests' = requests + 1
  /\ \A s \in Scopes :
       /\ db.envs[s] # Absent /\ db.versions[s] # Absent /\ db'.versions[s] # Absent
            => db.versions[s] <= db'.versions[s]
       /\ s \notin gone' =>
            /\ Ver(s) <= Ver(s)'
            /\ backend = "memory" /\ db'.envs[s] = Absent => db'.versions[s] = Absent
       /\ backend = "memory" /\ db.versions[s] = Absent /\ db'.versions[s] # Absent
            => \A f \in FlagKeys : db'.configs[<<s[1], s[2], f>>] = Absent

\* Handler g owes nothing new, and nothing to an environment that is gone.
OwesOn(g) ==
  \A s \in Scopes :
    owed'[g][s] # Absent =>
      owed'[g][s] = owed[g][s] /\ db'.envs[s] # Absent /\ db'.versions[s] # Absent

LEMMA VersionsAre ==
  ASSUME Types, NEW s \in Scopes
  PROVE  db.versions[s] \in Nat \cup {Absent} /\ Ver(s) \in Nat
BY StoreParts DEF Types, Ver

LEMMA WritesMoves ==
  ASSUME Types, StoreInv, NEW n, Follows(n), Writes(n), backend' = backend,
         requests' \in Nat, requests <= requests'
  PROVE  StoreMoves /\ owed' \in [Handlers -> [Scopes -> Nat \cup {Absent}]]
         /\ \A g \in Handlers : OwesOn(g)
<1>1. /\ db' = n
      /\ gone' = gone \cup {s \in Scopes :
                              \/ db.envs[s] # Absent /\ n.envs[s] = Absent
                              \/ db.versions[s] # Absent /\ n.versions[s] = Absent}
      /\ owed' = [h \in Handlers |->
                    [s \in Scopes |-> IF n.envs[s] # Absent /\ n.versions[s] # Absent
                                        THEN owed[h][s] ELSE Absent]]
  BY DEF Writes
<1>2. owed' \in [Handlers -> [Scopes -> Nat \cup {Absent}]]
  BY <1>1 DEF Types
<1>3. \A g \in Handlers : OwesOn(g)
  BY <1>1 DEF OwesOn
<1>4. \A s \in Scopes : n.versions[s] \in Nat \cup {Absent}
  BY StoreParts DEF Follows
<1>5. gone \subseteq gone' /\ gone' \subseteq Scopes
  BY <1>1 DEF Types
<1>6. ASSUME NEW s \in Scopes
      PROVE  /\ db.envs[s] # Absent /\ db.versions[s] # Absent /\ db'.versions[s] # Absent
                  => db.versions[s] <= db'.versions[s]
             /\ s \notin gone' =>
                  /\ Ver(s) <= Ver(s)'
                  /\ backend = "memory" /\ db'.envs[s] = Absent => db'.versions[s] = Absent
             /\ backend = "memory" /\ db.versions[s] = Absent /\ db'.versions[s] # Absent
                  => \A f \in FlagKeys : db'.configs[<<s[1], s[2], f>>] = Absent
  <2>1. db.versions[s] \in Nat \cup {Absent} /\ n.versions[s] \in Nat \cup {Absent}
    BY <1>4, VersionsAre
  <2>2. \/ n.versions[s] \in {db.versions[s], Absent}
        \/ db.versions[s] # Absent /\ n.versions[s] # Absent /\ db.versions[s] <= n.versions[s]
        \/ backend = "sql" /\ db.versions[s] = Absent
        \/ /\ backend = "memory" /\ db.envs[s] = Absent /\ n.envs[s] # Absent
           /\ \A f \in FlagKeys : n.configs[<<s[1], s[2], f>>] = Absent
    BY DEF Follows
  <2>3. s \notin gone' => /\ s \notin gone
                          /\ db.envs[s] # Absent => n.envs[s] # Absent
                          /\ db.versions[s] # Absent => n.versions[s] # Absent
    BY <1>1
  <2>4. s \notin gone /\ backend = "memory" /\ db.envs[s] = Absent => db.versions[s] = Absent
    BY DEF StoreInv
  <2> QED
    BY <1>1, <2>1, <2>2, <2>3, <2>4 DEF Ver
<1>7. \A c \in ConfigKeys : db'.configs[c] \in {db.configs[c], Absent}
  BY <1>1 DEF Follows
<1> QED
  BY <1>1, <1>2, <1>3, <1>5, <1>6, <1>7 DEF StoreMoves, Follows

\* A step that leaves the store alone.
LEMMA QuietMoves ==
  ASSUME ManagementInv, UNCHANGED <<backend, db, gone, owed>>,
         requests' \in Nat, requests <= requests'
  PROVE  StoreMoves /\ \A g \in Handlers : OwesOn(g)
<1> USE DEF ManagementInv
<1>1. \A s \in Scopes : db.versions[s] \in Nat \cup {Absent} /\ Ver(s) \in Nat
  BY VersionsAre
<1>2. \A s \in Scopes : Ver(s)' = Ver(s)
  BY DEF Ver
<1>3. ASSUME NEW s \in Scopes
      PROVE  /\ Ver(s) <= Ver(s)'
             /\ db.versions[s] # Absent => db.versions[s] <= db'.versions[s]
  BY <1>1, <1>2
<1>4. StoreMoves
  BY <1>3 DEF StoreMoves, StoreInv, Types
<1>5. \A g \in Handlers : OwesOn(g)
  BY DEF OwesOn, HandlerInv, Pays
<1> QED
  BY <1>4, <1>5

\* The parts of the local variables, by name.
LEMMA LocalParts ==
  ASSUME Types, NEW h \in Handlers
  PROVE  /\ loc[h] \in Locals /\ pc[h] \in Labels
         /\ loc[h].keys \in Seq(AllKeys) /\ loc[h].todo \subseteq EnvKeys
         /\ loc[h].request \in Nat /\ loc[h].version \in Nat
BY DEF Types, Locals

\* The variables of handler g that decide what it does next.
SameLocals(g) ==
  /\ pc'[g] = pc[g] /\ loc'[g].scope = loc[g].scope /\ loc'[g].key = loc[g].key
  /\ loc'[g].request = loc[g].request /\ loc'[g].todo = loc[g].todo
  /\ loc'[g].version = loc[g].version

\* A handler that takes no step stays right: what others do to the store does not
\* put it ahead of the store, does not take back a version that it has given, and
\* does not bring back a config that was removed.
LEMMA Bystander ==
  ASSUME ManagementInv, StoreMoves, NEW g \in Handlers, OwesOn(g), SameLocals(g)
  PROVE  HandlerInv(g)'
<1>0. PICK s : s = loc[g].scope
  OBVIOUS
<1>1. LocalsOf(g) /\ NotAhead(g) /\ ZeroOf(g) /\ Types /\ StoreInv
  BY DEF ManagementInv, HandlerInv
<1>2. LocalsOf(g)'
  BY <1>1 DEF LocalsOf, SameLocals
<1>3. loc[g].version \in Nat /\ loc[g].request \in Nat
  BY <1>1, LocalParts
<1>4. NotAhead(g)'
  <2>1. SUFFICES ASSUME pc[g] \in {"build", "buildConfig", "publish"}, s \notin gone'
                 PROVE  loc[g].version <= Ver(s)'
    BY <1>0 DEF NotAhead, SameLocals
  <2>2. s \in Scopes /\ s \notin gone
    BY <1>0, <1>1, <2>1 DEF LocalsOf, StoreMoves
  <2>3. loc[g].version <= Ver(s)
    BY <1>0, <1>1, <2>1, <2>2 DEF NotAhead
  <2>4. Ver(s) <= Ver(s)' /\ db' \in Stores
    BY <2>1, <2>2 DEF StoreMoves
  <2>5. Ver(s) \in Nat
    BY <1>1, <2>2, VersionsAre
  <2>6. Ver(s)' \in Nat
    BY <2>2, <2>4, StoreParts DEF Ver
  <2> QED
    BY <1>3, <2>3, <2>4, <2>5, <2>6
<1>5. ZeroOf(g)'
  <2>1. /\ loc[g].request <= requests /\ requests <= requests'
        /\ requests \in Nat /\ requests' \in Nat
    BY <1>1 DEF ZeroOf, StoreMoves, Types
  <2>2. ASSUME pc[g] \in {"buildConfig", "publish"}, loc[g].version = 0,
               db.configs[ConfigOf(g)] # loc[g].request
        PROVE  db'.configs[ConfigOf(g)] # loc[g].request
    <3>1. ConfigOf(g) \in ConfigKeys
      <4>1. s \in Scopes /\ loc[g].key \in FlagKeys
        BY <1>0, <1>1, <2>2 DEF LocalsOf, ConfigLabels, ZeroOf
      <4> QED
        BY <1>0, <4>1, ScopeParts DEF ConfigOf
    <3>2. Absent # loc[g].request
      BY <1>3, AbsentIs
    <3>3. requests + 1 # loc[g].request
      BY <1>3, <2>1
    <3> QED
      BY <2>2, <3>1, <3>2, <3>3 DEF StoreMoves
  <2>3. ASSUME pc[g] = "buildConfig", loc[g].version = 0, db.versions[s] = Absent,
               db'.versions[s] # Absent
        PROVE  db'.configs[ConfigOf(g)] # loc[g].request
    <3>1. s \in Scopes /\ loc[g].key \in FlagKeys /\ backend = "memory"
      BY <1>0, <1>1, <2>3 DEF LocalsOf, ConfigLabels, ZeroOf, Types
    <3>2. db'.configs[ConfigOf(g)] = Absent
      BY <1>0, <2>3, <3>1 DEF StoreMoves, ConfigOf
    <3> QED
      BY <1>3, <3>2, AbsentIs
  <2>4. ConfigOf(g)' = ConfigOf(g)
    BY DEF ConfigOf, SameLocals
  <2>5. loc[g].request <= requests'
    BY <1>3, <2>1
  <2> QED
    BY <1>0, <1>1, <2>2, <2>3, <2>4, <2>5 DEF ZeroOf, SameLocals, StoreMoves
<1>6. ASSUME NEW t \in Scopes, owed'[g][t] # Absent PROVE Pays(g, t)'
  <2>1. owed'[g][t] = owed[g][t] /\ db'.envs[t] # Absent /\ db'.versions[t] # Absent
    BY <1>6 DEF OwesOn
  <2>2. Pays(g, t)
    BY <1>6, <2>1 DEF ManagementInv, HandlerInv
  <2>3. db.versions[t] <= db'.versions[t]
    BY <2>1, <2>2 DEF StoreMoves, Pays
  <2>4. db.versions[t] \in Nat /\ db'.versions[t] \in Nat /\ owed[g][t] \in Nat
    BY <1>1, <1>6, <2>1, <2>2, VersionsAre, StoreParts DEF Types, StoreMoves, Pays
  <2>5. /\ owed[g][t] <= db'.versions[t]
        /\ owed[g][t] < db.versions[t] => owed[g][t] < db'.versions[t]
    BY <2>2, <2>3, <2>4 DEF Pays
  <2> QED
    BY <2>1, <2>2, <2>5 DEF Pays, SameLocals
<1> QED
  BY <1>2, <1>4, <1>5, <1>6 DEF HandlerInv

LEMMA StoreKept ==
  ASSUME ManagementInv, StoreMoves, published' = published
  PROVE  StoreInv'
<1> USE DEF ManagementInv
<1>1. ASSUME NEW s \in Scopes, s \notin gone' PROVE published'[s] <= Ver(s)'
  <2>1. published[s] <= Ver(s) /\ Ver(s) <= Ver(s)'
    BY <1>1 DEF StoreInv, StoreMoves
  <2>2. published[s] \in Nat /\ Ver(s) \in Nat /\ Ver(s)' \in Nat
    BY VersionsAre, StoreParts DEF Types, StoreMoves, Ver
  <2> QED
    BY <2>1, <2>2
<1>2. ASSUME NEW c \in ConfigKeys, db'.configs[c] # Absent PROVE db'.configs[c] <= requests'
  <2>1. db.configs[c] \in Nat \cup {Absent} /\ requests \in Nat
    BY StoreParts DEF Types
  <2>2. db.configs[c] # Absent => db.configs[c] <= requests
    BY DEF StoreInv
  <2> QED
    BY <1>2, <2>1, <2>2 DEF StoreMoves
<1> QED
  BY <1>1, <1>2 DEF StoreInv, StoreMoves

\* No key begins to be created, and no issued key is touched.
LEMMA KeysKept ==
  ASSUME ManagementInv, UNCHANGED <<issued, revoked, spent>>,
         \A k \in revoked : registry'[k] # "active",
         \A g \in Handlers :
           pc'[g] \in CreateLabels => pc[g] \in CreateLabels /\ loc'[g].key = loc[g].key
  PROVE  KeysInv'
BY DEF ManagementInv, KeysInv

-----------------------------------------------------------------------------
(***************************************************************************)
(* The steps.                                                               *)
(***************************************************************************)
\* Calls that administrate projects and environments, while every handler stays
\* where it is.
LEMMA AdminStep ==
  ASSUME ManagementInv, NEW n, Follows(n), Writes(n),
         UNCHANGED <<backend, registry, pc, loc, spent, published, historyVars>>,
         requests' \in Nat, requests <= requests'
  PROVE  ManagementInv'
<1>1. /\ StoreMoves /\ owed' \in [Handlers -> [Scopes -> Nat \cup {Absent}]]
      /\ \A g \in Handlers : OwesOn(g)
  BY WritesMoves DEF ManagementInv
<1>2. Types'
  BY <1>1 DEF ManagementInv, Types, StoreMoves
<1>3. StoreInv'
  BY <1>1, StoreKept
<1>4. KeysInv'
  BY DEF ManagementInv, KeysInv, historyVars
<1>5. ASSUME NEW g \in Handlers PROVE HandlerInv(g)'
  <2>1. SameLocals(g)
    BY DEF SameLocals
  <2> QED
    BY <1>1, <2>1, Bystander
<1> QED
  BY <1>2, <1>3, <1>4, <1>5 DEF ManagementInv

\* A step of handler h, which goes to label l with the variables x.
LEMMA StepOf ==
  ASSUME ManagementInv, StoreMoves, NEW h \in Handlers, NEW l \in Labels, NEW x \in Locals,
         pc' = [pc EXCEPT ![h] = l], loc' = [loc EXCEPT ![h] = x],
         \A g \in Handlers \ {h} : OwesOn(g),
         owed' \in [Handlers -> [Scopes -> Nat \cup {Absent}]],
         registry' \in [AllKeys -> {"none", "active", "revoked"}],
         published' \in [Scopes -> Nat], spent' \subseteq Keys,
         StoreInv', KeysInv', HandlerInv(h)'
  PROVE  ManagementInv'
<1>1. Types'
  BY DEF ManagementInv, Types, StoreMoves
<1>2. ASSUME NEW g \in Handlers, g # h PROVE HandlerInv(g)'
  <2>1. SameLocals(g)
    BY <1>2 DEF SameLocals, ManagementInv, Types
  <2> QED
    BY <1>2, <2>1, Bystander
<1> QED
  BY <1>1, <1>2 DEF ManagementInv

\* Where handler h is after its step.
LEMMA StepIs ==
  ASSUME Types, NEW h \in Handlers, NEW l, NEW x,
         pc' = [pc EXCEPT ![h] = l], loc' = [loc EXCEPT ![h] = x]
  PROVE  /\ pc'[h] = l /\ loc'[h] = x
         /\ \A g \in Handlers \ {h} : pc'[g] = pc[g] /\ loc'[g] = loc[g]
BY DEF Types

LEMMA NoLocalsIs ==
  /\ NoLocals \in Locals
  /\ NoLocals.request = 0 /\ NoLocals.version = 0 /\ NoLocals.todo = {} /\ NoLocals.keys = <<>>
BY DEF NoLocals, Locals

\* A handler that has answered, with nothing owed.
LEMMA IdleInv ==
  ASSUME NEW h \in Handlers, pc'[h] = "idle", loc'[h] = NoLocals, requests' \in Nat,
         \A s \in Scopes : owed'[h][s] = Absent
  PROVE  HandlerInv(h)'
BY NoLocalsIs
DEF HandlerInv, LocalsOf, NotAhead, ZeroOf, CreateLabels, RevokeLabels, ChangeLabels, ConfigLabels

LEMMA SeedInv == ManagementInv /\ (SeedProject \/ SeedEnvironment) => ManagementInv'
<1> SUFFICES ASSUME ManagementInv, SeedProject \/ SeedEnvironment PROVE ManagementInv'
  OBVIOUS
<1>1. requests' = requests /\ requests \in Nat /\ Types /\ StoreInv
  BY DEF SeedProject, SeedEnvironment, httpVars, ManagementInv, Types
<1>2. requests <= requests'
  BY <1>1
<1>3. UNCHANGED <<backend, registry, pc, loc, spent, published, historyVars>>
  BY DEF SeedProject, SeedEnvironment, httpVars
<1>4. CASE SeedProject
  <2>1. PICK es : /\ es = [e \in EnvKeys |-> Absent]
                  /\ Writes(CreateProject(DemoProject, es).db)
    BY <1>4 DEF SeedProject
  <2>2. Follows(CreateProject(DemoProject, es).db)
    BY <1>1, <2>1, CallsFollow, ManagementAssumption DEF KeysOfBodies
  <2> QED
    BY <1>1, <1>2, <1>3, <2>1, <2>2, AdminStep
<1>5. CASE SeedEnvironment
  <2>1. Writes(CreateEnvironment(<<DemoProject, DemoEnv>>, <<DemoKey>>).db)
    BY <1>5 DEF SeedEnvironment
  <2>2. <<DemoProject, DemoEnv>> \in Scopes /\ <<DemoKey>> \in Seq(AllKeys)
    BY ManagementAssumption DEF Scopes, AllKeys
  <2>3. Follows(CreateEnvironment(<<DemoProject, DemoEnv>>, <<DemoKey>>).db)
    BY <1>1, <2>2, CallsFollow
  <2> QED
    BY <1>1, <1>2, <1>3, <2>1, <2>3, AdminStep
<1> QED
  BY <1>4, <1>5

LEMMA OneCallInv ==
  ASSUME ManagementInv, NEW r, Follows(r.db), OneCall(r)
  PROVE  ManagementInv'
<1>1. requests' = requests + 1 /\ requests \in Nat
  BY DEF OneCall, Request, ManagementInv, Types
<1>2. requests <= requests' /\ requests' \in Nat
  BY <1>1
<1>3. Writes(r.db) /\ UNCHANGED <<backend, registry, pc, loc, spent, published, historyVars>>
  BY DEF OneCall
<1> QED
  BY <1>2, <1>3, AdminStep

LEMMA AdminInv ==
  ASSUME ManagementInv,
         \/ HandleCreateProject \/ HandleUpdateProject \/ HandleDeleteProject
         \/ HandleCreateEnvironment \/ HandleUpdateEnvironment \/ HandleDeleteEnvironment
  PROVE  ManagementInv'
<1>1. Types /\ StoreInv /\ BodyKeys \subseteq Seq(AllKeys)
  BY ManagementAssumption DEF ManagementInv, AllKeys
<1>0. ProjectBodies \subseteq KeysOfBodies
  BY <1>1 DEF ProjectBodies, KeysOfBodies
<1>2. CASE HandleCreateProject
  BY <1>0, <1>1, <1>2, CallsFollow, OneCallInv DEF HandleCreateProject
<1>3. CASE HandleUpdateProject
  BY <1>0, <1>1, <1>3, CallsFollow, OneCallInv DEF HandleUpdateProject
<1>4. CASE HandleDeleteProject
  BY <1>1, <1>4, CallsFollow, OneCallInv DEF HandleDeleteProject
<1>5. CASE HandleCreateEnvironment
  BY <1>1, <1>5, CallsFollow, OneCallInv DEF HandleCreateEnvironment
<1>6. CASE HandleUpdateEnvironment
  BY <1>1, <1>6, CallsFollow, OneCallInv DEF HandleUpdateEnvironment
<1>7. CASE HandleDeleteEnvironment
  BY <1>1, <1>7, CallsFollow, OneCallInv DEF HandleDeleteEnvironment
<1> QED
  BY <1>2, <1>3, <1>4, <1>5, <1>6, <1>7

\* The demo key is no key that createSDKKey gives out.
LEMMA RegisterDemoInv == ManagementInv /\ RegisterDemoKeys => ManagementInv'
<1> SUFFICES ASSUME ManagementInv, RegisterDemoKeys PROVE ManagementInv'
  OBVIOUS
<1>1. /\ registry' = [registry EXCEPT ![DemoKey] = "active"]
      /\ UNCHANGED <<backend, db, pc, loc, requests, spent, published, gone, issued, revoked, owed>>
  BY DEF RegisterDemoKeys, httpVars, historyVars
<1>2. requests \in Nat /\ requests <= requests
  BY DEF ManagementInv, Types
<1>3. StoreMoves /\ \A g \in Handlers : OwesOn(g)
  BY <1>1, <1>2, QuietMoves
<1>4. DemoKey \notin revoked /\ revoked \subseteq AllKeys
  BY ManagementAssumption DEF ManagementInv, KeysInv, Types, AllKeys
<1>5. KeysInv'
  BY <1>1, <1>4, KeysKept DEF ManagementInv, Types, KeysInv
<1>6. Types'
  BY <1>1 DEF ManagementInv, Types
<1>7. StoreInv'
  BY <1>1, <1>3, StoreKept
<1>8. ASSUME NEW g \in Handlers PROVE HandlerInv(g)'
  BY <1>1, <1>3, Bystander DEF SameLocals
<1> QED
  BY <1>5, <1>6, <1>7, <1>8 DEF ManagementInv

LEMMA EmptyStoreIs ==
  /\ EmptyStore \in Stores /\ InMemory(EmptyStore)
  /\ \A s \in Scopes : EmptyStore.versions[s] = Absent /\ EmptyStore.envs[s] = Absent
  /\ \A c \in ConfigKeys : EmptyStore.configs[c] = Absent
BY DEF EmptyStore, Stores, InMemory

\* A new process: nothing is in progress, nothing is published, no key is known.
LEMMA FreshInv ==
  ASSUME backend' \in {"memory", "sql"}, db' \in Stores, backend' = "memory" => db' = EmptyStore,
         registry' = [k \in AllKeys |-> "none"],
         pc' = [h \in Handlers |-> "idle"], loc' = [h \in Handlers |-> NoLocals],
         published' = [s \in Scopes |-> 0], gone' = {}, requests' \in Nat,
         owed' = [h \in Handlers |-> NothingOwed], spent' \subseteq Keys,
         revoked' \subseteq issued', issued' \subseteq spent',
         \A c \in ConfigKeys : db'.configs[c] # Absent => db'.configs[c] <= requests'
  PROVE  ManagementInv'
<1>1. Types'
  BY NoLocalsIs DEF Types, NothingOwed, Labels
<1>2. StoreInv'
  <2>1. \A s \in Scopes : Ver(s)' \in Nat
    BY StoreParts DEF Ver
  <2>2. backend' = "memory" => InMemory(db') /\ \A s \in Scopes : db'.versions[s] = Absent
    BY EmptyStoreIs
  <2> QED
    BY <2>1, <2>2 DEF StoreInv
<1>3. KeysInv'
  BY DEF KeysInv, CreateLabels, AllKeys
<1>4. \A h \in Handlers : HandlerInv(h)'
  BY IdleInv DEF NothingOwed
<1> QED
  BY <1>1, <1>2, <1>3, <1>4 DEF ManagementInv

LEMMA CrashInv == ManagementInv /\ Crash => ManagementInv'
<1> SUFFICES ASSUME ManagementInv, Crash PROVE ManagementInv'
  OBVIOUS
<1>1. db' = IF backend = "memory" THEN EmptyStore ELSE db
  BY DEF Crash, Reopened, Mem!Reopen, Sql!Reopen, Mem!EmptyStore, EmptyStore,
         Mem!Scopes, Scopes, Mem!ConfigKeys, ConfigKeys
<1>2. /\ registry' = [k \in AllKeys |-> "none"]
      /\ pc' = [h \in Handlers |-> "idle"] /\ loc' = [h \in Handlers |-> NoLocals]
      /\ published' = [s \in Scopes |-> 0] /\ gone' = {}
      /\ owed' = [h \in Handlers |-> NothingOwed]
      /\ UNCHANGED <<backend, requests, spent, issued, revoked>>
  BY DEF Crash, historyVars
<1>3. db' \in Stores /\ \A c \in ConfigKeys : db'.configs[c] # Absent => db'.configs[c] <= requests
  BY <1>1, EmptyStoreIs DEF ManagementInv, Types, StoreInv
<1> QED
  BY <1>1, <1>2, <1>3, FreshInv DEF ManagementInv, Types, KeysInv

\* A handler that is busy with keys owes nothing.
LEMMA OwesNothing ==
  ASSUME ManagementInv, NEW h \in Handlers, pc[h] \notin PublishLabels
  PROVE  \A s \in Scopes : owed[h][s] = Absent
BY DEF ManagementInv, HandlerInv, Pays

\* What is left to show of a handler that is busy with keys.
LEMMA KeyLocals ==
  ASSUME NEW h \in Handlers, pc'[h] \in CreateLabels \cup RevokeLabels,
         loc'[h].request <= requests', \A s \in Scopes : owed'[h][s] = Absent,
         loc'[h].scope \in Scopes,
         loc'[h].key \in (IF pc'[h] \in CreateLabels THEN Keys ELSE AllKeys)
  PROVE  HandlerInv(h)'
BY DEF HandlerInv, LocalsOf, NotAhead, ZeroOf, CreateLabels, RevokeLabels, ChangeLabels, ConfigLabels

LEMMA RequestIs ==
  ASSUME Types, Request
  PROVE  requests' = requests + 1 /\ requests' \in Nat /\ requests <= requests'
BY DEF Types, Request

LEMMA FindsIs ==
  ASSUME Types, NEW s \in Scopes, FindsEnvironment(s)
  PROVE  db.envs[s] \in Seq(AllKeys)
<1>1. db.envs[s] \in Seq(AllKeys) \cup {Absent}
  BY StoreParts DEF Types
<1> QED
  BY <1>1 DEF FindsEnvironment, Mem!FindsEnvironment, Sql!FindsEnvironment

\* A step of handler h that leaves the store alone.
LEMMA QuietStepOf ==
  ASSUME ManagementInv, UNCHANGED <<backend, db, gone, owed, published>>,
         requests' \in Nat, requests <= requests',
         NEW h \in Handlers, NEW l \in Labels, NEW x \in Locals,
         pc' = [pc EXCEPT ![h] = l], loc' = [loc EXCEPT ![h] = x],
         registry' \in [AllKeys -> {"none", "active", "revoked"}],
         spent' \subseteq Keys, KeysInv', HandlerInv(h)'
  PROVE  ManagementInv'
<1>1. StoreMoves /\ \A g \in Handlers : OwesOn(g)
  BY QuietMoves
<1>2. StoreInv'
  BY <1>1, StoreKept
<1> QED
  BY <1>1, <1>2, StepOf DEF ManagementInv, Types

LEMMA CreateSDKKeyInv ==
  ASSUME ManagementInv, NEW h \in Handlers, CreateSDKKey(h)
  PROVE  ManagementInv'
<1>1. PICK s \in Scopes, k \in Keys \ spent :
        /\ FindsEnvironment(s)
        /\ spent' = spent \cup {k}
        /\ loc' = [loc EXCEPT ![h] =
                     [NoLocals EXCEPT !.scope = s, !.key = k, !.keys = db.envs[s]]]
  BY Zenon DEF CreateSDKKey
<1> DEFINE x == [NoLocals EXCEPT !.scope = s, !.key = k, !.keys = db.envs[s]]
<1>2. /\ pc[h] = "idle" /\ Request /\ pc' = [pc EXCEPT ![h] = "append"]
      /\ UNCHANGED <<backend, db, registry, gone, issued, revoked, owed, published>>
  BY DEF CreateSDKKey, Goto, keyUnchanged, historyVars
<1>3. Types
  BY DEF ManagementInv
<1>4. x \in Locals /\ x.scope = s /\ x.key = k /\ x.request = 0
  <2>1. db.envs[s] \in Seq(AllKeys) /\ k \in AllKeys
    BY <1>1, <1>3, FindsIs DEF AllKeys
  <2> QED
    BY <2>1 DEF NoLocals, Locals
<1> HIDE DEF x
<1>5. loc' = [loc EXCEPT ![h] = x]
  BY <1>1 DEF x
<1>6. /\ pc'[h] = "append" /\ loc'[h] = x
      /\ \A g \in Handlers \ {h} : pc'[g] = pc[g] /\ loc'[g] = loc[g]
  BY <1>2, <1>3, <1>5, StepIs
<1>7. requests' \in Nat /\ requests <= requests'
  BY <1>2, <1>3, RequestIs
<1>8. KeysInv'
  <2>1. issued \subseteq spent /\ k \notin spent
    BY <1>1 DEF ManagementInv, KeysInv
  <2>2. \A g \in Handlers : pc'[g] \in CreateLabels => loc'[g].key \in spent' \ issued'
    BY <1>1, <1>2, <1>4, <1>6, <2>1 DEF ManagementInv, KeysInv
  <2>3. \A g \in Handlers \ {h} : pc'[g] \in CreateLabels => loc'[g].key # k
    BY <1>6, <2>1 DEF ManagementInv, KeysInv
  <2>4. \A f, g \in Handlers :
          /\ pc'[f] \in CreateLabels /\ pc'[g] \in CreateLabels /\ loc'[f].key = loc'[g].key
          => f = g
    BY <1>4, <1>6, <2>3 DEF ManagementInv, KeysInv
  <2> QED
    BY <1>1, <1>2, <2>1, <2>2, <2>4 DEF ManagementInv, KeysInv
<1>9. HandlerInv(h)'
  <2>1. \A t \in Scopes : owed'[h][t] = Absent
    BY <1>2, OwesNothing DEF PublishLabels, ChangeLabels, ConfigLabels
  <2> QED
    BY <1>4, <1>6, <1>7, <2>1, KeyLocals DEF CreateLabels
<1>10. "append" \in Labels /\ spent' \subseteq Keys
       /\ registry' \in [AllKeys -> {"none", "active", "revoked"}]
  BY <1>1, <1>2, <1>3 DEF Types, Labels, CreateLabels
<1> QED
  BY <1>2, <1>4, <1>5, <1>7, <1>8, <1>9, <1>10, QuietStepOf

LEMMA RevokeSDKKeyInv ==
  ASSUME ManagementInv, NEW h \in Handlers, RevokeSDKKey(h)
  PROVE  ManagementInv'
<1>1. PICK s \in Scopes, k \in AllKeys :
        /\ FindsEnvironment(s)
        /\ loc' = [loc EXCEPT ![h] =
                     [NoLocals EXCEPT !.scope = s, !.key = k,
                                      !.keys = KeysWithout(db.envs[s], k)]]
  BY Zenon DEF RevokeSDKKey
<1> DEFINE x == [NoLocals EXCEPT !.scope = s, !.key = k, !.keys = KeysWithout(db.envs[s], k)]
<1>2. /\ pc[h] = "idle" /\ Request /\ pc' = [pc EXCEPT ![h] = "remove"]
      /\ UNCHANGED <<backend, db, registry, spent, gone, issued, revoked, owed, published>>
  BY DEF RevokeSDKKey, Goto, keyUnchanged, historyVars
<1>3. Types
  BY DEF ManagementInv
<1>4. x \in Locals /\ x.scope = s /\ x.key = k /\ x.request = 0
  <2>1. KeysWithout(db.envs[s], k) \in Seq(AllKeys)
    BY <1>1, <1>3, FindsIs, KeysWithoutType
  <2> QED
    BY <2>1 DEF NoLocals, Locals
<1> HIDE DEF x
<1>5. loc' = [loc EXCEPT ![h] = x]
  BY <1>1 DEF x
<1>6. /\ pc'[h] = "remove" /\ loc'[h] = x
      /\ \A g \in Handlers \ {h} : pc'[g] = pc[g] /\ loc'[g] = loc[g]
  BY <1>2, <1>3, <1>5, StepIs
<1>7. requests' \in Nat /\ requests <= requests'
  BY <1>2, <1>3, RequestIs
<1>8. KeysInv'
  BY <1>2, <1>6, KeysKept DEF ManagementInv, KeysInv, CreateLabels
<1>9. HandlerInv(h)'
  <2>1. \A t \in Scopes : owed'[h][t] = Absent
    BY <1>2, OwesNothing DEF PublishLabels, ChangeLabels, ConfigLabels
  <2> QED
    BY <1>4, <1>6, <1>7, <2>1, KeyLocals DEF CreateLabels, RevokeLabels
<1> QED
  BY <1>2, <1>3, <1>4, <1>5, <1>7, <1>8, <1>9, QuietStepOf
  DEF Types, Labels, RevokeLabels

\* A key that is registered is nobody else's and has not been revoked.
LEMMA RegisterSDKKeyInv ==
  ASSUME ManagementInv, NEW h \in Handlers, RegisterSDKKey(h)
  PROVE  ManagementInv'
<1>1. PICK k : k = loc[h].key
  OBVIOUS
<1>2. /\ pc[h] = "register" /\ registry' = [registry EXCEPT ![k] = "active"]
      /\ issued' = issued \cup {k}
      /\ pc' = [pc EXCEPT ![h] = "idle"] /\ loc' = [loc EXCEPT ![h] = NoLocals]
      /\ UNCHANGED <<backend, db, requests, spent, gone, revoked, owed, published>>
  BY <1>1 DEF RegisterSDKKey, Answer, Goto, keyUnchanged
<1>3. Types /\ pc[h] \in CreateLabels
  BY <1>2 DEF ManagementInv, CreateLabels
<1>4. k \in spent \ issued /\ k \in AllKeys
  BY <1>1, <1>3 DEF ManagementInv, KeysInv, Types, AllKeys
<1>5. /\ pc'[h] = "idle" /\ loc'[h] = NoLocals
      /\ \A g \in Handlers \ {h} : pc'[g] = pc[g] /\ loc'[g] = loc[g]
  BY <1>2, <1>3, StepIs
<1>6. registry' \in [AllKeys -> {"none", "active", "revoked"}]
  BY <1>2, <1>3 DEF Types
<1>7. KeysInv'
  <2>1. \A g \in Handlers \ {h} : pc[g] \in CreateLabels => loc[g].key # k
    BY <1>1, <1>3 DEF ManagementInv, KeysInv
  <2>2. \A g \in Handlers : pc'[g] \in CreateLabels => loc'[g].key \in spent' \ issued'
    BY <1>2, <1>5, <2>1 DEF ManagementInv, KeysInv, CreateLabels
  <2>3. \A j \in revoked : j # k /\ registry'[j] # "active"
    BY <1>2, <1>3, <1>4 DEF ManagementInv, KeysInv, Types
  <2>4. \A f, g \in Handlers :
          /\ pc'[f] \in CreateLabels /\ pc'[g] \in CreateLabels /\ loc'[f].key = loc'[g].key
          => f = g
    BY <1>5 DEF ManagementInv, KeysInv, CreateLabels
  <2> QED
    BY <1>2, <1>4, <2>2, <2>3, <2>4 DEF ManagementInv, KeysInv
<1>8. requests' \in Nat /\ requests <= requests'
  BY <1>2, <1>3 DEF Types
<1>9. HandlerInv(h)'
  <2>1. \A t \in Scopes : owed'[h][t] = Absent
    BY <1>2, OwesNothing DEF PublishLabels, ChangeLabels, ConfigLabels
  <2> QED
    BY <1>5, <1>8, <2>1, IdleInv
<1> QED
  BY <1>2, <1>3, <1>6, <1>7, <1>8, <1>9, NoLocalsIs, QuietStepOf DEF Types, Labels

LEMMA RevokeInRegistryInv ==
  ASSUME ManagementInv, NEW h \in Handlers, RevokeInRegistry(h)
  PROVE  ManagementInv'
<1>1. PICK k : k = loc[h].key
  OBVIOUS
<1>2. /\ pc[h] = "revoke"
      /\ registry' = [registry EXCEPT ![k] = IF registry[k] = "none" THEN "none" ELSE "revoked"]
      /\ revoked' = revoked \cup ({k} \cap issued)
      /\ pc' = [pc EXCEPT ![h] = "idle"] /\ loc' = [loc EXCEPT ![h] = NoLocals]
      /\ UNCHANGED <<backend, db, requests, spent, gone, issued, owed, published>>
  BY <1>1 DEF RevokeInRegistry, Answer, Goto, keyUnchanged
<1>3. Types /\ pc[h] \in RevokeLabels
  BY <1>2 DEF ManagementInv, RevokeLabels
<1>4. k \in AllKeys
  BY <1>1, <1>3 DEF ManagementInv, HandlerInv, LocalsOf
<1>5. /\ pc'[h] = "idle" /\ loc'[h] = NoLocals
      /\ \A g \in Handlers \ {h} : pc'[g] = pc[g] /\ loc'[g] = loc[g]
  BY <1>2, <1>3, StepIs
<1>6. registry' \in [AllKeys -> {"none", "active", "revoked"}]
  BY <1>2, <1>3 DEF Types
<1>7. KeysInv'
  <2>1. registry'[k] # "active" /\ \A j \in AllKeys \ {k} : registry'[j] = registry[j]
    BY <1>2, <1>3, <1>4 DEF Types
  <2>2. revoked \subseteq AllKeys
    BY <1>3 DEF ManagementInv, KeysInv, Types, AllKeys
  <2>3. \A j \in revoked' : registry'[j] # "active"
    BY <1>2, <2>1, <2>2 DEF ManagementInv, KeysInv
  <2> QED
    BY <1>2, <1>5, <2>3 DEF ManagementInv, KeysInv, CreateLabels
<1>8. requests' \in Nat /\ requests <= requests'
  BY <1>2, <1>3 DEF Types
<1>9. HandlerInv(h)'
  <2>1. \A t \in Scopes : owed'[h][t] = Absent
    BY <1>2, OwesNothing DEF PublishLabels, ChangeLabels, ConfigLabels
  <2> QED
    BY <1>5, <1>8, <2>1, IdleInv
<1> QED
  BY <1>2, <1>3, <1>6, <1>7, <1>8, <1>9, NoLocalsIs, QuietStepOf DEF Types, Labels

\* A change of the store that removes nothing.
LEMMA NothingRemoved ==
  ASSUME ManagementInv, NEW n, n.versions = db.versions,
         \A s \in Scopes : n.envs[s] = Absent <=> db.envs[s] = Absent,
         db' = n, UNCHANGED <<gone, owed>>
  PROVE  Writes(n)
<1> DEFINE There(s) == n.envs[s] # Absent /\ n.versions[s] # Absent
           Removed(s) == \/ db.envs[s] # Absent /\ n.envs[s] = Absent
                         \/ db.versions[s] # Absent /\ n.versions[s] = Absent
<1>1. {s \in Scopes : Removed(s)} = {}
  OBVIOUS
<1>2. \A h \in Handlers, s \in Scopes : owed[h][s] # Absent => There(s)
  BY DEF ManagementInv, HandlerInv, Pays
<1>3. owed = [h \in Handlers |-> [s \in Scopes |-> IF There(s) THEN owed[h][s] ELSE Absent]]
  <2>1. owed \in [Handlers -> [Scopes -> Nat \cup {Absent}]]
    BY DEF ManagementInv, Types
  <2>2. \A h \in Handlers :
          owed[h] = [s \in Scopes |-> IF There(s) THEN owed[h][s] ELSE Absent]
    BY <1>2, <2>1
  <2> QED
    BY <2>1, <2>2
<1>4. gone' = gone \cup {s \in Scopes : Removed(s)}
  BY <1>1
<1> QED
  BY <1>3, <1>4 DEF Writes

\* An append into a shared array replaces one key of a list by another.
LEMMA OverwriteType ==
  ASSUME NEW h \in Handlers, NEW ks \in Seq(AllKeys), loc[h].key \in AllKeys,
         loc[h].keys \in Seq(AllKeys)
  PROVE  Overwrite(ks, h) \in Seq(AllKeys)
<1> DEFINE i == Len(loc[h].keys) + 1
<1>1. CASE Len(ks) >= i
  <2>1. i \in 1 .. Len(ks)
    BY <1>1
  <2> HIDE DEF i
  <2>2. [ks EXCEPT ![i] = loc[h].key] \in Seq(AllKeys)
    <3>1. ks \in [1 .. Len(ks) -> AllKeys] /\ Len(ks) \in Nat
      OBVIOUS
    <3>2. [ks EXCEPT ![i] = loc[h].key] \in [1 .. Len(ks) -> AllKeys]
      BY <2>1, <3>1
    <3> QED
      BY <3>1, <3>2
  <2>3. Overwrite(ks, h) \in {ks, [ks EXCEPT ![i] = loc[h].key]}
    BY DEF Overwrite, i
  <2> QED
    BY <2>2, <2>3
<1>2. CASE ~(Len(ks) >= i)
  BY <1>2 DEF Overwrite
<1> QED
  BY <1>1, <1>2

\* The list of a handler, and with a shared array those of others and of the
\* store, get the key; nothing else changes.
LEMMA AppendSDKKeyInv ==
  ASSUME ManagementInv, NEW h \in Handlers, AppendSDKKey(h)
  PROVE  ManagementInv'
<1> DEFINE appended == [loc EXCEPT ![h].keys = Append(@, loc[h].key)]
<1>1. /\ pc[h] = "append" /\ pc' = [pc EXCEPT ![h] = "update"]
      /\ UNCHANGED <<backend, registry, requests, spent, gone, issued, revoked, owed, published>>
  BY DEF AppendSDKKey, Goto, keyUnchanged, historyVars
<1>2. Types /\ StoreInv /\ LocalsOf(h) /\ requests \in Nat /\ requests <= requests'
  BY <1>1 DEF ManagementInv, HandlerInv, Types
<1>3. loc[h].scope \in Scopes /\ loc[h].key \in Keys /\ loc[h].key \in AllKeys
  BY <1>1, <1>2 DEF LocalsOf, CreateLabels, AllKeys
<1>4. loc \in [Handlers -> Locals] /\ \A g \in Handlers : loc[g].keys \in Seq(AllKeys)
  BY <1>2 DEF Types, Locals
<1>5. appended \in [Handlers -> Locals]
      /\ \A g \in Handlers : /\ appended[g].scope = loc[g].scope /\ appended[g].key = loc[g].key
                             /\ appended[g].request = loc[g].request
                             /\ appended[g].todo = loc[g].todo
                             /\ appended[g].version = loc[g].version
  <2>1. Append(loc[h].keys, loc[h].key) \in Seq(AllKeys)
    BY <1>3, <1>4
  <2> QED
    BY <1>4, <2>1 DEF Locals
<1> HIDE DEF appended
<1>6. \/ loc' = appended /\ db' = db
      \/ /\ loc' = [g \in Handlers |->
                      IF g # h /\ pc[g] \in {"append", "update"} /\ loc[g].scope = loc[h].scope
                        THEN [loc[g] EXCEPT !.keys = Overwrite(loc[g].keys, h)]
                        ELSE appended[g]]
         /\ db' = IF db.envs[loc[h].scope] = Absent THEN db
                  ELSE [db EXCEPT !.envs[loc[h].scope] = Overwrite(db.envs[loc[h].scope], h)]
  BY DEF AppendSDKKey, appended
<1>7. loc' \in [Handlers -> Locals]
      /\ \A g \in Handlers : /\ loc'[g].scope = loc[g].scope /\ loc'[g].key = loc[g].key
                             /\ loc'[g].request = loc[g].request
                             /\ loc'[g].todo = loc[g].todo
                             /\ loc'[g].version = loc[g].version
  <2>1. \A g \in Handlers : Overwrite(loc[g].keys, h) \in Seq(AllKeys)
    BY <1>3, <1>4, OverwriteType
  <2>2. ASSUME NEW g \in Handlers
        PROVE  LET x == [loc[g] EXCEPT !.keys = Overwrite(loc[g].keys, h)]
               IN  /\ x \in Locals /\ x.scope = loc[g].scope /\ x.key = loc[g].key
                   /\ x.request = loc[g].request /\ x.todo = loc[g].todo
                   /\ x.version = loc[g].version
    BY <1>4, <2>1 DEF Locals
  <2>3. CASE loc' = appended
    BY <1>5, <2>3
  <2>4. CASE loc' = [g \in Handlers |->
                       IF g # h /\ pc[g] \in {"append", "update"} /\ loc[g].scope = loc[h].scope
                         THEN [loc[g] EXCEPT !.keys = Overwrite(loc[g].keys, h)]
                         ELSE appended[g]]
    <3>1. \A g \in Handlers :
            loc'[g] \in {appended[g], [loc[g] EXCEPT !.keys = Overwrite(loc[g].keys, h)]}
      BY <2>4
    <3>2. \A g \in Handlers : appended[g] \in Locals
      BY <1>5
    <3>3. \A g \in Handlers : loc'[g] \in Locals
      BY <2>2, <3>1, <3>2
    <3>4. loc' = [g \in Handlers |-> loc'[g]]
      BY <2>4
    <3>5. loc' \in [Handlers -> Locals]
      BY <3>3, <3>4
    <3>6. ASSUME NEW g \in Handlers
          PROVE  /\ loc'[g].scope = loc[g].scope /\ loc'[g].key = loc[g].key
                 /\ loc'[g].request = loc[g].request /\ loc'[g].todo = loc[g].todo
                 /\ loc'[g].version = loc[g].version
      <4>1. CASE loc'[g] = appended[g]
        BY <1>5, <4>1
      <4>2. CASE loc'[g] = [loc[g] EXCEPT !.keys = Overwrite(loc[g].keys, h)]
        BY <2>2, <4>2
      <4> QED
        BY <3>1, <4>1, <4>2
    <3> QED
      BY <3>5, <3>6
  <2> QED
    BY <1>6, <2>3, <2>4
<1>8. /\ Follows(db') /\ db'.versions = db.versions
      /\ \A s \in Scopes : db'.envs[s] = Absent <=> db.envs[s] = Absent
  <2>1. CASE db' = db
    BY <1>2, <2>1, StoreFollows
  <2>2. CASE db' # db
    <3>1. PICK s \in Scopes : s = loc[h].scope
      BY <1>3
    <3>2. PICK ks : ks = Overwrite(db.envs[s], h)
      OBVIOUS
    <3>3. db.envs[s] # Absent /\ db' = [db EXCEPT !.envs[s] = ks]
      BY <1>6, <2>2, <3>1, <3>2
    <3>4. db.envs[s] \in Seq(AllKeys)
      BY <1>2, <3>3, StoreParts DEF Types
    <3>5. ks \in Seq(AllKeys) /\ ks # Absent
      BY <1>3, <1>4, <3>2, <3>4, OverwriteType, AbsentIs
    <3>6. Follows([db EXCEPT !.envs[s] = ks])
      BY <1>2, <3>3, <3>5, EnvironmentUpdated
    <3>7. /\ [db EXCEPT !.envs[s] = ks].versions = db.versions
          /\ [db EXCEPT !.envs[s] = ks].envs = [db.envs EXCEPT ![s] = ks]
      BY <1>2 DEF Types, Stores
    <3>8. \A t \in Scopes : [db.envs EXCEPT ![s] = ks][t] = IF t = s THEN ks ELSE db.envs[t]
      BY <1>2, StoreParts DEF Types
    <3> QED
      BY <3>3, <3>5, <3>6, <3>7, <3>8
  <2> QED
    BY <2>1, <2>2
<1>9. /\ StoreMoves /\ \A g \in Handlers : OwesOn(g)
      /\ owed' \in [Handlers -> [Scopes -> Nat \cup {Absent}]]
  <2>1. PICK n : n = db'
    OBVIOUS
  <2>2. Writes(n)
    BY <1>1, <1>8, <2>1, NothingRemoved
  <2> QED
    BY <1>1, <1>2, <1>8, <2>1, <2>2, WritesMoves
<1>10. /\ pc'[h] = "update" /\ \A g \in Handlers \ {h} : pc'[g] = pc[g]
       /\ pc' \in [Handlers -> Labels]
  BY <1>1, <1>2 DEF Types, Labels, CreateLabels
<1>11. Types'
  BY <1>1, <1>2, <1>7, <1>9, <1>10 DEF Types, StoreMoves
<1>12. StoreInv'
  BY <1>1, <1>9, StoreKept
<1>13. KeysInv'
  BY <1>1, <1>7, <1>10, KeysKept DEF ManagementInv, KeysInv, CreateLabels
<1>14. ASSUME NEW g \in Handlers, g # h PROVE HandlerInv(g)'
  <2>1. SameLocals(g)
    BY <1>7, <1>10, <1>14 DEF SameLocals
  <2> QED
    BY <1>9, <2>1, Bystander
<1>15. HandlerInv(h)'
  <2>1. \A t \in Scopes : owed'[h][t] = Absent
    BY <1>1, OwesNothing DEF PublishLabels, ChangeLabels, ConfigLabels
  <2>2. loc[h].request <= requests
    BY DEF ManagementInv, HandlerInv, ZeroOf
  <2> QED
    BY <1>1, <1>2, <1>3, <1>7, <1>10, <2>1, <2>2, KeyLocals DEF CreateLabels
<1> QED
  BY <1>11, <1>12, <1>13, <1>14, <1>15 DEF ManagementInv

\* UpdateEnvironment of createSDKKey and of revokeSDKKey.
LEMMA StoreKeysInv ==
  ASSUME ManagementInv, NEW h \in Handlers,
         UpdateForCreate(h) \/ UpdateForRevoke(h)
  PROVE  ManagementInv'
<1>1. PICK next \in {"register", "revoke"} :
        /\ next = "register" => pc[h] = "update"
        /\ next = "revoke" => pc[h] = "remove"
        /\ StoreKeys(h, next)
  BY DEF UpdateForCreate, UpdateForRevoke
<1>2. Types /\ StoreInv /\ LocalsOf(h) /\ requests \in Nat
  BY DEF ManagementInv, HandlerInv, Types
<1>3. PICK r : r = UpdateEnvironment(loc[h].scope, loc[h].keys)
  OBVIOUS
<1>4. /\ Writes(r.db)
      /\ IF r.ok THEN Goto(h, next) /\ UNCHANGED loc ELSE Answer(h)
      /\ UNCHANGED <<backend, registry, requests, spent, issued, revoked, published>>
  BY <1>1, <1>3 DEF StoreKeys, keyUnchanged, historyVars
<1>5. loc[h].scope \in Scopes /\ loc[h].keys \in Seq(AllKeys)
  BY <1>1, <1>2, LocalParts DEF LocalsOf, CreateLabels, RevokeLabels
<1>6. Follows(r.db)
  BY <1>2, <1>3, <1>5, CallsFollow
<1>7. requests' \in Nat /\ requests <= requests'
  BY <1>2, <1>4
<1>8. /\ StoreMoves /\ owed' \in [Handlers -> [Scopes -> Nat \cup {Absent}]]
      /\ \A g \in Handlers : OwesOn(g)
  BY <1>2, <1>4, <1>6, <1>7, WritesMoves
<1>9. StoreInv'
  BY <1>4, <1>8, StoreKept
<1>10. \A s \in Scopes : owed'[h][s] = Absent
  <2>1. \A s \in Scopes : owed[h][s] = Absent
    BY <1>1, OwesNothing DEF PublishLabels, ChangeLabels, ConfigLabels
  <2> QED
    BY <1>8, <2>1 DEF OwesOn
<1>11. /\ registry' \in [AllKeys -> {"none", "active", "revoked"}]
       /\ published' \in [Scopes -> Nat] /\ spent' \subseteq Keys
  BY <1>2, <1>4 DEF Types
<1>12. CASE r.ok
  <2>1. pc' = [pc EXCEPT ![h] = next] /\ loc' = [loc EXCEPT ![h] = loc[h]]
    BY <1>2, <1>4, <1>12 DEF Goto, Types
  <2>2. /\ pc'[h] = next /\ loc'[h] = loc[h]
        /\ \A g \in Handlers \ {h} : pc'[g] = pc[g] /\ loc'[g] = loc[g]
    BY <1>2, <2>1, StepIs
  <2>3. KeysInv'
    BY <1>1, <1>4, <2>2, KeysKept DEF ManagementInv, KeysInv, CreateLabels
  <2>4. loc[h].request <= requests
    BY DEF ManagementInv, HandlerInv, ZeroOf
  <2>5. /\ next \in CreateLabels \cup RevokeLabels
        /\ loc[h].key \in (IF next \in CreateLabels THEN Keys ELSE AllKeys)
    BY <1>1, <1>2 DEF LocalsOf, CreateLabels, RevokeLabels
  <2>6. HandlerInv(h)'
    BY <1>4, <1>5, <1>10, <2>2, <2>4, <2>5, KeyLocals
  <2>7. next \in Labels /\ loc[h] \in Locals
    BY <1>2, <2>5 DEF Types, Labels
  <2> QED
    BY <1>8, <1>9, <1>11, <2>1, <2>3, <2>6, <2>7, StepOf
<1>13. CASE ~r.ok
  <2>1. pc' = [pc EXCEPT ![h] = "idle"] /\ loc' = [loc EXCEPT ![h] = NoLocals]
    BY <1>4, <1>13 DEF Goto, Answer
  <2>2. /\ pc'[h] = "idle" /\ loc'[h] = NoLocals
        /\ \A g \in Handlers \ {h} : pc'[g] = pc[g] /\ loc'[g] = loc[g]
    BY <1>2, <2>1, StepIs
  <2>3. KeysInv'
    BY <1>1, <1>4, <2>2, KeysKept DEF ManagementInv, KeysInv, CreateLabels
  <2>4. HandlerInv(h)'
    BY <1>7, <1>10, <2>2, IdleInv
  <2>5. "idle" \in Labels /\ NoLocals \in Locals
    BY NoLocalsIs DEF Labels
  <2> QED
    BY <1>8, <1>9, <1>11, <2>1, <2>3, <2>4, <2>5, StepOf
<1> QED
  BY <1>12, <1>13

LEMMA KeyStepInv ==
  ASSUME ManagementInv, NEW h \in Handlers, KeyStep(h)
  PROVE  ManagementInv'
BY CreateSDKKeyInv, AppendSDKKeyInv, StoreKeysInv, RegisterSDKKeyInv, RevokeSDKKeyInv,
   RevokeInRegistryInv
DEF KeyStep

\* A change of the definitions or of a config leaves the environments alone.
LEMMA SameEnvironments ==
  ASSUME ManagementInv, db' \in Stores, backend = "memory" => InMemory(db'),
         db'.envs = db.envs, db'.versions = db.versions, UNCHANGED <<backend, gone>>,
         requests' = requests + 1, NEW h \in Handlers, NEW o, owed' = [owed EXCEPT ![h] = o],
         \A c \in ConfigKeys : db'.configs[c] \in {db.configs[c], Absent, requests + 1}
  PROVE  StoreMoves /\ \A g \in Handlers \ {h} : OwesOn(g)
<1> USE DEF ManagementInv
<1>1. \A s \in Scopes : db.versions[s] \in Nat \cup {Absent} /\ Ver(s) \in Nat
  BY VersionsAre
<1>2. \A s \in Scopes : Ver(s)' = Ver(s)
  BY DEF Ver
<1>3. ASSUME NEW s \in Scopes
      PROVE  /\ Ver(s) <= Ver(s)'
             /\ db.versions[s] # Absent => db.versions[s] <= db'.versions[s]
  BY <1>1, <1>2
<1>4. requests \in Nat /\ requests' \in Nat /\ requests <= requests'
  BY DEF Types
<1>5. StoreMoves
  BY <1>3, <1>4 DEF StoreMoves, StoreInv, Types
<1>6. \A g \in Handlers \ {h} : owed'[g] = owed[g]
  BY DEF Types
<1>7. \A g \in Handlers \ {h} : OwesOn(g)
  BY <1>6 DEF OwesOn, HandlerInv, Pays
<1> QED
  BY <1>5, <1>7

\* What a handler owes after its write.
LEMMA OwesIs ==
  ASSUME NEW n \in Stores, NEW ss
  PROVE  /\ Owes(n, ss) \in [Scopes -> Nat \cup {Absent}]
         /\ \A s \in Scopes : Owes(n, ss)[s] # Absent =>
              s \in ss /\ n.envs[s] # Absent /\ Owes(n, ss)[s] = n.versions[s]
<1>1. n.versions \in [Scopes -> Nat \cup {Absent}]
  BY StoreParts
<1> QED
  BY <1>1 DEF Owes

\* The first step of a handler that changes a flag, a segment or a config.
LEMMA WritesForInv ==
  ASSUME ManagementInv, NEW h \in Handlers, NEW r, NEW ss, NEW next \in Labels, NEW x \in Locals,
         WritesFor(h, r, ss, next, x),
         r.db \in Stores, backend = "memory" => InMemory(r.db),
         r.db.envs = db.envs, r.db.versions = db.versions,
         \A c \in ConfigKeys : r.db.configs[c] \in {db.configs[c], Absent, requests + 1},
         next \notin CreateLabels,
         StoreMoves /\ pc'[h] = next /\ loc'[h] = x
           => LocalsOf(h)' /\ NotAhead(h)' /\ ZeroOf(h)',
         next \in PublishLabels \ {"buildConfig", "publish", "answer", "loop", "build"},
         \A s \in ss : next = "increment" => s = x.scope,
         \A s \in ss : next = "list" => s[1] = x.scope[1]
  PROVE  ManagementInv'
<1>1. /\ pc[h] = "idle" /\ requests' = requests + 1 /\ db' = r.db
      /\ owed' = [owed EXCEPT ![h] = Owes(r.db, ss)]
      /\ pc' = [pc EXCEPT ![h] = next] /\ loc' = [loc EXCEPT ![h] = x]
      /\ UNCHANGED <<backend, registry, spent, published, gone, issued, revoked>>
  BY DEF WritesFor, Request, Goto, publishUnchanged, historyVars
<1>2. Types
  BY DEF ManagementInv
<1>3. StoreMoves /\ \A g \in Handlers \ {h} : OwesOn(g)
  BY <1>1, SameEnvironments
<1>4. /\ pc'[h] = next /\ loc'[h] = x
      /\ \A g \in Handlers \ {h} : pc'[g] = pc[g] /\ loc'[g] = loc[g]
  BY <1>1, <1>2, StepIs
<1>5. owed' \in [Handlers -> [Scopes -> Nat \cup {Absent}]] /\ owed'[h] = Owes(r.db, ss)
  BY <1>1, <1>2, OwesIs DEF Types
<1>6. ASSUME NEW s \in Scopes, owed'[h][s] # Absent PROVE Pays(h, s)'
  <2>1. s \in ss /\ db'.envs[s] # Absent /\ owed'[h][s] = db'.versions[s]
    BY <1>1, <1>5, <1>6, OwesIs
  <2>2. owed'[h][s] \in Nat
    BY <1>5, <1>6
  <2>3. owed'[h][s] <= db'.versions[s] /\ db'.versions[s] # Absent
    BY <1>6, <2>1, <2>2
  <2> QED
    BY <1>4, <2>1, <2>3 DEF Pays, PublishLabels, ChangeLabels, ConfigLabels
<1>7. HandlerInv(h)'
  BY <1>3, <1>4, <1>6 DEF HandlerInv
<1>8. StoreInv'
  BY <1>1, <1>3, StoreKept
<1>9. KeysInv'
  BY <1>1, <1>4, KeysKept DEF ManagementInv, KeysInv
<1>10. /\ registry' \in [AllKeys -> {"none", "active", "revoked"}]
       /\ published' \in [Scopes -> Nat] /\ spent' \subseteq Keys
  BY <1>1, <1>2 DEF Types
<1> QED
  BY <1>1, <1>3, <1>5, <1>7, <1>8, <1>9, <1>10, StepOf

\* The definitions of a project that exists may change, and nothing else with them.
DefinitionsOnly(n) ==
  /\ n \in Stores /\ (backend = "memory" => InMemory(n))
  /\ n.envs = db.envs /\ n.versions = db.versions /\ n.configs = db.configs

LEMMA DefinitionsChanged ==
  ASSUME Types, StoreInv, NEW p \in Projects, backend = "memory" => p \in db.projects
  PROVE  /\ DefinitionsOnly(db)
         /\ \A f \in FlagKeys :
              /\ DefinitionsOnly([db EXCEPT !.flags = db.flags \cup {<<p, f>>}])
              /\ DefinitionsOnly([db EXCEPT !.flags = db.flags \ {<<p, f>>}])
         /\ \A g \in SegKeys :
              /\ DefinitionsOnly([db EXCEPT !.segments = db.segments \cup {<<p, g>>}])
              /\ DefinitionsOnly([db EXCEPT !.segments = db.segments \ {<<p, g>>}])
<1>1. db \in Stores /\ db.flags \subseteq Projects \X FlagKeys /\ db.segments \subseteq Projects \X SegKeys
  BY StoreParts DEF Types
<1>2. ASSUME NEW F \in SUBSET (Projects \X FlagKeys),
             backend = "memory" => \A x \in F : x[1] \in db.projects
      PROVE  DefinitionsOnly([db EXCEPT !.flags = F])
  <2> DEFINE n == [db EXCEPT !.flags = F]
  <2>1. /\ n \in Stores /\ n.envs = db.envs /\ n.versions = db.versions
        /\ n.configs = db.configs /\ n.projects = db.projects
        /\ n.flags = F /\ n.segments = db.segments
    BY <1>1 DEF Stores
  <2> HIDE DEF n
  <2>2. backend = "memory" => InMemory(n)
    BY <1>2, <2>1 DEF StoreInv, InMemory
  <2>3. DefinitionsOnly(n)
    BY <2>1, <2>2 DEF DefinitionsOnly
  <2> QED
    BY <2>3 DEF n
<1>3. ASSUME NEW G \in SUBSET (Projects \X SegKeys),
             backend = "memory" => \A x \in G : x[1] \in db.projects
      PROVE  DefinitionsOnly([db EXCEPT !.segments = G])
  <2> DEFINE n == [db EXCEPT !.segments = G]
  <2>1. /\ n \in Stores /\ n.envs = db.envs /\ n.versions = db.versions
        /\ n.configs = db.configs /\ n.projects = db.projects
        /\ n.flags = db.flags /\ n.segments = G
    BY <1>1 DEF Stores
  <2> HIDE DEF n
  <2>2. backend = "memory" => InMemory(n)
    BY <1>3, <2>1 DEF StoreInv, InMemory
  <2>3. DefinitionsOnly(n)
    BY <2>1, <2>2 DEF DefinitionsOnly
  <2> QED
    BY <2>3 DEF n
<1>4. DefinitionsOnly(db)
  BY <1>1 DEF DefinitionsOnly, StoreInv
<1>5. backend = "memory" =>
        (\A x \in db.flags : x[1] \in db.projects) /\ \A x \in db.segments : x[1] \in db.projects
  BY DEF StoreInv, InMemory
<1>6. ASSUME NEW f \in FlagKeys
      PROVE  /\ DefinitionsOnly([db EXCEPT !.flags = db.flags \cup {<<p, f>>}])
             /\ DefinitionsOnly([db EXCEPT !.flags = db.flags \ {<<p, f>>}])
  <2> DEFINE F == db.flags \cup {<<p, f>>}
             D == db.flags \ {<<p, f>>}
  <2>1. F \in SUBSET (Projects \X FlagKeys) /\ D \in SUBSET (Projects \X FlagKeys)
    BY <1>1
  <2>2. backend = "memory" => (\A x \in F : x[1] \in db.projects) /\ \A x \in D : x[1] \in db.projects
    BY <1>5
  <2> HIDE DEF F, D
  <2>3. DefinitionsOnly([db EXCEPT !.flags = F]) /\ DefinitionsOnly([db EXCEPT !.flags = D])
    BY <1>2, <2>1, <2>2, Zenon
  <2> QED
    BY <2>3 DEF F, D
<1>7. ASSUME NEW g \in SegKeys
      PROVE  /\ DefinitionsOnly([db EXCEPT !.segments = db.segments \cup {<<p, g>>}])
             /\ DefinitionsOnly([db EXCEPT !.segments = db.segments \ {<<p, g>>}])
  <2> DEFINE G == db.segments \cup {<<p, g>>}
             D == db.segments \ {<<p, g>>}
  <2>1. G \in SUBSET (Projects \X SegKeys) /\ D \in SUBSET (Projects \X SegKeys)
    BY <1>1
  <2>2. backend = "memory" => (\A x \in G : x[1] \in db.projects) /\ \A x \in D : x[1] \in db.projects
    BY <1>5
  <2> HIDE DEF G, D
  <2>3. DefinitionsOnly([db EXCEPT !.segments = G]) /\ DefinitionsOnly([db EXCEPT !.segments = D])
    BY <1>3, <2>1, <2>2, Zenon
  <2> QED
    BY <2>3 DEF G, D
<1> QED
  BY <1>4, <1>6, <1>7

\* The result of a call that succeeds.
LEMMA ResultIs ==
  ASSUME NEW ok, NEW n, NEW r, r.ok, \/ r = Mem!Result(db, ok, n) \/ r = Sql!Result(db, ok, n)
  PROVE  ok /\ r.db = n
BY DEF Mem!Result, Sql!Result

\* The six calls on flags and segments, of either store.
LEMMA DefinitionCalls ==
  ASSUME Types, StoreInv, NEW p \in Projects,
         NEW r \in (UNION {FlagCalls(p, f) : f \in FlagKeys})
                   \cup (UNION {SegmentCalls(p, g) : g \in SegKeys}), r.ok
  PROVE  DefinitionsOnly(r.db)
<1>1. CASE \E f \in FlagKeys : r \in FlagCalls(p, f)
  <2>1. PICK f \in FlagKeys : r \in FlagCalls(p, f)
    BY <1>1
  <2> DEFINE F == [db EXCEPT !.flags = db.flags \cup {<<p, f>>}]
             D == [db EXCEPT !.flags = db.flags \ {<<p, f>>}]
             here == p \in db.projects
             has  == <<p, f>> \in db.flags
  <2>2. CASE backend = "memory"
    <3>1. \/ r = Mem!Result(db, here /\ ~has, F) \/ r = Mem!Result(db, here /\ has, db)
          \/ r = Mem!Result(db, here, D)
      BY <2>1, <2>2, Zenon DEF FlagCalls, Mem!CreateFlag, Mem!UpdateFlag, Mem!DeleteFlag
    <3> HIDE DEF F, D, here, has
    <3>2. here /\ (r.db = F \/ r.db = db \/ r.db = D)
      BY <3>1, ResultIs, Zenon
    <3> QED
      BY <3>2, DefinitionsChanged, Zenon DEF F, D, here
  <2>3. CASE backend = "sql"
    <3>1. \/ r = Sql!Result(db, ~has, F) \/ r = Sql!Result(db, has, db)
          \/ r = Sql!Result(db, TRUE, D)
      BY <2>1, <2>3 DEF FlagCalls, Sql!CreateFlag, Sql!UpdateFlag, Sql!DeleteFlag
    <3> HIDE DEF F, D, has
    <3>2. r.db = F \/ r.db = db \/ r.db = D
      BY <3>1, ResultIs, Zenon
    <3>3. backend # "memory"
      BY <2>3
    <3> QED
      BY <3>2, <3>3, DefinitionsChanged, Zenon DEF F, D
  <2> QED
    BY <2>2, <2>3 DEF Types
<1>2. CASE \E g \in SegKeys : r \in SegmentCalls(p, g)
  <2>1. PICK g \in SegKeys : r \in SegmentCalls(p, g)
    BY <1>2
  <2> DEFINE G == [db EXCEPT !.segments = db.segments \cup {<<p, g>>}]
             D == [db EXCEPT !.segments = db.segments \ {<<p, g>>}]
             here == p \in db.projects
             has  == <<p, g>> \in db.segments
  <2>2. CASE backend = "memory"
    <3>1. \/ r = Mem!Result(db, here /\ ~has, G) \/ r = Mem!Result(db, here /\ has, db)
          \/ r = Mem!Result(db, here, D)
      BY <2>1, <2>2, Zenon
      DEF SegmentCalls, Mem!CreateSegment, Mem!UpdateSegment, Mem!DeleteSegment
    <3> HIDE DEF G, D, here, has
    <3>2. here /\ (r.db = G \/ r.db = db \/ r.db = D)
      BY <3>1, ResultIs, Zenon
    <3> QED
      BY <3>2, DefinitionsChanged, Zenon DEF G, D, here
  <2>3. CASE backend = "sql"
    <3>1. \/ r = Sql!Result(db, ~has, G) \/ r = Sql!Result(db, has, db)
          \/ r = Sql!Result(db, TRUE, D)
      BY <2>1, <2>3 DEF SegmentCalls, Sql!CreateSegment, Sql!UpdateSegment, Sql!DeleteSegment
    <3> HIDE DEF G, D, has
    <3>2. r.db = G \/ r.db = db \/ r.db = D
      BY <3>1, ResultIs, Zenon
    <3>3. backend # "memory"
      BY <2>3
    <3> QED
      BY <3>2, <3>3, DefinitionsChanged, Zenon DEF G, D
  <2> QED
    BY <2>2, <2>3 DEF Types
<1> QED
  BY <1>1, <1>2

LEMMA ChangeDefinitionInv ==
  ASSUME ManagementInv, NEW h \in Handlers, ChangeDefinition(h)
  PROVE  ManagementInv'
<1>1. PICK p \in Projects :
        \E r \in (UNION {FlagCalls(p, f) : f \in FlagKeys})
                 \cup (UNION {SegmentCalls(p, g) : g \in SegKeys}) :
          WritesFor(h, r, ScopesOf(p), "list", [NoLocals EXCEPT !.scope = <<p, Absent>>])
  BY Zenon DEF ChangeDefinition
<1> DEFINE x == [NoLocals EXCEPT !.scope = <<p, Absent>>]
<1>2. PICK r \in (UNION {FlagCalls(p, f) : f \in FlagKeys})
                 \cup (UNION {SegmentCalls(p, g) : g \in SegKeys}) :
        WritesFor(h, r, ScopesOf(p), "list", x)
  BY <1>1, Zenon
<1>3. Types /\ StoreInv /\ r.ok
  BY <1>2 DEF WritesFor, ManagementInv
<1>4. DefinitionsOnly(r.db)
  BY <1>3, DefinitionCalls
<1>5. /\ r.db \in Stores /\ (backend = "memory" => InMemory(r.db))
      /\ r.db.envs = db.envs /\ r.db.versions = db.versions
      /\ \A c \in ConfigKeys : r.db.configs[c] \in {db.configs[c], Absent, requests + 1}
  BY <1>4 DEF DefinitionsOnly
<1>6. x \in Locals /\ x.scope = <<p, Absent>> /\ x.request = 0
  <2> DEFINE t == <<p, Absent>>
  <2>1. t \in Projects \X {Absent}
    OBVIOUS
  <2> HIDE DEF t
  <2>2. LET y == [NoLocals EXCEPT !.scope = t] IN y \in Locals /\ y.scope = t /\ y.request = 0
    BY <2>1, NoLocalsIs DEF Locals
  <2> QED
    BY <2>2 DEF t
<1> HIDE DEF x
<1>7. /\ "list" \in Labels /\ "list" \notin CreateLabels
      /\ "list" \in PublishLabels \ {"buildConfig", "publish", "answer", "loop", "build"}
  BY DEF Labels, CreateLabels, PublishLabels, ChangeLabels
<1>8. StoreMoves /\ pc'[h] = "list" /\ loc'[h] = x
        => LocalsOf(h)' /\ NotAhead(h)' /\ ZeroOf(h)'
  <2>1. SUFFICES ASSUME StoreMoves, pc'[h] = "list", loc'[h] = x
                 PROVE  LocalsOf(h)' /\ NotAhead(h)' /\ ZeroOf(h)'
    OBVIOUS
  <2>2. requests' \in Nat /\ 0 <= requests' /\ <<p, Absent>> \in Projects \X {Absent}
    BY <2>1 DEF StoreMoves
  <2>3. LocalsOf(h)'
    BY <1>6, <2>1, <2>2 DEF LocalsOf, CreateLabels, RevokeLabels, ChangeLabels, ConfigLabels
  <2>4. NotAhead(h)' /\ ZeroOf(h)'
    BY <1>6, <2>1, <2>2 DEF NotAhead, ZeroOf
  <2> QED
    BY <2>3, <2>4
<1>9. \A s \in ScopesOf(p) : s[1] = x.scope[1]
  BY <1>6 DEF ScopesOf
<1> QED
  BY <1>2, <1>5, <1>6, <1>7, <1>8, <1>9, WritesForInv

\* UpsertFlagConfig, of either store.
LEMMA ConfigCall ==
  ASSUME Types, StoreInv, NEW s \in Scopes, NEW f \in FlagKeys, NEW m \in Nat,
         UpsertFlagConfig(s, f, m).ok
  PROVE  LET n == UpsertFlagConfig(s, f, m).db IN
         /\ n \in Stores /\ (backend = "memory" => InMemory(n))
         /\ n.envs = db.envs /\ n.versions = db.versions
         /\ \A c \in ConfigKeys : n.configs[c] \in {db.configs[c], m}
<1> DEFINE c0 == <<s[1], s[2], f>>
           C  == [db.configs EXCEPT ![c0] = m]
           n  == [db EXCEPT !.configs = C]
<1>1. UpsertFlagConfig(s, f, m).db = n /\ (backend = "memory" => s[1] \in db.projects)
  BY DEF UpsertFlagConfig, Mem!UpsertFlagConfig, Sql!UpsertFlagConfig, Mem!Result, Sql!Result
<1>2. db.configs \in [ConfigKeys -> Nat \cup {Absent}] /\ db \in Stores /\ c0 \in ConfigKeys
  BY StoreParts, ScopeParts DEF Types
<1> HIDE DEF c0
<1>3. C \in [ConfigKeys -> Nat \cup {Absent}] /\ \A c \in ConfigKeys : C[c] = IF c = c0 THEN m ELSE db.configs[c]
  BY <1>2
<1> HIDE DEF C
<1>4. /\ n \in Stores /\ n.envs = db.envs /\ n.versions = db.versions /\ n.configs = C
      /\ n.flags = db.flags /\ n.segments = db.segments /\ n.projects = db.projects
  BY <1>2, <1>3 DEF Stores
<1> HIDE DEF n
<1>5. c0[1] = s[1]
  BY DEF c0
<1>6. backend = "memory" => InMemory(n)
  BY <1>1, <1>3, <1>4, <1>5 DEF StoreInv, InMemory
<1> QED
  BY <1>1, <1>3, <1>4, <1>6

LEMMA PutFlagConfigInv ==
  ASSUME ManagementInv, NEW h \in Handlers, PutFlagConfig(h)
  PROVE  ManagementInv'
<1>1. PICK s \in Scopes, f \in FlagKeys :
        WritesFor(h, UpsertFlagConfig(s, f, requests + 1), {s}, "increment",
                  [NoLocals EXCEPT !.scope = s, !.key = f, !.request = requests + 1])
  BY Zenon DEF PutFlagConfig
<1> DEFINE m == requests + 1
           x == [NoLocals EXCEPT !.scope = s, !.key = f, !.request = m]
           r == UpsertFlagConfig(s, f, requests + 1)
<1>2. WritesFor(h, r, {s}, "increment", x)
  BY <1>1, Zenon
<1>3. Types /\ StoreInv /\ r.ok /\ requests' = requests + 1
  BY <1>2 DEF WritesFor, ManagementInv, Request
<1>4. requests \in Nat /\ requests + 1 \in Nat /\ requests + 1 # 0 /\ requests + 1 <= requests'
  BY <1>3 DEF Types
<1>5. /\ r.db \in Stores /\ (backend = "memory" => InMemory(r.db))
      /\ r.db.envs = db.envs /\ r.db.versions = db.versions
      /\ \A c \in ConfigKeys : r.db.configs[c] \in {db.configs[c], Absent, requests + 1}
  BY <1>3, <1>4, ConfigCall
<1>6. x \in Locals /\ x.scope = s /\ x.request = requests + 1 /\ x.key = f
  <2>1. m \in Nat /\ m = requests + 1
    BY <1>4
  <2> HIDE DEF m
  <2>2. x \in Locals /\ x.scope = s /\ x.request = m /\ x.key = f
    BY <2>1, NoLocalsIs DEF Locals
  <2> HIDE DEF x
  <2> QED
    BY <2>1, <2>2
<1> HIDE DEF x, r
<1>7. /\ "increment" \in Labels /\ "increment" \notin CreateLabels
      /\ "increment" \in PublishLabels \ {"buildConfig", "publish", "answer", "loop", "build"}
  BY DEF Labels, CreateLabels, PublishLabels, ConfigLabels
<1>8. StoreMoves /\ pc'[h] = "increment" /\ loc'[h] = x
        => LocalsOf(h)' /\ NotAhead(h)' /\ ZeroOf(h)'
  BY <1>4, <1>6 DEF LocalsOf, NotAhead, ZeroOf, StoreMoves, CreateLabels, RevokeLabels,
              ChangeLabels, ConfigLabels
<1>9. \A t \in {s} : t = x.scope
  BY <1>6
<1> QED
  BY <1>2, <1>5, <1>6, <1>7, <1>8, <1>9, WritesForInv

\* A step of a handler that publishes, or answers.
LEMMA PublishStepOf ==
  ASSUME ManagementInv, StoreMoves, NEW h \in Handlers, NEW l \in PublishLabels \cup {"idle"},
         NEW x \in Locals, pc' = [pc EXCEPT ![h] = l], loc' = [loc EXCEPT ![h] = x],
         \A g \in Handlers \ {h} : OwesOn(g),
         owed' \in [Handlers -> [Scopes -> Nat \cup {Absent}]],
         UNCHANGED <<registry, spent, issued, revoked>>,
         published' \in [Scopes -> Nat], StoreInv', HandlerInv(h)'
  PROVE  ManagementInv'
<1>1. Types /\ KeysInv
  BY DEF ManagementInv
<1>2. /\ pc'[h] = l /\ loc'[h] = x
      /\ \A g \in Handlers \ {h} : pc'[g] = pc[g] /\ loc'[g] = loc[g]
  BY <1>1, StepIs
<1>3. l \notin CreateLabels /\ l \in Labels
  BY DEF PublishLabels, ChangeLabels, ConfigLabels, CreateLabels, Labels
<1>4. KeysInv'
  BY <1>1, <1>2, <1>3, KeysKept DEF KeysInv
<1>5. registry' \in [AllKeys -> {"none", "active", "revoked"}] /\ spent' \subseteq Keys
  BY <1>1 DEF Types
<1> QED
  BY <1>3, <1>4, <1>5, StepOf

LEMMA QuietPublishOf ==
  ASSUME ManagementInv, NEW h \in Handlers, NEW l \in PublishLabels \cup {"idle"},
         NEW x \in Locals, pc' = [pc EXCEPT ![h] = l], loc' = [loc EXCEPT ![h] = x],
         UNCHANGED <<backend, db, gone, owed, requests, registry, spent, issued, revoked,
                     published>>,
         HandlerInv(h)'
  PROVE  ManagementInv'
<1>1. requests' \in Nat /\ requests <= requests'
  BY DEF ManagementInv, Types
<1>2. StoreMoves /\ \A g \in Handlers : OwesOn(g)
  BY <1>1, QuietMoves
<1>3. StoreInv'
  BY <1>2, StoreKept
<1> QED
  BY <1>2, <1>3, PublishStepOf DEF ManagementInv, Types

LEMMA ListForPublishInv ==
  ASSUME ManagementInv, NEW h \in Handlers, ListForPublish(h)
  PROVE  ManagementInv'
<1> DEFINE T == ListEnvironments(loc[h].scope[1])
           x == [loc[h] EXCEPT !.todo = T]
<1>1. Types /\ StoreInv /\ HandlerInv(h) /\ loc[h] \in Locals
  BY LocalParts DEF ManagementInv
<1>2. /\ pc[h] = "list" /\ pc' = [pc EXCEPT ![h] = "loop"] /\ loc' = [loc EXCEPT ![h] = x]
      /\ UNCHANGED <<backend, db, gone, owed, requests, registry, spent, issued, revoked,
                     published>>
  BY Zenon DEF ListForPublish, Goto, publishUnchanged, historyVars
<1>3. T \subseteq EnvKeys
  BY DEF ListEnvironments, Mem!ListEnvironments, Sql!ListEnvironments
<1>4. ASSUME NEW s \in Scopes, s[1] = loc[h].scope[1], db.envs[s] # Absent PROVE s[2] \in T
  <2>1. s = <<loc[h].scope[1], s[2]>> /\ s[2] \in EnvKeys
    BY <1>4, ScopeParts
  <2>2. backend = "memory" => s[1] \in db.projects
    BY <1>1, <1>4 DEF StoreInv, InMemory
  <2> QED
    BY <1>4, <2>1, <2>2
    DEF ListEnvironments, Mem!ListEnvironments, Sql!ListEnvironments, Mem!FindsEnvironment,
        Sql!FindsEnvironment
<1> HIDE DEF T
<1>5. /\ x \in Locals /\ x.todo = T /\ x.scope = loc[h].scope /\ x.request = loc[h].request
      /\ x.version = loc[h].version /\ x.key = loc[h].key
  BY <1>1, <1>3 DEF Locals
<1> HIDE DEF x
<1>6. pc'[h] = "loop" /\ loc'[h] = x
  BY <1>1, <1>2, StepIs
<1>7. LocalsOf(h)' /\ NotAhead(h)' /\ ZeroOf(h)'
  BY <1>1, <1>2, <1>5, <1>6
  DEF HandlerInv, LocalsOf, NotAhead, ZeroOf, CreateLabels, RevokeLabels, ChangeLabels, ConfigLabels
<1>8. ASSUME NEW s \in Scopes, owed'[h][s] # Absent PROVE Pays(h, s)'
  <2>1. Pays(h, s)
    BY <1>1, <1>2, <1>8 DEF HandlerInv
  <2>2. s[1] = loc[h].scope[1] /\ db.envs[s] # Absent
    BY <1>1, <1>2, <2>1 DEF Pays, HandlerInv, LocalsOf, ChangeLabels
  <2>3. s[2] \in T
    BY <1>4, <2>2
  <2> QED
    BY <1>2, <1>5, <1>6, <2>1, <2>2, <2>3 DEF Pays, PublishLabels, ChangeLabels, ConfigLabels
<1>9. HandlerInv(h)'
  BY <1>7, <1>8 DEF HandlerInv
<1>10. "loop" \in PublishLabels
  BY DEF PublishLabels, ChangeLabels
<1> QED
  BY <1>2, <1>5, <1>9, <1>10, QuietPublishOf

\* What Build needs in memory is a version.
LEMMA BuildNextInv ==
  ASSUME ManagementInv, NEW h \in Handlers, BuildNext(h)
  PROVE  ManagementInv'
<1> DEFINE l == IF Builds(loc[h].scope) THEN "publish"
                ELSE IF pc[h] = "build" THEN "loop" ELSE "answer"
<1>0. PICK t : t = loc[h].scope
  OBVIOUS
<1>1. Types /\ StoreInv /\ HandlerInv(h) /\ loc[h] \in Locals
  BY LocalParts DEF ManagementInv
<1>2. /\ pc[h] \in {"build", "buildConfig"} /\ pc' = [pc EXCEPT ![h] = l] /\ loc' = loc
      /\ UNCHANGED <<backend, db, gone, owed, requests, registry, spent, issued, revoked,
                     published>>
  BY Zenon DEF BuildNext, Goto, publishUnchanged, historyVars
<1>3. /\ l \in {"publish", "loop", "answer"}
      /\ (l = "publish" <=> Builds(t))
      /\ (l = "loop" => pc[h] = "build") /\ (l = "answer" => pc[h] = "buildConfig")
  BY <1>0, <1>2
<1> HIDE DEF l
<1>4. loc' = [loc EXCEPT ![h] = loc[h]]
  BY <1>1, <1>2 DEF Types
<1>5. pc'[h] = l /\ loc'[h] = loc[h]
  BY <1>1, <1>2 DEF Types
<1>6. LocalsOf(h)' /\ NotAhead(h)'
  BY <1>1, <1>2, <1>3, <1>5
  DEF HandlerInv, LocalsOf, NotAhead, CreateLabels, RevokeLabels, ChangeLabels, ConfigLabels, Ver
<1>7. ZeroOf(h)'
  <2>1. backend = "memory" /\ l = "publish" => db.versions[t] # Absent
    BY <1>3 DEF Builds, Mem!FindsVersion
  <2> QED
    BY <1>0, <1>1, <1>2, <1>3, <1>5, <2>1
    DEF HandlerInv, LocalsOf, ZeroOf, ConfigOf, Types, ChangeLabels, ConfigLabels
<1>8. ASSUME NEW s \in Scopes, owed'[h][s] # Absent PROVE Pays(h, s)'
  <2>1. Pays(h, s)
    BY <1>1, <1>2, <1>8 DEF HandlerInv
  <2>2. /\ pc[h] = "build" => loc[h].request = 0
        /\ pc[h] = "buildConfig" => loc[h].request # 0
    BY <1>1 DEF HandlerInv, LocalsOf, ChangeLabels, ConfigLabels
  <2> QED
    BY <1>2, <1>3, <1>5, <2>1, <2>2 DEF Pays, PublishLabels, ChangeLabels, ConfigLabels
<1>9. HandlerInv(h)'
  BY <1>6, <1>7, <1>8 DEF HandlerInv
<1>10. l \in PublishLabels
  BY <1>3 DEF PublishLabels, ChangeLabels, ConfigLabels
<1> QED
  BY <1>1, <1>2, <1>4, <1>9, <1>10, QuietPublishOf

LEMMA PublishNextInv ==
  ASSUME ManagementInv, NEW h \in Handlers, PublishNext(h)
  PROVE  ManagementInv'
<1> DEFINE l == IF loc[h].request = 0 THEN "loop" ELSE "answer"
<1>0. PICK t, v : t = loc[h].scope /\ v = loc[h].version
  OBVIOUS
<1>1. Types /\ StoreInv /\ HandlerInv(h) /\ loc[h] \in Locals
  BY LocalParts DEF ManagementInv
<1>2. /\ pc[h] = "publish" /\ pc' = [pc EXCEPT ![h] = l] /\ loc' = loc
      /\ published' = [published EXCEPT ![t] = IF @ < v THEN v ELSE @]
      /\ UNCHANGED <<backend, db, gone, owed, requests, registry, spent, issued, revoked>>
  BY <1>0, Zenon DEF PublishNext, Goto, publishUnchanged, historyVars
<1>3. l \in {"loop", "answer"} /\ (l = "loop" <=> loc[h].request = 0)
  OBVIOUS
<1> HIDE DEF l
<1>4. loc' = [loc EXCEPT ![h] = loc[h]]
  BY <1>1, <1>2 DEF Types
<1>5. pc'[h] = l /\ loc'[h] = loc[h]
  BY <1>1, <1>2 DEF Types
<1>6. LocalsOf(h)' /\ NotAhead(h)' /\ ZeroOf(h)'
  BY <1>1, <1>2, <1>3, <1>5
  DEF HandlerInv, LocalsOf, NotAhead, ZeroOf, CreateLabels, RevokeLabels, ChangeLabels, ConfigLabels
<1>7. ASSUME NEW s \in Scopes, owed'[h][s] # Absent PROVE Pays(h, s)'
  <2>1. Pays(h, s)
    BY <1>1, <1>2, <1>7 DEF HandlerInv
  <2> QED
    BY <1>2, <1>3, <1>5, <2>1 DEF Pays, PublishLabels, ChangeLabels, ConfigLabels
<1>8. HandlerInv(h)'
  BY <1>6, <1>7 DEF HandlerInv
<1>9. t \in Scopes /\ v \in Nat /\ published \in [Scopes -> Nat] /\ (t \notin gone => v <= Ver(t))
  BY <1>0, <1>1, <1>2, LocalParts DEF HandlerInv, LocalsOf, NotAhead, Types
<1>10. published' \in [Scopes -> Nat]
       /\ \A s \in Scopes : published'[s] = published[s] \/ (s = t /\ published'[s] = v)
  BY <1>2, <1>9
<1>11. StoreInv'
  <2>1. ASSUME NEW s \in Scopes, s \notin gone PROVE published'[s] <= Ver(s)
    BY <1>1, <1>9, <1>10, <2>1 DEF StoreInv
  <2>2. \A s \in Scopes : Ver(s)' = Ver(s)
    BY <1>2 DEF Ver
  <2> QED
    BY <1>1, <1>2, <2>1, <2>2 DEF StoreInv
<1>12. requests' \in Nat /\ requests <= requests'
  BY <1>1, <1>2 DEF Types
<1>13. StoreMoves /\ \A g \in Handlers : OwesOn(g)
  BY <1>2, <1>12, QuietMoves
<1>14. l \in PublishLabels
  BY <1>3 DEF PublishLabels, ChangeLabels, ConfigLabels
<1>15. owed' \in [Handlers -> [Scopes -> Nat \cup {Absent}]]
  BY <1>1, <1>2 DEF Types
<1> QED
  BY <1>1, <1>2, <1>4, <1>8, <1>10, <1>11, <1>13, <1>14, <1>15, PublishStepOf

LEMMA RespondInv ==
  ASSUME ManagementInv, NEW h \in Handlers, Respond(h)
  PROVE  ManagementInv'
<1>1. Types /\ StoreInv
  BY DEF ManagementInv
<1>2. /\ pc' = [pc EXCEPT ![h] = "idle"] /\ loc' = [loc EXCEPT ![h] = NoLocals]
      /\ owed' = [owed EXCEPT ![h] = NothingOwed]
      /\ UNCHANGED <<backend, db, gone, requests, registry, spent, issued, revoked, published>>
  BY DEF Respond, Answer, Goto, publishUnchanged, historyVars
<1>3. pc'[h] = "idle" /\ loc'[h] = NoLocals
  BY <1>1, <1>2 DEF Types
<1>4. /\ owed' \in [Handlers -> [Scopes -> Nat \cup {Absent}]] /\ owed'[h] = NothingOwed
      /\ \A g \in Handlers \ {h} : owed'[g] = owed[g]
  BY <1>1, <1>2 DEF Types, NothingOwed
<1>5. requests' \in Nat /\ requests <= requests'
  BY <1>1, <1>2 DEF Types
<1>6. HandlerInv(h)'
  BY <1>3, <1>4, <1>5, IdleInv DEF NothingOwed
<1>7. ASSUME NEW s \in Scopes
      PROVE  /\ Ver(s) <= Ver(s)'
             /\ db.versions[s] # Absent => db.versions[s] <= db'.versions[s]
  <2>1. db.versions[s] \in Nat \cup {Absent} /\ Ver(s) \in Nat /\ Ver(s)' = Ver(s)
    BY <1>1, <1>2, VersionsAre DEF Ver
  <2> QED
    BY <1>2, <2>1
<1>8. StoreMoves
  BY <1>1, <1>2, <1>5, <1>7 DEF StoreMoves, StoreInv, Types
<1>9. \A g \in Handlers \ {h} : OwesOn(g)
  BY <1>2, <1>4 DEF OwesOn, ManagementInv, HandlerInv, Pays
<1>10. StoreInv'
  BY <1>2, <1>8, StoreKept
<1> QED
  BY <1>1, <1>2, <1>4, <1>6, <1>8, <1>9, <1>10, NoLocalsIs, PublishStepOf DEF Types

\* IncrementEnvVersion for one environment of the loop.
LEMMA IncrementNextInv ==
  ASSUME ManagementInv, NEW h \in Handlers, IncrementNext(h)
  PROVE  ManagementInv'
<1>1. Types /\ StoreInv /\ HandlerInv(h) /\ loc[h] \in Locals /\ pc[h] = "loop"
  BY LocalParts DEF ManagementInv, IncrementNext
<1>2. PICK e \in loc[h].todo : Increments(h, <<loc[h].scope[1], e>>, "loop")
  BY DEF IncrementNext
<1>0. PICK s : s = <<loc[h].scope[1], e>>
  OBVIOUS
<1> DEFINE r == IncrementEnvVersion(s)
           v == r.version
           T == loc[h].todo \ {s[2]}
           x == [loc[h] EXCEPT !.scope = s, !.todo = T, !.version = v]
           l == IF r.ok THEN "build" ELSE "loop"
<1>3. /\ Writes(r.db) /\ pc' = [pc EXCEPT ![h] = l] /\ loc' = [loc EXCEPT ![h] = x]
      /\ UNCHANGED <<backend, registry, requests, spent, issued, revoked, published>>
  BY <1>0, <1>2, Zenon DEF Increments, Goto, publishUnchanged, historyVars
<1>4. s \in Scopes /\ s[1] = loc[h].scope[1] /\ s[2] = e /\ T \subseteq EnvKeys
  <2>1. loc[h].scope \in Scopes \cup (Projects \X {Absent}) /\ loc[h].todo \subseteq EnvKeys
    BY <1>1, LocalParts DEF HandlerInv, LocalsOf
  <2>2. loc[h].scope[1] \in Projects
    BY <2>1 DEF Scopes
  <2> QED
    BY <1>0, <2>1, <2>2, ScopeParts
<1>5. T = loc[h].todo \ {s[2]}
  OBVIOUS
<1> HIDE DEF T
<1>6. /\ Follows(r.db) /\ v \in Nat /\ r.db.envs = db.envs
      /\ \A t \in Scopes \ {s} : r.db.versions[t] = db.versions[t]
      /\ r.ok => /\ v # 0 /\ r.db.versions[s] = v
                 /\ db.versions[s] # Absent => db.versions[s] < v
      /\ ~r.ok => /\ backend = "memory" /\ db.versions[s] = Absent
                  /\ r.db = db /\ v = 0
  BY <1>1, <1>4, IncrementIs
<1>7. db' = r.db
  BY <1>3 DEF Writes
<1>8. l \in {"build", "loop"} /\ (l = "build" <=> r.ok)
  OBVIOUS
<1> HIDE DEF r, l, v
<1>9. requests' \in Nat /\ requests <= requests'
  BY <1>1, <1>3 DEF Types
<1>10. /\ StoreMoves /\ owed' \in [Handlers -> [Scopes -> Nat \cup {Absent}]]
       /\ \A g \in Handlers : OwesOn(g)
  BY <1>1, <1>3, <1>6, <1>9, WritesMoves
<1>11. /\ x \in Locals /\ x.scope = s /\ x.todo = T /\ x.version = v
       /\ x.request = loc[h].request /\ x.key = loc[h].key
  BY <1>1, <1>4, <1>6 DEF Locals
<1> HIDE DEF x
<1>12. pc'[h] = l /\ loc'[h] = x
  BY <1>1, <1>3 DEF Types
<1>13. loc[h].request = 0
  BY <1>1 DEF HandlerInv, LocalsOf, ChangeLabels
<1>14. LocalsOf(h)'
  BY <1>4, <1>8, <1>11, <1>12, <1>13
  DEF LocalsOf, CreateLabels, RevokeLabels, ChangeLabels, ConfigLabels
<1>15. NotAhead(h)'
  <2>1. r.ok => v <= Ver(s)'
    BY <1>6, <1>7, AbsentIs DEF Ver
  <2> QED
    BY <1>8, <1>11, <1>12, <2>1 DEF NotAhead
<1>16. ZeroOf(h)'
  BY <1>6, <1>8, <1>9, <1>11, <1>12, <1>13 DEF ZeroOf
<1>17. ASSUME NEW t \in Scopes, owed'[h][t] # Absent PROVE Pays(h, t)'
  <2>1. owed'[h][t] = owed[h][t] /\ db'.envs[t] # Absent /\ db'.versions[t] # Absent
    BY <1>10, <1>17 DEF OwesOn
  <2>2. Pays(h, t)
    BY <1>1, <1>17, <2>1 DEF HandlerInv
  <2>3. /\ t[1] = s[1] /\ db.versions[t] # Absent /\ owed[h][t] <= db.versions[t]
        /\ t[2] \in loc[h].todo \/ owed[h][t] < db.versions[t]
    BY <1>1, <1>4, <1>13, <2>2 DEF Pays, ChangeLabels
  <2>4. owed[h][t] \in Nat /\ db.versions[t] \in Nat
    BY <1>1, <1>17, <2>1, <2>3, VersionsAre DEF Types
  <2>5. owed[h][t] <= db'.versions[t] /\ (t[2] \in T \/ owed[h][t] < db'.versions[t])
    <3>1. CASE t = s
      BY <1>6, <1>7, <2>3, <2>4, <3>1
    <3>2. CASE t # s
      <4>1. t[2] # s[2]
        BY <1>4, <2>3, <3>2, ScopeParts
      <4> QED
        BY <1>5, <1>6, <1>7, <2>3, <3>2, <4>1
    <3> QED
      BY <3>1, <3>2
  <2> QED
    BY <1>8, <1>11, <1>12, <1>13, <2>1, <2>3, <2>5 DEF Pays, PublishLabels, ChangeLabels, ConfigLabels
<1>18. HandlerInv(h)'
  BY <1>14, <1>15, <1>16, <1>17 DEF HandlerInv
<1>19. StoreInv'
  BY <1>3, <1>10, StoreKept
<1>20. l \in PublishLabels /\ published' \in [Scopes -> Nat]
  BY <1>1, <1>3, <1>8 DEF PublishLabels, ChangeLabels, Types
<1> QED
  BY <1>3, <1>10, <1>11, <1>18, <1>19, <1>20, PublishStepOf

\* IncrementEnvVersion of putFlagConfig, whose error is dropped.
LEMMA IncrementForConfigInv ==
  ASSUME ManagementInv, NEW h \in Handlers, IncrementForConfig(h)
  PROVE  ManagementInv'
<1>0. PICK s : s = loc[h].scope
  OBVIOUS
<1> DEFINE r == IncrementEnvVersion(s)
           v == r.version
           x == [loc[h] EXCEPT !.version = v]
<1>1. Types /\ StoreInv /\ HandlerInv(h) /\ loc[h] \in Locals /\ pc[h] = "increment"
  BY LocalParts DEF ManagementInv, IncrementForConfig
<1>2. /\ Writes(r.db) /\ pc' = [pc EXCEPT ![h] = "buildConfig"] /\ loc' = [loc EXCEPT ![h] = x]
      /\ UNCHANGED <<backend, registry, requests, spent, issued, revoked, published>>
  BY <1>0, Zenon DEF IncrementForConfig, Goto, publishUnchanged, historyVars
<1>3. s \in Scopes /\ loc[h].request # 0 /\ loc[h].key \in FlagKeys
  BY <1>0, <1>1 DEF HandlerInv, LocalsOf, ConfigLabels
<1>4. /\ Follows(r.db) /\ v \in Nat /\ r.db.envs = db.envs
      /\ \A t \in Scopes \ {s} : r.db.versions[t] = db.versions[t]
      /\ r.ok => /\ v # 0 /\ r.db.versions[s] = v
                 /\ db.versions[s] # Absent => db.versions[s] < v
      /\ ~r.ok => /\ backend = "memory" /\ db.versions[s] = Absent
                  /\ r.db = db /\ v = 0
  BY <1>1, <1>3, IncrementIs
<1>5. db' = r.db
  BY <1>2 DEF Writes
<1> HIDE DEF r, v
<1>6. requests' \in Nat /\ requests <= requests'
  BY <1>1, <1>2 DEF Types
<1>7. /\ StoreMoves /\ owed' \in [Handlers -> [Scopes -> Nat \cup {Absent}]]
      /\ \A g \in Handlers : OwesOn(g)
  BY <1>1, <1>2, <1>4, <1>6, WritesMoves
<1>8. /\ x \in Locals /\ x.scope = s /\ x.version = v
      /\ x.request = loc[h].request /\ x.key = loc[h].key /\ x.todo = loc[h].todo
  BY <1>0, <1>1, <1>4 DEF Locals
<1> HIDE DEF x
<1>9. pc'[h] = "buildConfig" /\ loc'[h] = x
  BY <1>1, <1>2 DEF Types
<1>10. LocalsOf(h)'
  BY <1>3, <1>8, <1>9
  DEF LocalsOf, CreateLabels, RevokeLabels, ChangeLabels, ConfigLabels
<1>11. NotAhead(h)'
  <2>1. Ver(s)' \in Nat
    BY <1>3, <1>7, StoreParts DEF StoreMoves, Ver
  <2>2. v <= Ver(s)'
    BY <1>4, <1>5, <2>1, AbsentIs DEF Ver
  <2> QED
    BY <1>8, <1>9, <2>2 DEF NotAhead
<1>12. ZeroOf(h)'
  <2>1. loc[h].request <= requests'
    BY <1>1, <1>2 DEF HandlerInv, ZeroOf
  <2>2. v = 0 => backend' = "memory" /\ db'.versions[s] = Absent
    BY <1>2, <1>4, <1>5
  <2> QED
    BY <1>8, <1>9, <2>1, <2>2 DEF ZeroOf
<1>13. ASSUME NEW t \in Scopes, owed'[h][t] # Absent PROVE Pays(h, t)'
  <2>1. owed'[h][t] = owed[h][t] /\ db'.envs[t] # Absent /\ db'.versions[t] # Absent
    BY <1>7, <1>13 DEF OwesOn
  <2>2. Pays(h, t)
    BY <1>1, <1>13, <2>1 DEF HandlerInv
  <2>3. t = s /\ db.versions[t] # Absent /\ owed[h][t] <= db.versions[t]
    BY <1>0, <1>1, <2>2 DEF Pays
  <2>4. owed[h][t] \in Nat /\ db.versions[t] \in Nat
    BY <1>1, <1>13, <2>1, <2>3, VersionsAre DEF Types
  <2>5. owed[h][t] < db'.versions[t] /\ owed[h][t] <= db'.versions[t]
    BY <1>4, <1>5, <2>3, <2>4
  <2> QED
    BY <1>3, <1>8, <1>9, <2>1, <2>5 DEF Pays, PublishLabels, ChangeLabels, ConfigLabels
<1>14. HandlerInv(h)'
  BY <1>10, <1>11, <1>12, <1>13 DEF HandlerInv
<1>15. StoreInv'
  BY <1>2, <1>7, StoreKept
<1>16. "buildConfig" \in PublishLabels /\ published' \in [Scopes -> Nat]
  BY <1>1, <1>2 DEF PublishLabels, ConfigLabels, Types
<1> QED
  BY <1>2, <1>7, <1>8, <1>14, <1>15, <1>16, PublishStepOf

LEMMA PublishStepInv ==
  ASSUME ManagementInv, NEW h \in Handlers, PublishStep(h)
  PROVE  ManagementInv'
BY ChangeDefinitionInv, ListForPublishInv, IncrementNextInv, PutFlagConfigInv,
   IncrementForConfigInv, BuildNextInv, PublishNextInv, RespondInv
DEF PublishStep

-----------------------------------------------------------------------------
(***************************************************************************)
(* The theorems.                                                            *)
(***************************************************************************)
LEMMA InitInv == Init => ManagementInv
<1> SUFFICES ASSUME Init PROVE ManagementInv
  OBVIOUS
<1> USE DEF Init
<1>1. Types
  BY EmptyStoreIs, NoLocalsIs DEF Types, NothingOwed, Labels
<1>2. StoreInv
  BY EmptyStoreIs DEF StoreInv, Ver
<1>3. KeysInv
  BY DEF KeysInv, CreateLabels
<1>4. \A h \in Handlers : HandlerInv(h)
  BY NoLocalsIs
  DEF HandlerInv, LocalsOf, NotAhead, ZeroOf, CreateLabels, RevokeLabels, ChangeLabels,
      ConfigLabels, NothingOwed
<1> QED
  BY <1>1, <1>2, <1>3, <1>4 DEF ManagementInv

LEMMA StutterInv == ManagementInv /\ UNCHANGED vars => ManagementInv'
<1> SUFFICES ASSUME ManagementInv, UNCHANGED vars PROVE ManagementInv'
  OBVIOUS
<1> USE DEF vars, httpVars, historyVars, ManagementInv
<1>1. Types'
  BY DEF Types
<1>2. StoreInv'
  BY DEF StoreInv, Ver
<1>3. KeysInv'
  BY DEF KeysInv
<1>4. ASSUME NEW h \in Handlers PROVE HandlerInv(h)'
  BY DEF HandlerInv, LocalsOf, NotAhead, ZeroOf, ConfigOf, Pays, Ver
<1> QED
  BY <1>1, <1>2, <1>3, <1>4

LEMMA NextInv == ManagementInv /\ Next => ManagementInv'
<1> SUFFICES ASSUME ManagementInv, Next PROVE ManagementInv'
  OBVIOUS
<1>1. CASE SeedProject \/ SeedEnvironment \/ RegisterDemoKeys \/ Crash
  BY <1>1, SeedInv, RegisterDemoInv, CrashInv
<1>2. CASE \/ HandleCreateProject \/ HandleUpdateProject \/ HandleDeleteProject
           \/ HandleCreateEnvironment \/ HandleUpdateEnvironment \/ HandleDeleteEnvironment
  BY <1>2, AdminInv
<1>3. CASE \E h \in Handlers : KeyStep(h) \/ PublishStep(h)
  BY <1>3, KeyStepInv, PublishStepInv
<1> QED
  BY <1>1, <1>2, <1>3 DEF Next

LEMMA ManagementInvariant == Spec => []ManagementInv
BY InitInv, StutterInv, NextInv, PTL DEF Spec

\* The handlers of internal/api/server.go, the start and the restarts of the process
\* keep the types, and the in-memory store never keeps anything for a project that
\* does not exist, whatever the order of the calls that concurrent handlers make.
THEOREM ManagementTypeCorrect == Spec => []TypeOK
<1>1. ManagementInv => TypeOK
  <2> SUFFICES ASSUME ManagementInv PROVE TypeOK
    OBVIOUS
  <2>1. Types /\ StoreInv
    BY DEF ManagementInv
  <2>2. /\ db.projects \subseteq Projects
        /\ \A s \in Scopes : /\ db.envs[s] \in Seq(AllKeys) \cup {Absent}
                             /\ db.versions[s] \in Nat \cup {Absent}
    BY <2>1, StoreParts DEF Types
  <2> QED
    BY <2>1, <2>2 DEF TypeOK, Types, StoreInv, InMemory
<1> QED
  BY <1>1, ManagementInvariant, PTL

\* A key whose revocation revokeSDKKey has answered is never accepted again by
\* authenticateSDK: no interleaving of createSDKKey, revokeSDKKey and restarts
\* registers it a second time.
THEOREM RevocationHoldsAlways == Spec => []RevocationHolds
<1>1. ManagementInv => RevocationHolds
  BY DEF ManagementInv, KeysInv, RevocationHolds, Lookup
<1> QED
  BY <1>1, ManagementInvariant, PTL

\* When createFlag, updateFlag, deleteFlag, their counterparts for segments, or
\* putFlagConfig answer, every environment that was there all along has a version
\* above the one that it had when the change was written.
THEOREM ChangesAreVersionedAlways == Spec => []ChangesAreVersioned
<1>1. ManagementInv => ChangesAreVersioned
  <2> SUFFICES ASSUME ManagementInv, NEW h \in Handlers,
                      pc[h] = "answer" \/ (pc[h] = "loop" /\ loc[h].todo = {}),
                      NEW s \in Scopes, owed[h][s] # Absent
               PROVE  db.versions[s] > owed[h][s]
    BY DEF ChangesAreVersioned
  <2>1. LocalsOf(h) /\ Pays(h, s) /\ Types
    BY DEF ManagementInv, HandlerInv
  <2>2. owed[h][s] < db.versions[s]
    BY <2>1 DEF LocalsOf, Pays, ChangeLabels, ConfigLabels
  <2>3. owed[h][s] \in Nat /\ db.versions[s] \in Nat
    BY <2>1, VersionsAre DEF Types, Pays
  <2> QED
    BY <2>2, <2>3
<1> QED
  BY <1>1, ManagementInvariant, PTL

\* putFlagConfig publishes a message of version 0 only when the config it wrote is no
\* longer in the store, in every interleaving with the deletion and the creation of
\* the environment and its project.
THEOREM ZeroVersionLosesNothingAlways == Spec => []ZeroVersionLosesNothing
<1>1. ManagementInv => ZeroVersionLosesNothing
  <2> SUFFICES ASSUME ManagementInv, NEW h \in Handlers, pc[h] = "publish", loc[h].version = 0
               PROVE  LET s == loc[h].scope IN
                      db.configs[<<s[1], s[2], loc[h].key>>] # loc[h].request
    BY DEF ZeroVersionLosesNothing
  <2> QED
    BY DEF ManagementInv, HandlerInv, ZeroOf, ConfigOf
<1> QED
  BY <1>1, ManagementInvariant, PTL

\* What publishFlagChange and putFlagConfig have given to Hub.Publish for an
\* environment is not ahead of the version in the store, unless this process has seen
\* the environment removed.
THEOREM HubBehindStoreAlways == Spec => []HubBehindStore
<1>1. ManagementInv => HubBehindStore
  BY DEF ManagementInv, StoreInv, HubBehindStore, Ver
<1> QED
  BY <1>1, ManagementInvariant, PTL
=============================================================================
