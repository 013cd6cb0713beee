----------------------------- MODULE StoreData -----------------------------
(***************************************************************************)
(* The contents of a ConfigStore (internal/store/store.go), as far as the   *)
(* management handlers tell them apart.  The stores of MemoryStore and      *)
(* SqlStore are records of this shape, and each of their methods is an      *)
(* operator that gives the result of a call: whether it succeeded, and the  *)
(* store after it.  A call that fails leaves the store as it was.           *)
(*                                                                         *)
(*   projects   the projects                                                *)
(*   envs       <<project, environment>> -> its SDK keys in order           *)
(*   flags      the <<project, flag>> pairs                                 *)
(*   segments   the <<project, segment>> pairs                              *)
(*   configs    <<project, environment, flag>> -> the request that wrote    *)
(*              the config                                                  *)
(*   versions   <<project, environment>> -> version                         *)
(***************************************************************************)
EXTENDS Naturals, Sequences

CONSTANTS
  Projects,   \* project keys
  EnvKeys,    \* environment keys
  FlagKeys,   \* flag keys
  SegKeys,    \* segment keys
  Absent      \* what a map or a table gives for a key that it does not hold

Scopes   == Projects \X EnvKeys
ConfigKeys == Projects \X EnvKeys \X FlagKeys

EmptyStore ==
  [projects |-> {},
   envs     |-> [s \in Scopes |-> Absent],
   flags    |-> {},
   segments |-> {},
   configs  |-> [c \in ConfigKeys |-> Absent],
   versions |-> [s \in Scopes |-> Absent]]

\* What is kept for a project: its environments, their configs, its items.
ScopesOf(p)  == {p} \X EnvKeys
ConfigsOf(p) == {p} \X EnvKeys \X FlagKeys
ConfigsIn(s) == {s[1]} \X {s[2]} \X FlagKeys

Without(items, p) == {x \in items : x[1] # p}

\* f with v at every argument in S.
Put(f, S, v) == [x \in DOMAIN f |-> IF x \in S THEN v ELSE f[x]]

\* f with what g says of the environments of p.
OfProject(f, p, g) == [s \in DOMAIN f |-> IF s[1] = p THEN g[s[2]] ELSE f[s]]

\* The result of a call: next if ok, and otherwise an error.
Result(db, ok, next) == [ok |-> ok, db |-> IF ok THEN next ELSE db]
=============================================================================
