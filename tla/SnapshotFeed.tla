---------------------------- MODULE SnapshotFeed ----------------------------
(***************************************************************************)
(* What the service promises an SDK about the snapshots it is given,         *)
(* without handlers, locks, rings, queues or connections.                    *)
(*                                                                         *)
(* The content of an environment only moves forward.  Now and then its       *)
(* current content is recorded under the next version.  At any time a client *)
(* may be given any honest snapshot of its own environment: one labelled v   *)
(* that holds at least what was recorded under every version up to v, and    *)
(* nothing the environment does not hold.  Snapshots may come late, twice or *)
(* out of order, and may mix parts read at different moments.                *)
(***************************************************************************)
EXTENDS SnapshotContent, Sequences

CONSTANTS
  Scopes,        \* the <<project, environment>> pairs
  Clients,       \* SDK instances
  ClientScope,   \* the scope of each client's SDK key
  Nil

VARIABLES
  content,       \* scope -> its content now
  history,       \* scope -> the content recorded under version 1, 2, ...
  view           \* client -> the snapshot it evaluates with, or Nil

vars == <<content, history, view>>

Init ==
  /\ content = [s \in Scopes |-> NoContent]
  /\ history = [s \in Scopes |-> <<>>]
  /\ view = [c \in Clients |-> Nil]

\* A management request changes the environments of its project.
Change ==
  /\ content' \in [Scopes -> Contents]
  /\ \A s \in Scopes : AtLeast(content'[s], content[s])
  /\ UNCHANGED <<history, view>>

\* The version of an environment is incremented.
Commit(s) ==
  /\ history' = [history EXCEPT ![s] = Append(@, content[s])]
  /\ UNCHANGED <<content, view>>

Honest(snap, s) ==
  /\ <<snap.project, snap.env>> = s
  /\ snap.version \in 0 .. Len(history[s])
  /\ AtLeast(content[s], ContentOf(snap))
  /\ \A v \in 1 .. snap.version : AtLeast(ContentOf(snap), history[s][v])

\* A client takes an event from its stream.
Give(c) ==
  /\ Honest(view'[c], ClientScope[c])
  /\ view' = [view EXCEPT ![c] = view'[c]]
  /\ UNCHANGED <<content, history>>

Next ==
  \/ Change
  \/ \E s \in Scopes : Commit(s)
  \/ \E c \in Clients : Give(c)

Spec == Init /\ [][Next]_vars
=============================================================================
