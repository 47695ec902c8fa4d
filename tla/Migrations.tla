------------------------------ MODULE Migrations ------------------------------
(***************************************************************************)
(* migrate.ts, which every pod runs before it serves: the numbered files   *)
(* that are not recorded in schema_migrations, each in a transaction, then *)
(* the files of functions, one by one.  During a rollout pods of two       *)
(* releases are up together, and any of them may be restarted.             *)
(***************************************************************************)
EXTENDS Naturals

CONSTANTS
  Pods,
  Release,       \* the image of each pod
  FilesOf,       \* the numbered files of each release
  LastFunction,  \* the files of functions are 1..LastFunction in every release
  MaxBoots       \* bound

Releases == {Release[p] : p \in Pods}
Files == UNION {FilesOf[r] : r \in Releases}

MigrationsAssumption == Files \subseteq Nat /\ LastFunction \in Nat /\ MaxBoots \in Nat

VARIABLES
  recorded,  \* schema_migrations
  effect,    \* how often the content of each file was committed
  functions, \* the release each file of functions was last applied from
  pods,
  boots,
  overtaken  \* pods up when one of another release applied its functions (history)

vars == <<recorded, effect, functions, pods, boots, overtaken>>

NoRelease == 0
Down == [pc |-> "down"]

\* An empty database, or one that some pod of a release has set up.
Init ==
  /\ \E r \in Releases \cup {NoRelease} :
       /\ recorded = IF r = NoRelease THEN {} ELSE FilesOf[r]
       /\ functions = [g \in 1..LastFunction |-> r]
  /\ effect = [f \in Files |-> IF f \in recorded THEN 1 ELSE 0]
  /\ pods = [p \in Pods |-> Down]
  /\ boots = 0 /\ overtaken = {}

\* What is recorded is read once, and decides which files are run.
Boot(p) ==
  /\ pods[p] = Down
  /\ boots < MaxBoots /\ boots' = boots + 1
  /\ pods' = [pods EXCEPT ![p] = [pc |-> "files", left |-> FilesOf[Release[p]] \ recorded]]
  /\ overtaken' = overtaken \ {p}
  /\ UNCHANGED <<recorded, effect, functions>>

\* f is the next file to run, and no other pod has run it meanwhile.
IsNext(p, f) ==
  /\ pods[p].pc = "files" /\ f \in pods[p].left
  /\ \A g \in pods[p].left : f <= g
  /\ f \notin recorded

\* (A mistake: what a file does and its record are not in one transaction.)
RunFile_Apart(p, f) ==
  /\ IsNext(p, f)
  /\ \/ recorded' = recorded /\ pods' = [pods EXCEPT ![p] = Down]
     \/ recorded' = recorded \cup {f} /\ pods' = [pods EXCEPT ![p].left = @ \ {f}]
  /\ effect' = [effect EXCEPT ![f] = @ + 1]
  /\ UNCHANGED <<functions, boots, overtaken>>

\* The file and its record, in one transaction.
RunFile(p, f) ==
  /\ IsNext(p, f)
  /\ recorded' = recorded \cup {f}
  /\ effect' = [effect EXCEPT ![f] = @ + 1]
  /\ pods' = [pods EXCEPT ![p] = [pc |-> "files", left |-> pods[p].left \ {f}]]
  /\ UNCHANGED <<functions, boots, overtaken>>

FilesDone(p) ==
  /\ pods[p].pc = "files" /\ pods[p].left = {}
  /\ pods' = [pods EXCEPT ![p] = [pc |-> "functions", next |-> 1]]
  /\ UNCHANGED <<recorded, effect, functions, boots, overtaken>>

\* One file of functions, in no transaction with the others.
Apply(p) ==
  /\ pods[p].pc = "functions" /\ pods[p].next <= LastFunction
  /\ functions' = [functions EXCEPT ![pods[p].next] = Release[p]]
  /\ pods' = [pods EXCEPT ![p] = [pc |-> "functions", next |-> pods[p].next + 1]]
  /\ overtaken' = overtaken \cup {q \in Pods : pods[q] # Down /\ Release[q] # Release[p]}
  /\ UNCHANGED <<recorded, effect, boots>>

\* main.js starts, and the pod is ready.
Serve(p) ==
  /\ pods[p].pc = "functions" /\ pods[p].next > LastFunction
  /\ pods' = [pods EXCEPT ![p] = [pc |-> "serving"]]
  /\ UNCHANGED <<recorded, effect, functions, boots, overtaken>>

\* exit(1): a file fails, and its transaction with it, as it must when another pod has
\* recorded the file meanwhile.  Or the pod is stopped, wherever it is.
Exit(p) ==
  /\ pods[p] # Down
  /\ pods' = [pods EXCEPT ![p] = Down]
  /\ UNCHANGED <<recorded, effect, functions, boots, overtaken>>

Next ==
  \E p \in Pods :
    \/ Boot(p) \/ FilesDone(p) \/ Apply(p) \/ Serve(p) \/ Exit(p)
    \/ \E f \in Files : RunFile(p, f)

Spec == Init /\ [][Next]_vars

-----------------------------------------------------------------------------
\* The database and the pods are well formed.
TypeOK ==
  /\ recorded \subseteq Files /\ effect \in [Files -> Nat]
  /\ functions \in [1..LastFunction -> Releases \cup {NoRelease}]
  /\ \A p \in Pods : pods[p].pc \in {"down", "files", "functions", "serving"}
  /\ boots \in 0..MaxBoots /\ overtaken \subseteq Pods

\* However pods boot, fail and are restarted next to one another, each file takes effect once,
\* none is taken for run that was not, and a pod serves the schema and the functions of its
\* own release, unless one of another release applied its own since (migrate.ts).
ServesItsSchema ==
  /\ \A f \in Files : effect[f] = IF f \in recorded THEN 1 ELSE 0
  /\ \A p \in Pods : pods[p].pc = "serving" =>
       /\ FilesOf[Release[p]] \subseteq recorded
       /\ p \notin overtaken => \A g \in 1..LastFunction : functions[g] = Release[p]
=============================================================================
