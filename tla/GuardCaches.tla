----------------------------- MODULE GuardCaches -----------------------------
(***************************************************************************)
(* What the guards of every request remember: the profile of the user, in  *)
(* Redis (SsoAuthGuard), the screens that ask for the network of the shop  *)
(* and the status of an address, in the memory of the process              *)
(* (NetworkService).  The three share nothing, so a behaviour follows one. *)
(* A request that misses reads the database, and writes the cache when the *)
(* answer is there; a save may come between.                               *)
(***************************************************************************)
EXTENDS Naturals

CONSTANTS
  TTL,                 \* USER_CACHE_TTL, GUARD_TTL_MS, IP_TTL_MS, by kind
  Requests,
  MaxTime, MaxSaves    \* bounds

Kinds == {"profile", "screens", "ip"}

CachesAssumption == TTL \in [Kinds -> Nat] /\ MaxTime \in Nat /\ MaxSaves \in Nat

VARIABLES
  kind,    \* the cache that is followed
  time,
  value,   \* what the database holds: how often it was saved
  cache,
  saving,  \* the saves that have done the first of their two steps
  begun,   \* the saves
  reads,   \* what each request has read and is to store
  ended,   \* ended[v]: when v was saved over (history)
  late     \* the entry was stored after its value was saved over (history)

vars == <<kind, time, value, cache, saving, begun, reads, ended, late>>

Versions == 0..MaxSaves
Empty == [is |-> "empty"]
Nothing == [is |-> "nothing"]
Never == MaxTime + 1

Init ==
  /\ kind \in Kinds
  /\ time = 0 /\ value = 0
  /\ cache = Empty
  /\ saving = 0 /\ begun = 0
  /\ reads = [r \in Requests |-> Nothing]
  /\ ended = [v \in Versions |-> Never]
  /\ late = FALSE

\* The entry serves the requests until its time is up.
Hit == cache # Empty /\ time - cache.at < TTL[kind]

\* A request that misses, or that Redis does not answer, reads the database.
Miss(r) ==
  /\ reads[r] = Nothing
  /\ Hit => kind = "profile"
  /\ reads' = [reads EXCEPT ![r] = [value |-> value]]
  /\ UNCHANGED <<kind, time, value, cache, saving, begun, ended, late>>

Store(r) ==
  /\ reads[r] # Nothing /\ reads' = [reads EXCEPT ![r] = Nothing]
  /\ cache' = [value |-> reads[r].value, at |-> time]
  /\ late' = (reads[r].value # value)
  /\ UNCHANGED <<kind, time, value, saving, begun, ended>>

\* The database fails, which the network guard takes for no restriction; or Redis does not
\* take the entry.
NotStored(r) ==
  /\ reads[r] # Nothing /\ reads' = [reads EXCEPT ![r] = Nothing]
  /\ UNCHANGED <<kind, time, value, cache, saving, begun, ended, late>>

Write ==
  /\ value' = value + 1
  /\ ended' = [ended EXCEPT ![value] = time]
  /\ UNCHANGED <<cache, late>>

Bust ==
  /\ cache' = Empty /\ late' = FALSE
  /\ UNCHANGED <<value, ended>>

\* updateUserRole and updateUserCustomName drop an entry of the user's id, and the entries
\* are kept by the email: this one stays.
DropById == UNCHANGED <<value, ended, cache, late>>

\* saveGuardedScreens saves and then forgets; upsertNetwork and deleteNetwork do it the
\* other way round.
First == IF kind = "ip" THEN Bust ELSE Write

\* (A mistake: the screens are saved, and not forgotten.)
Second_KeepsScreens == IF kind = "ip" THEN Write ELSE DropById

Second ==
  CASE kind = "profile" -> DropById
    [] kind = "screens" -> Bust
    [] kind = "ip" -> Write

Save ==
  /\ begun < MaxSaves /\ begun' = begun + 1
  /\ saving' = saving + 1
  /\ First
  /\ UNCHANGED <<kind, time, reads>>

EndSave ==
  /\ saving > 0 /\ saving' = saving - 1
  /\ Second
  /\ UNCHANGED <<kind, time, begun, reads>>

\* The process restarts: Redis keeps what it holds.
Restart ==
  /\ cache' = IF kind = "profile" THEN cache ELSE Empty
  /\ late' = (late /\ kind = "profile")
  /\ saving' = 0
  /\ reads' = [r \in Requests |-> Nothing]
  /\ UNCHANGED <<kind, time, value, begun, ended>>

Tick ==
  /\ time < MaxTime /\ time' = time + 1
  /\ UNCHANGED <<kind, value, cache, saving, begun, reads, ended, late>>

Next ==
  \/ \E r \in Requests : Miss(r) \/ Store(r) \/ NotStored(r)
  \/ Save \/ EndSave \/ Restart \/ Tick

Spec == Init /\ [][Next]_vars

-----------------------------------------------------------------------------
\* The cache, the reads and the saves are well formed.
TypeOK ==
  /\ kind \in Kinds /\ time \in 0..MaxTime /\ value \in Versions
  /\ cache = Empty \/ cache \in [value : Versions, at : 0..MaxTime]
  /\ saving \in 0..MaxSaves /\ begun \in 0..MaxSaves
  /\ \A r \in Requests : reads[r] = Nothing \/ reads[r].value \in Versions
  /\ ended \in [Versions -> 0..Never] /\ late \in BOOLEAN

\* What was saved over serves no request longer than the time of its cache, and the screens
\* not once their save has ended, unless a request that had read before stored after
\* (USER_CACHE_TTL: a role takes effect at the latest after so long).
StaleIsBounded ==
  Hit /\ cache.value # value /\ ~late =>
    /\ time - ended[cache.value] < TTL[kind]
    /\ kind = "screens" => saving > 0
=============================================================================
