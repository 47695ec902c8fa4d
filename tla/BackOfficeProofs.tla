-------------------------- MODULE BackOfficeProofs --------------------------
(***************************************************************************)
(* What is proved of the caches of the guards, the session of a browser    *)
(* and the pods that migrate the database, each as in OrderProofs, and the *)
(* types of the whole.                                                     *)
(***************************************************************************)
EXTENDS StaffProofs, BillProofs

-----------------------------------------------------------------------------
(* The caches of the guards.                                               *)

GuardsEntries == [value : Guards!Versions, at : 0..MaxTime]

GuardsTypes ==
  /\ kind \in Guards!Kinds /\ time \in 0..MaxTime /\ value \in Guards!Versions
  /\ cache \in {Guards!Empty} \cup GuardsEntries
  /\ saving \in 0..MaxSaves /\ saves \in 0..MaxSaves
  /\ reads \in [Requests -> {Guards!Nothing} \cup [value : Guards!Versions]]
  /\ ended \in [Guards!Versions -> 0..Guards!Never] /\ late \in BOOLEAN

\* The saves there is room for: of an address, those under way are still to be written.
GuardsRoom == saving <= saves /\ value <= saves /\ (kind = "ip" => value + saving <= saves)

GuardsStale == cache # Guards!Empty /\ cache.value # value /\ ~late

\* Nothing was stored in the time to come, and what is stale was saved over after it was
\* stored; of the screens, the save that did it has not ended.
GuardsStaleSince ==
  /\ cache # Guards!Empty => cache.at <= time
  /\ GuardsStale => cache.at <= ended[cache.value]
  /\ GuardsStale /\ kind = "screens" => saving > 0

\* The inductive invariant.
GuardsIInv == GuardsTypes /\ GuardsRoom /\ GuardsStaleSince

LEMMA GuardsEntryShape ==
  Guards!Empty \notin GuardsEntries /\ Guards!Nothing \notin [value : Guards!Versions]
  BY DEF Guards!Empty, Guards!Nothing, GuardsEntries

LEMMA GuardsInitIInv == ASSUME Guards!CachesAssumption, Guards!Init PROVE GuardsIInv
  <1>1. ended \in [Guards!Versions -> 0..Guards!Never]
    BY DEF Guards!CachesAssumption, Guards!Init, Guards!Never
  <1>2. value \in Guards!Versions /\ time \in 0..MaxTime /\ saving \in 0..MaxSaves /\ saves \in 0..MaxSaves
    BY DEF Guards!CachesAssumption, Guards!Init, Guards!Versions
  <1>3. GuardsTypes
    BY <1>1, <1>2 DEF Guards!Init, GuardsTypes
  <1>4. GuardsRoom /\ GuardsStaleSince
    BY DEF Guards!Init, GuardsRoom, GuardsStaleSince, GuardsStale
  <1> QED BY <1>3, <1>4 DEF GuardsIInv

\* What Write does, when there is room for it.
LEMMA GuardsWriteKeeps ==
  ASSUME Guards!CachesAssumption, GuardsIInv, value < MaxSaves, Guards!Write
  PROVE  /\ value' \in Guards!Versions /\ ended' \in [Guards!Versions -> 0..Guards!Never]
         /\ cache # Guards!Empty /\ cache.value # value' /\ ~late => cache.at <= ended'[cache.value]
  <1>1. value \in 0..MaxSaves /\ value' = value + 1
    BY DEF Guards!Write, GuardsIInv, GuardsTypes, Guards!Versions
  <1>2. value' \in Guards!Versions
    BY <1>1 DEF Guards!Versions, Guards!CachesAssumption
  <1>3. time \in 0..Guards!Never
    BY DEF GuardsIInv, GuardsTypes, Guards!CachesAssumption, Guards!Never
  <1>4. ended' \in [Guards!Versions -> 0..Guards!Never]
    BY <1>3 DEF Guards!Write, GuardsIInv, GuardsTypes
  <1>5. \A v \in Guards!Versions : ended'[v] = IF v = value THEN time ELSE ended[v]
    BY DEF Guards!Write, GuardsIInv, GuardsTypes
  <1>6. cache # Guards!Empty => cache.value \in Guards!Versions
    BY DEF GuardsIInv, GuardsTypes, GuardsEntries
  <1> QED BY <1>2, <1>4, <1>5, <1>6 DEF GuardsIInv, GuardsStaleSince, GuardsStale

LEMMA GuardsSaveKeeps == ASSUME Guards!CachesAssumption, GuardsIInv, Guards!Save PROVE GuardsIInv'
  <1>1. /\ saves' = saves + 1 /\ saving' = saving + 1
        /\ saves' \in 0..MaxSaves /\ saving' \in 0..MaxSaves
        /\ value < MaxSaves
    BY DEF Guards!Save, GuardsIInv, GuardsTypes, GuardsRoom, Guards!Versions,
         Guards!CachesAssumption
  <1>2. CASE kind = "ip"
    <2>1. Guards!Bust /\ kind' = "ip" /\ value' = value
      BY <1>2 DEF Guards!Save, Guards!First, Guards!Bust
    <2>2. GuardsTypes'
      BY <1>1, <2>1 DEF Guards!Save, Guards!Bust, GuardsIInv, GuardsTypes
    <2>3. GuardsRoom'
      BY <1>1, <1>2, <2>1 DEF GuardsIInv, GuardsTypes, GuardsRoom, Guards!Versions
    <2> QED BY <2>1, <2>2, <2>3 DEF Guards!Bust, GuardsIInv, GuardsStaleSince, GuardsStale
  <1>3. CASE kind # "ip"
    <2>1. Guards!Write /\ kind' # "ip" /\ value' = value + 1
      BY <1>3 DEF Guards!Save, Guards!First, Guards!Write
    <2>2. /\ value' \in Guards!Versions /\ ended' \in [Guards!Versions -> 0..Guards!Never]
          /\ cache # Guards!Empty /\ cache.value # value' /\ ~late => cache.at <= ended'[cache.value]
      BY <1>1, <2>1, GuardsWriteKeeps
    <2>3. GuardsTypes'
      BY <1>1, <2>1, <2>2 DEF Guards!Save, Guards!Write, GuardsIInv, GuardsTypes
    <2>4. GuardsRoom'
      BY <1>1, <2>1 DEF GuardsIInv, GuardsTypes, GuardsRoom, Guards!Versions
    <2>5. saving' > 0
      BY <1>1 DEF GuardsIInv, GuardsTypes
    <2>6. GuardsStaleSince'
      BY <2>1, <2>2, <2>5 DEF Guards!Save, Guards!Write, GuardsIInv, GuardsStaleSince, GuardsStale
    <2> QED BY <2>3, <2>4, <2>6 DEF GuardsIInv
  <1> QED BY <1>2, <1>3

LEMMA GuardsEndSaveKeeps ==
  ASSUME Guards!CachesAssumption, GuardsIInv, Guards!EndSave PROVE GuardsIInv'
  <1>1. saving' = saving - 1 /\ saving > 0 /\ saving' \in 0..MaxSaves
    BY DEF Guards!EndSave, GuardsIInv, GuardsTypes, Guards!CachesAssumption
  <1>2. CASE kind = "profile"
    <2>1. UNCHANGED <<value, ended, cache, late>>
      BY <1>2 DEF Guards!EndSave, Guards!Second, Guards!DropById
    <2>2. GuardsRoom'
      BY <1>1, <1>2, <2>1 DEF Guards!EndSave, GuardsIInv, GuardsTypes, GuardsRoom
    <2> QED BY <1>1, <1>2, <2>1, <2>2
               DEF Guards!EndSave, GuardsIInv, GuardsTypes, GuardsStaleSince, GuardsStale
  <1>3. CASE kind = "screens"
    <2>1. Guards!Bust
      BY <1>3 DEF Guards!EndSave, Guards!Second
    <2>2. GuardsTypes'
      BY <1>1, <2>1 DEF Guards!EndSave, Guards!Bust, GuardsIInv, GuardsTypes
    <2>3. GuardsRoom'
      BY <1>1, <1>3, <2>1 DEF Guards!EndSave, Guards!Bust, GuardsIInv, GuardsTypes, GuardsRoom
    <2> QED BY <2>1, <2>2, <2>3
               DEF Guards!EndSave, Guards!Bust, GuardsIInv, GuardsStaleSince, GuardsStale
  <1>4. CASE kind = "ip"
    <2>1. Guards!Write
      BY <1>4 DEF Guards!EndSave, Guards!Second
    <2>2. value < MaxSaves
      BY <1>1, <1>4
         DEF GuardsIInv, GuardsTypes, GuardsRoom, Guards!Versions, Guards!CachesAssumption
    <2>3. /\ value' \in Guards!Versions /\ ended' \in [Guards!Versions -> 0..Guards!Never]
          /\ cache # Guards!Empty /\ cache.value # value' /\ ~late => cache.at <= ended'[cache.value]
      BY <2>1, <2>2, GuardsWriteKeeps
    <2>4. GuardsTypes'
      BY <1>1, <2>1, <2>3 DEF Guards!EndSave, Guards!Write, GuardsIInv, GuardsTypes
    <2>5. GuardsRoom'
      BY <1>1, <1>4, <2>1
         DEF Guards!EndSave, Guards!Write, GuardsIInv, GuardsTypes, GuardsRoom, Guards!Versions
    <2>6. GuardsStaleSince'
      BY <1>4, <2>1, <2>3
         DEF Guards!EndSave, Guards!Write, GuardsIInv, GuardsStaleSince, GuardsStale
    <2> QED BY <2>4, <2>5, <2>6 DEF GuardsIInv
  <1> QED BY <1>2, <1>3, <1>4 DEF GuardsIInv, GuardsTypes, Guards!Kinds

LEMMA GuardsStoreKeeps == ASSUME GuardsIInv, NEW r \in Requests, Guards!Store(r) PROVE GuardsIInv'
  <1>1. reads[r] \in [value : Guards!Versions]
    BY DEF Guards!Store, GuardsIInv, GuardsTypes
  <1> DEFINE new == [value |-> reads[r].value, at |-> time]
  <1>2. cache' = new /\ new \in GuardsEntries
    BY <1>1 DEF Guards!Store, GuardsIInv, GuardsTypes, GuardsEntries
  <1>3. late' = (reads[r].value # value) /\ late' \in BOOLEAN
    BY DEF Guards!Store
  <1>4. reads' \in [Requests -> {Guards!Nothing} \cup [value : Guards!Versions]]
    BY DEF Guards!Store, GuardsIInv, GuardsTypes
  <1>5. GuardsTypes'
    <2> HIDE DEF new
    <2> QED BY <1>2, <1>3, <1>4 DEF Guards!Store, GuardsIInv, GuardsTypes
  <1>6. ~GuardsStale'
    <2>1. late' <=> reads[r].value # value
      BY <1>3, Zenon
    <2>2. cache'.value = reads[r].value /\ value' = value
      BY <1>2 DEF Guards!Store
    <2> QED BY <2>1, <2>2 DEF GuardsStale
  <1>7. GuardsStaleSince'
    <2>1. time \in Nat
      BY DEF GuardsIInv, GuardsTypes
    <2> QED BY <1>2, <1>6, <2>1 DEF Guards!Store, GuardsStaleSince
  <1> QED BY <1>5, <1>7 DEF Guards!Store, GuardsIInv, GuardsRoom

LEMMA GuardsStepKeeps ==
  ASSUME Guards!CachesAssumption, GuardsIInv, [Guards!Next]_Guards!vars PROVE GuardsIInv'
  <1>1. ASSUME NEW r \in Requests, Guards!Miss(r) PROVE GuardsIInv'
    <2>1. reads' \in [Requests -> {Guards!Nothing} \cup [value : Guards!Versions]]
      BY <1>1 DEF Guards!Miss, GuardsIInv, GuardsTypes
    <2> QED BY <1>1, <2>1
               DEF Guards!Miss, GuardsIInv, GuardsTypes, GuardsRoom, GuardsStaleSince, GuardsStale
  <1>2. ASSUME NEW r \in Requests, Guards!Store(r) PROVE GuardsIInv'
    BY <1>2, GuardsStoreKeeps
  <1>3. ASSUME NEW r \in Requests, Guards!NotStored(r) PROVE GuardsIInv'
    <2>1. reads' \in [Requests -> {Guards!Nothing} \cup [value : Guards!Versions]]
      BY <1>3 DEF Guards!NotStored, GuardsIInv, GuardsTypes
    <2> QED BY <1>3, <2>1
               DEF Guards!NotStored, GuardsIInv, GuardsTypes, GuardsRoom, GuardsStaleSince,
                   GuardsStale
  <1>4. CASE Guards!Save
    BY <1>4, GuardsSaveKeeps
  <1>5. CASE Guards!EndSave
    BY <1>5, GuardsEndSaveKeeps
  <1>6. CASE Guards!Restart
    <2>1. GuardsTypes'
      BY <1>6 DEF Guards!Restart, Guards!CachesAssumption, GuardsIInv, GuardsTypes
    <2>2. GuardsRoom'
      BY <1>6 DEF Guards!Restart, GuardsIInv, GuardsTypes, GuardsRoom, Guards!Versions
    <2>3. GuardsStaleSince'
      BY <1>6 DEF Guards!Restart, GuardsIInv, GuardsTypes, GuardsStaleSince, GuardsStale
    <2> QED BY <2>1, <2>2, <2>3 DEF GuardsIInv
  <1>7. CASE Guards!Tick
    <2>1. time' \in 0..MaxTime /\ time < time'
      BY <1>7 DEF Guards!Tick, Guards!CachesAssumption, GuardsIInv, GuardsTypes
    <2>2. GuardsTypes' /\ GuardsRoom'
      BY <1>7, <2>1 DEF Guards!Tick, GuardsIInv, GuardsTypes, GuardsRoom
    <2>3. cache # Guards!Empty => cache.at \in Nat /\ cache.at <= time
      BY DEF GuardsIInv, GuardsTypes, GuardsStaleSince, GuardsEntries
    <2>4. GuardsStaleSince'
      BY <1>7, <2>1, <2>3 DEF Guards!Tick, GuardsIInv, GuardsTypes, GuardsStaleSince, GuardsStale
    <2> QED BY <2>2, <2>4 DEF GuardsIInv
  <1>8. CASE UNCHANGED Guards!vars
    BY <1>8 DEF Guards!vars, GuardsIInv, GuardsTypes, GuardsRoom, GuardsStaleSince, GuardsStale
  <1> QED BY <1>1, <1>2, <1>3, <1>4, <1>5, <1>6, <1>7, <1>8 DEF Guards!Next

LEMMA GuardsIInvAlways == ASSUME Guards!CachesAssumption PROVE Guards!Spec => []GuardsIInv
  <1>1. Guards!Init => GuardsIInv
    BY GuardsInitIInv
  <1>2. GuardsIInv /\ [Guards!Next]_Guards!vars => GuardsIInv'
    BY GuardsStepKeeps
  <1> QED BY <1>1, <1>2, PTL DEF Guards!Spec

\* The cache, the reads and the saves stay well formed (NetworkService, SsoAuthGuard).
LEMMA GuardsTypesKept == ASSUME Guards!CachesAssumption PROVE Guards!Spec => []Guards!TypeOK
  <1>1. GuardsIInv => Guards!TypeOK
    BY DEF GuardsIInv, GuardsTypes, GuardsEntries, Guards!TypeOK
  <1> QED BY <1>1, GuardsIInvAlways, PTL

\* A role, a list of screens or a network that was saved over is served no longer than the
\* time of its cache, and the screens not once their save has ended, but for a request that
\* stored late (NetworkService, SsoAuthGuard).
LEMMA GuardsStaleAlwaysBounded ==
  ASSUME Guards!CachesAssumption PROVE Guards!Spec => []Guards!StaleIsBounded
  <1>1. ASSUME GuardsIInv PROVE Guards!StaleIsBounded
    <2> SUFFICES ASSUME Guards!Hit, cache.value # value, ~late
                 PROVE  /\ time - ended[cache.value] < CacheTTL[kind]
                        /\ kind = "screens" => saving > 0
      BY DEF Guards!StaleIsBounded
    <2>1. GuardsStale /\ cache \in GuardsEntries
      BY <1>1 DEF Guards!Hit, GuardsStale, GuardsIInv, GuardsTypes
    <2>2. /\ time \in Nat /\ cache.at \in Nat /\ cache.value \in Guards!Versions /\ CacheTTL[kind] \in Nat
      BY <1>1, <2>1 DEF GuardsIInv, GuardsTypes, GuardsEntries, Guards!CachesAssumption
    <2>3. ended[cache.value] \in 0..Guards!Never
      BY <1>1, <2>2 DEF GuardsIInv, GuardsTypes
    <2>4. cache.at <= ended[cache.value] /\ (kind = "screens" => saving > 0)
      BY <1>1, <2>1 DEF GuardsIInv, GuardsStaleSince
    <2> QED BY <2>2, <2>3, <2>4 DEF Guards!Hit
  <1> QED BY <1>1, GuardsIInvAlways, PTL

\* A behaviour of the back office is one of the part.
LEMMA GuardsRuns == Spec => Guards!Spec
  <1>1. Init => Guards!Init
    BY DEF Init
  <1>2. [Next]_vars => [Guards!Next]_Guards!vars
    BY DEF Next, Rest, vars, guardVars, Guards!vars
  <1> QED BY <1>1, <1>2, PTL DEF Spec, Guards!Spec

LEMMA GuardsAlwaysTyped == Spec => []Guards!TypeOK
  <1>1. Guards!CachesAssumption
    BY BackOfficeAssumption
  <1> QED BY <1>1, GuardsRuns, GuardsTypesKept, PTL

\* A role, a list of screens or a network that was saved over is served no longer than the
\* time of its cache, and the screens not once their save has ended, but for a request that
\* stored late (NetworkService, SsoAuthGuard).
THEOREM StaleGuardsBounded == Spec => []StaleIsBounded
  <1>1. Guards!CachesAssumption
    BY BackOfficeAssumption
  <1>2. Guards!StaleIsBounded => StaleIsBounded
    BY DEF StaleIsBounded
  <1> QED BY <1>1, <1>2, GuardsRuns, GuardsStaleAlwaysBounded, PTL

-----------------------------------------------------------------------------
(* The session of a browser.                                               *)

\* What a tab may be at.
BrowserErrands == {"callback", "refresh", "logout"}
BrowserGoing == [pc : {"sent"}, kind : BrowserErrands, token : 0..handed]
BrowserReplies == [is : {"token"}, token : 1..handed] \cup [is : {"refused", "error"}]
BrowserComing == [pc : {"answer"}, kind : BrowserErrands, token : BrowserReplies]

\* The jar, the tokens and the requests are of the tokens handed out.
BrowserJarOK == handed \in 0..MaxTokens /\ cookie \in 0..handed
BrowserTokensOK == session \in [Browser!Tokens -> Browser!Tokens \cup {Browser!NoToken}] /\ live \subseteq 1..handed
BrowserTabsOK == tabs \in [Tabs -> {Browser!Idle} \cup BrowserGoing \cup BrowserComing]
BrowserRestOK == incidents \in 0..MaxIncidents /\ upset \subseteq Browser!Upsets
BrowserTyped == BrowserJarOK /\ BrowserTokensOK /\ BrowserTabsOK /\ BrowserRestOK

\* The token in the jar is accepted, if there was one at all.
BrowserGood == handed > 0 => cookie \in live

\* A request is alone.
BrowserAlone == \A b, c \in Tabs : tabs[b] # Browser!Idle /\ tabs[c] # Browser!Idle => b = c

\* What a request carries, or brings, is accepted, and none logs out.
BrowserCarries(b) ==
  tabs[b].pc = "sent" =>
    tabs[b].kind # "logout" /\ (tabs[b].kind = "refresh" => tabs[b].token \in live)
BrowserBrings(b) ==
  tabs[b].pc = "answer" =>
    /\ tabs[b].kind # "logout"
    /\ \/ tabs[b].token.is = "error"
       \/ tabs[b].token.is = "token" /\ tabs[b].token.token \in live

\* The jar is good unless its new token is on the way.
BrowserJarGood ==
  BrowserGood \/ \E b \in Tabs : tabs[b].pc = "answer" /\ tabs[b].token.is = "token"

BrowserCalm == BrowserAlone /\ BrowserJarGood /\ \A b \in Tabs : BrowserCarries(b) /\ BrowserBrings(b)

BrowserIInv == BrowserTyped /\ (upset = {} => BrowserCalm)

BrowserActs(b) == Browser!Ask(b) \/ Browser!Issue(b) \/ Browser!Refused(b) \/ Browser!Revoke(b) \/ Browser!Unreachable(b) \/ Browser!Arrive(b) \/ Browser!Lost(b)

LEMMA BrowserInitIInv == ASSUME Browser!SignOnAssumption, Browser!Init PROVE BrowserIInv
  BY DEF Browser!SignOnAssumption, Browser!Init, BrowserIInv, BrowserTyped, BrowserJarOK,
       BrowserTokensOK, BrowserTabsOK, BrowserRestOK, BrowserCalm, BrowserAlone, BrowserJarGood,
         BrowserCarries, BrowserBrings, BrowserGood, Browser!Tokens, Browser!NoToken, Browser!Idle

\* What a tab is at tells what it carries.
LEMMA BrowserAtTab ==
  ASSUME BrowserTyped, NEW b \in Tabs
  PROVE  /\ tabs[b].pc = "sent" => tabs[b] \in BrowserGoing
         /\ tabs[b].pc = "answer" => tabs[b] \in BrowserComing
         /\ tabs[b] # Browser!Idle => tabs[b] \in BrowserGoing \cup BrowserComing
         /\ tabs[b] = Browser!Idle => tabs[b].pc = "idle"
  BY DEF BrowserTyped, BrowserTabsOK, Browser!Idle, BrowserGoing, BrowserComing

\* What an answer makes of a tab.
LEMMA BrowserAnsweredTab ==
  ASSUME BrowserTyped, NEW b \in Tabs, tabs[b].pc = "sent", NEW a, Browser!Answered(b, a)
  PROVE  tabs' = [tabs EXCEPT ![b] = [pc |-> "answer", kind |-> tabs[b].kind, token |-> a]]
  <1>1. tabs[b] \in BrowserGoing
    BY BrowserAtTab
  <1>2. [tabs[b] EXCEPT !.pc = "answer", !.token = a]
          = [pc |-> "answer", kind |-> tabs[b].kind, token |-> a]
    <2>1. [tabs[b] EXCEPT !.pc = "answer", !.token = a]
            \in [pc : {"answer"}, kind : {tabs[b].kind}, token : {a}]
      BY <1>1 DEF BrowserGoing
    <2>2. \A p, k, t, r : r \in [pc : {p}, kind : {k}, token : {t}] =>
                           r = [pc |-> p, kind |-> k, token |-> t]
      OBVIOUS
    <2> QED BY <2>1, <2>2, Zenon
  <1>3. tabs' = [tabs EXCEPT ![b] = [tabs[b] EXCEPT !.pc = "answer", !.token = a]]
    BY DEF Browser!Answered
  <1> QED BY <1>2, <1>3

\* One tab moves to a request or an answer of tokens handed out, or comes to rest.
LEMMA BrowserTabsMove ==
  ASSUME BrowserTyped, BrowserJarOK', handed <= handed', NEW b \in Tabs,
         NEW r \in {Browser!Idle} \cup BrowserGoing' \cup BrowserComing',
         tabs' = [tabs EXCEPT ![b] = r]
  PROVE  BrowserTabsOK'
  <1> SUFFICES ASSUME NEW c \in Tabs
               PROVE  tabs'[c] \in {Browser!Idle} \cup BrowserGoing' \cup BrowserComing'
    BY DEF BrowserTyped, BrowserTabsOK
  <1>1. CASE c = b
    BY <1>1 DEF BrowserTyped, BrowserTabsOK
  <1>2. CASE c # b
    <2>1. tabs'[c] = tabs[c] /\ tabs[c] \in {Browser!Idle} \cup BrowserGoing \cup BrowserComing
      BY <1>2 DEF BrowserTyped, BrowserTabsOK
    <2>2. 0..handed \subseteq 0..handed' /\ 1..handed \subseteq 1..handed'
      BY DEF BrowserTyped, BrowserJarOK
    <2>3. BrowserReplies \subseteq BrowserReplies'
      BY <2>2 DEF BrowserReplies
    <2>4. BrowserGoing \subseteq BrowserGoing' /\ BrowserComing \subseteq BrowserComing'
      BY <2>2, <2>3 DEF BrowserGoing, BrowserComing
    <2> QED BY <2>1, <2>4
  <1> QED BY <1>1, <1>2

\* What each operation changes of the tabs.
LEMMA BrowserTabOf ==
  ASSUME Browser!SignOnAssumption, BrowserTyped, NEW b \in Tabs, BrowserActs(b)
  PROVE  /\ handed' \in 0..MaxTokens /\ handed <= handed'
         /\ \E r \in {Browser!Idle} \cup BrowserGoing' \cup BrowserComing' : tabs' = [tabs EXCEPT ![b] = r]
  <1> USE DEF Browser!SignOnAssumption
  <1>1. handed' \in 0..MaxTokens /\ handed <= handed'
    BY DEF BrowserActs, Browser!Ask, Browser!Leave, Browser!Issue, Browser!Refused,
         Browser!Revoke, Browser!Unreachable, Browser!Arrive, Browser!Lost, BrowserTyped,
         BrowserJarOK, Browser!Tokens
  <1>2. CASE Browser!Ask(b)
    <2>1. PICK k \in BrowserErrands : tabs' = [tabs EXCEPT ![b] = [pc |-> "sent", kind |-> k, token |-> cookie]]
      BY <1>2 DEF Browser!Ask, Browser!Leave, BrowserErrands
    <2>2. [pc |-> "sent", kind |-> k, token |-> cookie] \in BrowserGoing'
      BY <1>1, <1>2 DEF BrowserGoing, BrowserTyped, BrowserJarOK, Browser!Ask, Browser!Leave
    <2> QED BY <1>1, <2>1, <2>2
  <1>3. ASSUME tabs[b].pc = "sent", NEW a \in BrowserReplies', Browser!Answered(b, a)
        PROVE  \E r \in {Browser!Idle} \cup BrowserGoing' \cup BrowserComing' : tabs' = [tabs EXCEPT ![b] = r]
    <2>1. [pc |-> "answer", kind |-> tabs[b].kind, token |-> a] \in BrowserComing'
      BY <1>3, BrowserAtTab DEF BrowserComing, BrowserGoing
    <2> QED BY <1>3, <2>1, BrowserAnsweredTab
  <1>4. [is |-> "refused"] \in BrowserReplies' /\ [is |-> "error"] \in BrowserReplies'
    BY DEF BrowserReplies
  <1>5. CASE Browser!Issue(b)
    <2>1. [is |-> "token", token |-> handed + 1] \in BrowserReplies'
      BY <1>1, <1>5 DEF BrowserReplies, Browser!Issue, BrowserTyped, BrowserJarOK
    <2> QED BY <1>1, <1>3, <1>5, <2>1 DEF Browser!Issue
  <1>6. CASE Browser!Refused(b)
    BY <1>1, <1>3, <1>4, <1>6 DEF Browser!Refused
  <1>7. CASE Browser!Revoke(b)
    BY <1>1, <1>3, <1>4, <1>7 DEF Browser!Revoke
  <1>8. CASE Browser!Unreachable(b)
    BY <1>1, <1>3, <1>4, <1>8 DEF Browser!Unreachable
  <1>9. CASE Browser!Arrive(b) \/ Browser!Lost(b)
    BY <1>1, <1>9 DEF Browser!Arrive, Browser!Lost
  <1> QED BY <1>2, <1>5, <1>6, <1>7, <1>8, <1>9 DEF BrowserActs

\* Each operation keeps the types.
LEMMA BrowserKeepsTypes ==
  ASSUME Browser!SignOnAssumption, BrowserTyped, [Browser!Next]_Browser!vars PROVE BrowserTyped'
  <1> USE DEF Browser!SignOnAssumption
  <1>1. CASE UNCHANGED Browser!vars
    BY <1>1
       DEF BrowserTyped, BrowserJarOK, BrowserTokensOK, BrowserTabsOK, BrowserRestOK,
           BrowserGoing, BrowserComing, BrowserReplies, Browser!vars
  <1>2. CASE Browser!End
    <2>1. BrowserJarOK' /\ BrowserTokensOK' /\ BrowserRestOK'
      <3>1. UNCHANGED <<cookie, handed, session, tabs>> /\ live' \subseteq live
        BY <1>2 DEF Browser!End
      <3>2. BrowserRestOK'
        BY <1>2 DEF Browser!End, BrowserTyped, BrowserRestOK, Browser!Incident, Browser!Upsets
      <3> QED BY <3>1, <3>2 DEF BrowserTyped, BrowserJarOK, BrowserTokensOK
    <2>2. BrowserTabsOK'
      BY <1>2
         DEF Browser!End, BrowserTyped, BrowserTabsOK, BrowserGoing, BrowserComing, BrowserReplies
    <2> QED BY <2>1, <2>2 DEF BrowserTyped
  <1>3. ASSUME NEW b \in Tabs, BrowserActs(b) PROVE BrowserTyped'
    <2>1. handed' >= handed /\ handed' \in 0..MaxTokens
      BY <1>3, BrowserTabOf DEF BrowserTyped, BrowserJarOK
    <2>2. BrowserJarOK'
      <3>1. CASE Browser!Arrive(b)
        <4>1. tabs[b].token \in BrowserReplies
          BY <3>1, BrowserAtTab DEF Browser!Arrive, BrowserComing
        <4>2. tabs[b].token.is = "token" => tabs[b].token.token \in 0..handed
          BY <4>1 DEF BrowserReplies, BrowserTyped, BrowserJarOK
        <4> QED BY <2>1, <3>1, <4>2
                   DEF Browser!Arrive, Browser!Jar, BrowserTyped, BrowserJarOK, Browser!NoToken
      <3> QED BY <1>3, <2>1, <3>1
              DEF BrowserActs, Browser!Ask, Browser!Leave, Browser!Issue, Browser!Refused,
                  Browser!Revoke, Browser!Unreachable, Browser!Lost, BrowserTyped, BrowserJarOK
    <2>3. BrowserTokensOK'
      <3>1. CASE Browser!Issue(b)
        <4>1. tabs[b] \in BrowserGoing
          BY <3>1, BrowserAtTab DEF Browser!Issue
        <4>2. tabs[b].kind = "refresh" => tabs[b].token \in Browser!Tokens
          <5>1. live \subseteq Browser!Tokens
            BY DEF BrowserTyped, BrowserTokensOK, BrowserJarOK, Browser!Tokens
          <5> QED BY <3>1, <5>1 DEF Browser!Issue
        <4>3. handed + 1 \in Browser!Tokens
          BY <3>1 DEF Browser!Issue
        <4>4. session' \in [Browser!Tokens -> Browser!Tokens \cup {Browser!NoToken}]
          BY <3>1, <4>2, <4>3 DEF Browser!Issue, BrowserTyped, BrowserTokensOK
        <4>5. live' \subseteq 1..handed'
          <5>1. live \cup {handed + 1} \subseteq 1..handed + 1
            BY DEF BrowserTyped, BrowserTokensOK, BrowserJarOK
          <5>2. live' \subseteq live \cup {handed + 1} /\ handed' = handed + 1
            BY <3>1 DEF Browser!Issue
          <5> QED BY <5>1, <5>2
        <4> QED BY <4>4, <4>5 DEF BrowserTokensOK
      <3> QED BY <1>3, <2>1, <3>1
              DEF BrowserActs, Browser!Ask, Browser!Leave, Browser!Refused, Browser!Revoke,
                  Browser!Unreachable, Browser!Arrive, Browser!Lost, BrowserTyped, BrowserTokensOK
    <2>4. BrowserTabsOK'
      BY <1>3, <2>2, BrowserTabOf, BrowserTabsMove
    <2>5. BrowserRestOK'
      BY <1>3
         DEF BrowserActs, Browser!Ask, Browser!Leave, Browser!Issue, Browser!Refused,
             Browser!Revoke, Browser!Unreachable, Browser!Arrive, Browser!Lost, BrowserTyped,
             BrowserRestOK,
                  Browser!Incident, Browser!Upsets
    <2> QED BY <2>2, <2>3, <2>4, <2>5 DEF BrowserTyped
  <1> QED BY <1>1, <1>2, <1>3 DEF Browser!Next, BrowserActs

\* What holds of the one tab that is not idle holds of all.
LEMMA BrowserOthersIdle ==
  ASSUME BrowserTyped, BrowserCalm, NEW b \in Tabs, tabs[b] # Browser!Idle, NEW r,
         tabs' = [tabs EXCEPT ![b] = r]
  PROVE  /\ BrowserAlone'
         /\ \A c \in Tabs \ {b} : BrowserCarries(c)' /\ BrowserBrings(c)'
         /\ tabs'[b] = r
  <1>1. \A c \in Tabs \ {b} : tabs'[c] = Browser!Idle
    BY DEF BrowserCalm, BrowserAlone, BrowserTyped, BrowserTabsOK
  <1>2. tabs'[b] = r
    BY DEF BrowserTyped, BrowserTabsOK
  <1> QED BY <1>1, <1>2 DEF BrowserAlone, BrowserCarries, BrowserBrings, Browser!Idle

\* While nothing upsets the browser, its jar ends up good.
LEMMA BrowserKeepsCalm ==
  ASSUME Browser!SignOnAssumption, BrowserTyped, BrowserTyped', BrowserCalm,
         [Browser!Next]_Browser!vars, upset' = {}, upset = {}
  PROVE  BrowserCalm'
  <1>1. CASE UNCHANGED Browser!vars
    BY <1>1
       DEF BrowserCalm, BrowserAlone, BrowserJarGood, BrowserGood, BrowserCarries, BrowserBrings,
           Browser!vars
  <1>2. CASE Browser!End
    BY <1>2 DEF Browser!End
  <1>3. ASSUME NEW b \in Tabs, Browser!Ask(b) PROVE BrowserCalm'
    <2>1. PICK k \in {"callback", "refresh", "logout"} :
            Browser!Leave(b, k) /\ (k # "callback" => cookie # Browser!NoToken)
      BY <1>3 DEF Browser!Ask
    <2>2. k # "logout" /\ \A c \in Tabs : tabs[c] = Browser!Idle
      BY <2>1 DEF Browser!Leave
    <2>3. tabs' = [tabs EXCEPT ![b] = [pc |-> "sent", kind |-> k, token |-> cookie]]
      BY <2>1 DEF Browser!Leave
    <2>4. /\ \A c \in Tabs \ {b} : tabs'[c] = Browser!Idle
          /\ tabs'[b] = [pc |-> "sent", kind |-> k, token |-> cookie]
      BY <2>2, <2>3 DEF BrowserTyped, BrowserTabsOK
    <2>5. BrowserGood
      BY <2>2 DEF BrowserCalm, BrowserJarGood, Browser!Idle
    <2>6. k = "refresh" => cookie \in live
      BY <2>1, <2>5 DEF BrowserGood, BrowserTyped, BrowserJarOK, Browser!NoToken
    <2>7. UNCHANGED <<cookie, handed, live>>
      BY <2>1 DEF Browser!Leave
    <2>8. BrowserGood'
      BY <2>5, <2>7 DEF BrowserGood
    <2>9. BrowserCarries(b)' /\ BrowserBrings(b)'
      BY <2>2, <2>4, <2>6, <2>7 DEF BrowserCarries, BrowserBrings
    <2>10. \A c \in Tabs \ {b} : BrowserCarries(c)' /\ BrowserBrings(c)'
      BY <2>4 DEF BrowserCarries, BrowserBrings, Browser!Idle
    <2>11. BrowserAlone'
      BY <2>4 DEF BrowserAlone
    <2> QED BY <2>8, <2>9, <2>10, <2>11 DEF BrowserCalm, BrowserJarGood
  <1>4. ASSUME NEW b \in Tabs, Browser!Issue(b) PROVE BrowserCalm'
    <2> DEFINE a == [is |-> "token", token |-> handed + 1]
               r == [pc |-> "answer", kind |-> tabs[b].kind, token |-> a]
    <2>1. tabs' = [tabs EXCEPT ![b] = r]
      BY <1>4, BrowserAnsweredTab DEF Browser!Issue
    <2>2. tabs[b] # Browser!Idle
      BY <1>4 DEF Browser!Issue, Browser!Idle
    <2>3. BrowserAlone' /\ (\A c \in Tabs \ {b} : BrowserCarries(c)' /\ BrowserBrings(c)') /\ tabs'[b] = r
      BY <2>1, <2>2, BrowserOthersIdle
    <2>4. tabs[b].kind # "logout"
      BY <1>4 DEF Browser!Issue
    <2>5. handed + 1 \in live'
      BY <1>4 DEF Browser!Issue, BrowserTyped, BrowserJarOK, BrowserTokensOK
    <2>6. BrowserCarries(b)' /\ BrowserBrings(b)'
      BY <2>3, <2>4, <2>5 DEF BrowserCarries, BrowserBrings
    <2> QED BY <2>3, <2>6 DEF BrowserCalm, BrowserJarGood
  <1>5. ASSUME NEW b \in Tabs, Browser!Refused(b) PROVE FALSE
    BY <1>5 DEF Browser!Refused, BrowserCalm, BrowserCarries
  <1>6. ASSUME NEW b \in Tabs, Browser!Revoke(b) PROVE FALSE
    BY <1>6 DEF Browser!Revoke, BrowserCalm, BrowserCarries
  <1>7. ASSUME NEW b \in Tabs, Browser!Unreachable(b) PROVE BrowserCalm'
    <2> DEFINE r == [pc |-> "answer", kind |-> tabs[b].kind, token |-> [is |-> "error"]]
    <2>1. tabs' = [tabs EXCEPT ![b] = r]
      BY <1>7, BrowserAnsweredTab DEF Browser!Unreachable
    <2>2. tabs[b] # Browser!Idle
      BY <1>7 DEF Browser!Unreachable, Browser!Idle
    <2>3. BrowserAlone' /\ (\A c \in Tabs \ {b} : BrowserCarries(c)' /\ BrowserBrings(c)') /\ tabs'[b] = r
      BY <2>1, <2>2, BrowserOthersIdle
    <2>4. tabs[b].kind # "logout"
      BY <1>7 DEF Browser!Unreachable
    <2>5. BrowserCarries(b)' /\ BrowserBrings(b)'
      BY <2>3, <2>4 DEF BrowserCarries, BrowserBrings
    <2>6. \A c \in Tabs : tabs[c].pc # "answer"
      BY <1>7, <2>2 DEF Browser!Unreachable, BrowserCalm, BrowserAlone, Browser!Idle
    <2>7. BrowserGood'
      BY <1>7, <2>6 DEF Browser!Unreachable, BrowserCalm, BrowserJarGood, BrowserGood
    <2> QED BY <2>3, <2>5, <2>7 DEF BrowserCalm, BrowserJarGood
  <1>8. ASSUME NEW b \in Tabs, Browser!Arrive(b) PROVE BrowserCalm'
    <2>1. tabs[b] # Browser!Idle /\ tabs' = [tabs EXCEPT ![b] = Browser!Idle]
      BY <1>8 DEF Browser!Arrive, Browser!Idle
    <2>2. BrowserAlone' /\ (\A c \in Tabs \ {b} : BrowserCarries(c)' /\ BrowserBrings(c)') /\ tabs'[b] = Browser!Idle
      BY <2>1, BrowserOthersIdle
    <2>3. BrowserCarries(b)' /\ BrowserBrings(b)'
      BY <2>2 DEF BrowserCarries, BrowserBrings, Browser!Idle
    <2>4. BrowserBrings(b)
      BY DEF BrowserCalm
    <2>5. ASSUME tabs[b].token.is = "token" PROVE BrowserGood'
      <3>1. tabs[b].token.token \in live
        BY <1>8, <2>4, <2>5 DEF Browser!Arrive, BrowserBrings
      <3>2. cookie' = tabs[b].token.token /\ live' = live
        BY <1>8, <2>5 DEF Browser!Arrive, Browser!Jar
      <3> QED BY <3>1, <3>2 DEF BrowserGood
    <2>6. ASSUME tabs[b].token.is = "error" PROVE BrowserGood'
      <3>1. \A c \in Tabs : tabs[c].pc = "answer" => c = b
        BY <2>1 DEF BrowserCalm, BrowserAlone, Browser!Idle
      <3>2. BrowserGood
        BY <2>6, <3>1 DEF BrowserCalm, BrowserJarGood
      <3>3. cookie' = cookie /\ live' = live /\ handed' = handed
        BY <1>8, <2>4, <2>6 DEF Browser!Arrive, Browser!Jar, BrowserBrings
      <3> QED BY <3>2, <3>3 DEF BrowserGood
    <2>7. BrowserGood'
      BY <1>8, <2>4, <2>5, <2>6 DEF BrowserBrings, Browser!Arrive
    <2> QED BY <2>2, <2>3, <2>7 DEF BrowserCalm, BrowserJarGood
  <1>9. ASSUME NEW b \in Tabs, Browser!Lost(b) PROVE FALSE
    BY <1>9 DEF Browser!Lost
  <1> QED BY <1>1, <1>2, <1>3, <1>4, <1>5, <1>6, <1>7, <1>8, <1>9 DEF Browser!Next

LEMMA BrowserStepKeeps ==
  ASSUME Browser!SignOnAssumption, BrowserIInv, [Browser!Next]_Browser!vars PROVE BrowserIInv'
  <1>1. BrowserTyped'
    BY BrowserKeepsTypes DEF BrowserIInv
  <1>2. upset' = {} => upset = {}
    BY DEF Browser!Next, Browser!Ask, Browser!Leave, Browser!Issue, Browser!Refused,
         Browser!Revoke, Browser!Unreachable, Browser!Arrive, Browser!Lost, Browser!End,
         Browser!vars
  <1> QED BY <1>1, <1>2, BrowserKeepsCalm DEF BrowserIInv

LEMMA BrowserIInvAlways == ASSUME Browser!SignOnAssumption PROVE Browser!Spec => []BrowserIInv
  <1>1. Browser!Init => BrowserIInv
    BY BrowserInitIInv
  <1>2. BrowserIInv /\ [Browser!Next]_Browser!vars => BrowserIInv'
    BY BrowserStepKeeps
  <1> QED BY <1>1, <1>2, PTL DEF Browser!Spec

LEMMA BrowserTypesFollow == ASSUME Browser!SignOnAssumption, BrowserIInv PROVE Browser!TypeOK
  <1>1. \A b \in Tabs : tabs[b].pc \in {"idle", "sent", "answer"}
    BY DEF BrowserIInv, BrowserTyped, BrowserTabsOK, Browser!Idle, BrowserGoing, BrowserComing
  <1>2. BrowserReplies \subseteq Browser!Answers
    BY DEF BrowserReplies, Browser!Answers, Browser!Tokens, BrowserIInv, BrowserTyped,
         BrowserJarOK, Browser!SignOnAssumption
  <1>3. \A b \in Tabs : tabs[b].pc = "answer" => tabs[b].token \in Browser!Answers
    BY <1>2, BrowserAtTab DEF BrowserIInv, BrowserComing
  <1> QED BY <1>1, <1>3
             DEF BrowserIInv, BrowserTyped, BrowserJarOK, BrowserTokensOK, BrowserRestOK,
                 Browser!TypeOK, Browser!Tokens, Browser!NoToken, Browser!SignOnAssumption

LEMMA BrowserCookieGood == ASSUME BrowserIInv PROVE Browser!StaysSignedOn
  BY DEF BrowserIInv, BrowserCalm, BrowserJarGood, BrowserGood, Browser!StaysSignedOn,
       Browser!Idle

\* A behaviour of the back office is one of the part.
LEMMA BrowserRuns == Spec => Browser!Spec
  <1>1. Init => Browser!Init
    BY DEF Init
  <1>2. [Next]_vars => [Browser!Next]_Browser!vars
    BY DEF Next, Rest, vars, browserVars, Browser!vars
  <1> QED BY <1>1, <1>2, PTL DEF Spec, Browser!Spec

LEMMA BrowserAlwaysTyped == Spec => []Browser!TypeOK
  <1>1. Browser!SignOnAssumption
    BY BackOfficeAssumption
  <1>2. BrowserIInv => Browser!TypeOK
    BY <1>1, BrowserTypesFollow
  <1> QED BY <1>1, <1>2, BrowserRuns, BrowserIInvAlways, PTL

\* Whenever no call of a browser is under way, its cookie is the live token, although the broker
\* hands out a new one each time and fails at times, but for a logout, a revoked session, an
\* answer that was lost and requests that overlapped (SsoSessionController).
THEOREM BrowsersStaySignedOn == Spec => []StaysSignedOn
  <1>1. Browser!SignOnAssumption
    BY BackOfficeAssumption
  <1>2. BrowserIInv => StaysSignedOn
    BY BrowserCookieGood DEF StaysSignedOn
  <1> QED BY <1>1, <1>2, BrowserRuns, BrowserIInvAlways, PTL

-----------------------------------------------------------------------------
(* The rollout.                                                            *)

RolloutPodStates ==
  [pc : {"down", "serving"}] \cup [pc : {"files"}, left : SUBSET Rollout!Files]
  \cup [pc : {"functions"}, next : 1..(LastFunction + 1)]

RolloutTypes ==
  /\ recorded \subseteq Rollout!Files /\ effect \in [Rollout!Files -> Nat]
  /\ functions \in [1..LastFunction -> Rollout!Releases \cup {Rollout!NoRelease}]
  /\ pods \in [Pods -> RolloutPodStates]
  /\ boots \in 0..MaxBoots /\ overtaken \subseteq Pods

RolloutOnce == \A f \in Rollout!Files : effect[f] = IF f \in recorded THEN 1 ELSE 0

RolloutMine(p) == FilesOf[Image[p]]

\* What a pod has gone past of the numbered files is recorded.
RolloutFilesRun ==
  \A p \in Pods :
    /\ pods[p].pc = "files" => RolloutMine(p) \ pods[p].left \subseteq recorded
    /\ pods[p].pc \in {"functions", "serving"} => RolloutMine(p) \subseteq recorded

\* What a pod has applied of the functions is its own, unless it was overtaken.
RolloutFunctionsOwn ==
  \A p \in Pods \ overtaken : \A g \in 1..LastFunction :
    \/ pods[p].pc = "functions" /\ g < pods[p].next
    \/ pods[p].pc = "serving"
    => functions[g] = Image[p]

\* The inductive invariant.
RolloutIInv == RolloutTypes /\ RolloutOnce /\ RolloutFilesRun /\ RolloutFunctionsOwn

LEMMA RolloutInitIInv == ASSUME Rollout!MigrationsAssumption, Rollout!Init PROVE RolloutIInv
  <1>1. PICK r \in Rollout!Releases \cup {Rollout!NoRelease} :
          /\ recorded = IF r = Rollout!NoRelease THEN {} ELSE FilesOf[r]
          /\ functions = [g \in 1..LastFunction |-> r]
    BY DEF Rollout!Init
  <1>2. recorded \subseteq Rollout!Files
    BY <1>1 DEF Rollout!Files
  <1>3. RolloutTypes
    BY <1>1, <1>2
       DEF Rollout!Init, RolloutTypes, RolloutPodStates, Rollout!Down,
           Rollout!MigrationsAssumption
  <1>4. RolloutOnce
    BY DEF Rollout!Init, RolloutOnce
  <1>5. RolloutFilesRun /\ RolloutFunctionsOwn
    BY DEF Rollout!Init, RolloutFilesRun, RolloutFunctionsOwn, Rollout!Down
  <1> QED BY <1>3, <1>4, <1>5 DEF RolloutIInv

LEMMA RolloutPodSet ==
  ASSUME pods \in [Pods -> RolloutPodStates], NEW p \in Pods, NEW new \in RolloutPodStates,
         pods' = [pods EXCEPT ![p] = new]
  PROVE  pods' \in [Pods -> RolloutPodStates]
  OBVIOUS

LEMMA RolloutMineOK == ASSUME NEW p \in Pods PROVE RolloutMine(p) \subseteq Rollout!Files
  BY DEF RolloutMine, Rollout!Files, Rollout!Releases

LEMMA RolloutBootKeeps ==
  ASSUME Rollout!MigrationsAssumption, RolloutIInv, NEW p \in Pods, Rollout!Boot(p)
  PROVE  RolloutIInv'
  <1> DEFINE new == [pc |-> "files", left |-> RolloutMine(p) \ recorded]
  <1>1. pods' = [pods EXCEPT ![p] = new] /\ new \in RolloutPodStates
    BY RolloutMineOK DEF Rollout!Boot, RolloutMine, RolloutPodStates
  <1>2. RolloutTypes'
    <2>1. pods' \in [Pods -> RolloutPodStates]
      BY <1>1, RolloutPodSet DEF RolloutIInv, RolloutTypes
    <2>2. boots' \in 0..MaxBoots
      BY DEF RolloutIInv, RolloutTypes, Rollout!Boot, Rollout!MigrationsAssumption
    <2> QED BY <2>1, <2>2 DEF RolloutIInv, RolloutTypes, Rollout!Boot
  <1>3. RolloutOnce' /\ RolloutFilesRun'
    BY <1>1 DEF RolloutIInv, RolloutTypes, RolloutOnce, RolloutFilesRun, Rollout!Boot, RolloutMine
  <1>4. RolloutFunctionsOwn'
    BY <1>1 DEF RolloutIInv, RolloutTypes, RolloutFunctionsOwn, Rollout!Boot
  <1> QED BY <1>2, <1>3, <1>4 DEF RolloutIInv

LEMMA RolloutRunFileKeeps ==
  ASSUME Rollout!MigrationsAssumption, RolloutIInv, NEW p \in Pods, NEW f \in Rollout!Files,
         Rollout!RunFile(p, f)
  PROVE  RolloutIInv'
  <1>1. pods[p] \in [pc : {"files"}, left : SUBSET Rollout!Files]
    BY DEF Rollout!RunFile, Rollout!IsNext, RolloutIInv, RolloutTypes, RolloutPodStates
  <1> DEFINE new == [pc |-> "files", left |-> pods[p].left \ {f}]
  <1>2. pods' = [pods EXCEPT ![p] = new] /\ new \in RolloutPodStates
    BY <1>1 DEF Rollout!RunFile, RolloutPodStates
  <1>3. RolloutTypes'
    <2>1. pods' \in [Pods -> RolloutPodStates]
      BY <1>2, RolloutPodSet DEF RolloutIInv, RolloutTypes
    <2>2. recorded' \subseteq Rollout!Files /\ effect' \in [Rollout!Files -> Nat]
      BY DEF Rollout!RunFile, RolloutIInv, RolloutTypes
    <2> QED BY <2>1, <2>2 DEF Rollout!RunFile, RolloutIInv, RolloutTypes
  <1>4. RolloutOnce'
    BY DEF Rollout!RunFile, Rollout!IsNext, RolloutIInv, RolloutTypes, RolloutOnce
  <1>5. RolloutFilesRun'
    <2> SUFFICES ASSUME NEW q \in Pods
                 PROVE  /\ pods'[q].pc = "files" => RolloutMine(q) \ pods'[q].left \subseteq recorded'
                        /\ pods'[q].pc \in {"functions", "serving"} => RolloutMine(q) \subseteq recorded'
      BY DEF RolloutFilesRun, RolloutMine
    <2>1. /\ pods[q].pc = "files" => RolloutMine(q) \ pods[q].left \subseteq recorded
          /\ pods[q].pc \in {"functions", "serving"} => RolloutMine(q) \subseteq recorded
      BY DEF RolloutIInv, RolloutFilesRun
    <2>2. recorded' = recorded \cup {f}
      BY DEF Rollout!RunFile
    <2>3. CASE q # p
      <3>1. pods'[q] = pods[q]
        BY <1>2, <2>3 DEF RolloutIInv, RolloutTypes
      <3> QED BY <2>1, <2>2, <3>1
    <2>4. CASE q = p
      <3>1. pods'[q] = new /\ pods[q].pc = "files"
        BY <1>1, <1>2, <2>4 DEF RolloutIInv, RolloutTypes
      <3> QED BY <2>1, <2>2, <2>4, <3>1
    <2> QED BY <2>3, <2>4
  <1>6. RolloutFunctionsOwn'
    BY <1>2 DEF Rollout!RunFile, RolloutIInv, RolloutTypes, RolloutFunctionsOwn
  <1> QED BY <1>3, <1>4, <1>5, <1>6 DEF RolloutIInv

LEMMA RolloutFilesDoneKeeps ==
  ASSUME Rollout!MigrationsAssumption, RolloutIInv, NEW p \in Pods, Rollout!FilesDone(p)
  PROVE  RolloutIInv'
  <1> DEFINE new == [pc |-> "functions", next |-> 1]
  <1>1. pods' = [pods EXCEPT ![p] = new] /\ new \in RolloutPodStates
    BY DEF Rollout!FilesDone, RolloutPodStates, Rollout!MigrationsAssumption
  <1>2. RolloutTypes'
    BY <1>1 DEF Rollout!FilesDone, RolloutIInv, RolloutTypes
  <1>3. RolloutOnce' /\ RolloutFilesRun'
    BY <1>1
       DEF Rollout!FilesDone, RolloutIInv, RolloutTypes, RolloutOnce, RolloutFilesRun, RolloutMine
  <1>4. RolloutFunctionsOwn'
    BY <1>1 DEF Rollout!FilesDone, RolloutIInv, RolloutTypes, RolloutFunctionsOwn
  <1> QED BY <1>2, <1>3, <1>4 DEF RolloutIInv

LEMMA RolloutApplyKeeps ==
  ASSUME Rollout!MigrationsAssumption, RolloutIInv, NEW p \in Pods, Rollout!Apply(p)
  PROVE  RolloutIInv'
  <1>1. pods[p] \in [pc : {"functions"}, next : 1..(LastFunction + 1)]
    BY DEF Rollout!Apply, RolloutIInv, RolloutTypes, RolloutPodStates
  <1> DEFINE n == pods[p].next
             new == [pc |-> "functions", next |-> n + 1]
  <1>2. n \in 1..LastFunction
    BY <1>1 DEF Rollout!Apply, Rollout!MigrationsAssumption
  <1>3. pods' = [pods EXCEPT ![p] = new] /\ new \in RolloutPodStates
    <2>1. n + 1 \in 1..(LastFunction + 1)
      BY <1>2 DEF Rollout!MigrationsAssumption
    <2> QED BY <2>1 DEF Rollout!Apply, RolloutPodStates
  <1>4. functions' = [functions EXCEPT ![n] = Image[p]] /\ Image[p] \in Rollout!Releases
    BY DEF Rollout!Apply, Rollout!Releases
  <1>5. RolloutTypes'
    BY <1>3, <1>4 DEF Rollout!Apply, RolloutIInv, RolloutTypes
  <1>6. RolloutOnce' /\ RolloutFilesRun'
    BY <1>1, <1>3
       DEF Rollout!Apply, RolloutIInv, RolloutTypes, RolloutOnce, RolloutFilesRun, RolloutMine
  <1>7. RolloutFunctionsOwn'
    <2> SUFFICES ASSUME NEW q \in Pods, q \notin overtaken', NEW g \in 1..LastFunction,
                        \/ pods'[q].pc = "functions" /\ g < pods'[q].next
                        \/ pods'[q].pc = "serving"
                 PROVE  functions'[g] = Image[q]
      BY DEF RolloutFunctionsOwn
    <2>1. q \notin overtaken /\ (pods[q] = Rollout!Down \/ Image[q] = Image[p])
      BY DEF Rollout!Apply
    <2>2. functions'[g] = IF g = n THEN Image[p] ELSE functions[g]
      BY <1>4 DEF RolloutIInv, RolloutTypes
    <2>3. CASE q = p
      BY <1>1, <1>2, <1>3, <2>1, <2>2, <2>3
         DEF RolloutIInv, RolloutTypes, RolloutFunctionsOwn, Rollout!MigrationsAssumption
    <2>4. CASE q # p
      BY <1>3, <2>1, <2>2, <2>4 DEF RolloutIInv, RolloutTypes, RolloutFunctionsOwn, Rollout!Down
    <2> QED BY <2>3, <2>4
  <1> QED BY <1>5, <1>6, <1>7 DEF RolloutIInv

LEMMA RolloutServeKeeps ==
  ASSUME Rollout!MigrationsAssumption, RolloutIInv, NEW p \in Pods, Rollout!Serve(p)
  PROVE  RolloutIInv'
  <1>1. pods[p] \in [pc : {"functions"}, next : 1..(LastFunction + 1)]
    BY DEF Rollout!Serve, RolloutIInv, RolloutTypes, RolloutPodStates
  <1> DEFINE new == [pc |-> "serving"]
  <1>2. pods' = [pods EXCEPT ![p] = new] /\ new \in RolloutPodStates
    BY DEF Rollout!Serve, RolloutPodStates
  <1>3. RolloutTypes'
    BY <1>2 DEF Rollout!Serve, RolloutIInv, RolloutTypes
  <1>4. RolloutOnce' /\ RolloutFilesRun'
    BY <1>2
       DEF Rollout!Serve, RolloutIInv, RolloutTypes, RolloutOnce, RolloutFilesRun, RolloutMine
  <1>5. RolloutFunctionsOwn'
    BY <1>1, <1>2
       DEF Rollout!Serve, RolloutIInv, RolloutTypes, RolloutFunctionsOwn,
           Rollout!MigrationsAssumption
  <1> QED BY <1>3, <1>4, <1>5 DEF RolloutIInv

LEMMA RolloutStepKeeps ==
  ASSUME Rollout!MigrationsAssumption, RolloutIInv, [Rollout!Next]_Rollout!vars PROVE RolloutIInv'
  <1>1. ASSUME NEW p \in Pods, Rollout!Boot(p) PROVE RolloutIInv'
    BY <1>1, RolloutBootKeeps
  <1>2. ASSUME NEW p \in Pods, NEW f \in Rollout!Files, Rollout!RunFile(p, f) PROVE RolloutIInv'
    BY <1>2, RolloutRunFileKeeps
  <1>3. ASSUME NEW p \in Pods, Rollout!FilesDone(p) PROVE RolloutIInv'
    BY <1>3, RolloutFilesDoneKeeps
  <1>4. ASSUME NEW p \in Pods, Rollout!Apply(p) PROVE RolloutIInv'
    BY <1>4, RolloutApplyKeeps
  <1>5. ASSUME NEW p \in Pods, Rollout!Serve(p) PROVE RolloutIInv'
    BY <1>5, RolloutServeKeeps
  <1>6. ASSUME NEW p \in Pods, Rollout!Exit(p) PROVE RolloutIInv'
    <2>1. pods' = [pods EXCEPT ![p] = Rollout!Down] /\ Rollout!Down \in RolloutPodStates
      BY <1>6 DEF Rollout!Exit, Rollout!Down, RolloutPodStates
    <2> QED BY <1>6, <2>1
               DEF Rollout!Exit, Rollout!Down, RolloutIInv, RolloutTypes, RolloutOnce,
                   RolloutFilesRun, RolloutFunctionsOwn, RolloutMine
  <1>7. CASE UNCHANGED Rollout!vars
    BY <1>7
       DEF Rollout!vars, RolloutIInv, RolloutTypes, RolloutOnce, RolloutFilesRun,
           RolloutFunctionsOwn, RolloutMine
  <1> QED BY <1>1, <1>2, <1>3, <1>4, <1>5, <1>6, <1>7 DEF Rollout!Next

LEMMA RolloutIInvAlways == ASSUME Rollout!MigrationsAssumption PROVE Rollout!Spec => []RolloutIInv
  <1>1. Rollout!Init => RolloutIInv
    BY RolloutInitIInv
  <1>2. RolloutIInv /\ [Rollout!Next]_Rollout!vars => RolloutIInv'
    BY RolloutStepKeeps
  <1> QED BY <1>1, <1>2, PTL DEF Rollout!Spec

\* The database and the pods stay well formed (migrate.ts).
LEMMA RolloutTypesKept ==
  ASSUME Rollout!MigrationsAssumption PROVE Rollout!Spec => []Rollout!TypeOK
  <1>1. RolloutIInv => Rollout!TypeOK
    BY DEF RolloutIInv, RolloutTypes, RolloutPodStates, Rollout!TypeOK
  <1> QED BY <1>1, RolloutIInvAlways, PTL

\* However many pods of however many releases boot, fail and are restarted, each file takes
\* effect once, and who serves has the schema and, unless overtaken, the functions of its own
\* release (migrate.ts).
LEMMA RolloutSchemaServed ==
  ASSUME Rollout!MigrationsAssumption PROVE Rollout!Spec => []Rollout!ServesItsSchema
  <1>1. RolloutIInv => Rollout!ServesItsSchema
    BY DEF RolloutIInv, RolloutTypes, RolloutOnce, RolloutFilesRun, RolloutFunctionsOwn,
         Rollout!ServesItsSchema, RolloutMine
  <1> QED BY <1>1, RolloutIInvAlways, PTL

\* A behaviour of the back office is one of the part.
LEMMA RolloutRuns == Spec => Rollout!Spec
  <1>1. Init => Rollout!Init
    BY DEF Init
  <1>2. [Next]_vars => [Rollout!Next]_Rollout!vars
    BY DEF Next, Rest, vars, rolloutVars, Rollout!vars
  <1> QED BY <1>1, <1>2, PTL DEF Spec, Rollout!Spec

LEMMA RolloutAlwaysTyped == Spec => []Rollout!TypeOK
  <1>1. Rollout!MigrationsAssumption
    BY BackOfficeAssumption
  <1> QED BY <1>1, RolloutRuns, RolloutTypesKept, PTL

\* However pods of several releases boot, fail and restart, a file takes effect once and a pod
\* serves its own schema and, unless overtaken, its own functions (migrate.ts).
THEOREM PodsServeTheirSchema == Spec => []ServesItsSchema
  <1>1. Rollout!MigrationsAssumption
    BY BackOfficeAssumption
  <1>2. Rollout!ServesItsSchema => ServesItsSchema
    BY DEF ServesItsSchema
  <1> QED BY <1>1, <1>2, RolloutRuns, RolloutSchemaServed, PTL

-----------------------------------------------------------------------------
(* The whole.                                                              *)

\* The state of every part keeps its types, whichever part is followed.
THEOREM BackOfficeTyped == Spec => []TypeOK
  BY SpxAlwaysTyped, RolloutAlwaysTyped, ParcelsAlwaysTyped, GuardsAlwaysTyped,
       NoticesAlwaysTyped, BrowserAlwaysTyped, ShopAlwaysTyped, StoreAlwaysTyped, BookAlwaysTyped,
       PhotosAlwaysTyped, PlacesAlwaysTyped, DayAlwaysTyped, PTL DEF TypeOK
=============================================================================
