---------------------------- MODULE AddressMatch -----------------------------
(***************************************************************************)
(* Free addresses become places of the catalogue: createNewMatcher and     *)
(* createOldMatcher over the two catalogues (province and ward; state,     *)
(* city and ward), and the batch calls of SpxAddressService and            *)
(* SpxAddressOldService, which ask a model for what the rules left open    *)
(* and then let it choose, level by level, from the list below what is     *)
(* known.  The model may fail, leave lines out and name other places.      *)
(***************************************************************************)
EXTENDS Naturals, Sequences, FiniteSetsExt

CONSTANTS
  Tables,   \* of a scheme, for each level: the rows <<place above, place>>, in their order
  BareName, \* of a place: its name without "phuong", "xa", "tinh" ...
  Letters,   \* of a name, in full or bare
  Hints,    \* of a scheme: keys of the first level that are other names or old districts
  Texts,    \* of a scheme: the addresses, each the sequence of the names it mentions
  Said,     \* of a scheme, for each level: what the model may name (a bound)
  NoPlace, Root

Batch == 1..2  \* the addresses of a call

Schemes == {"new", "old"}
Height(s) == IF s = "new" THEN 2 ELSE 3  \* how many levels there are
IsList(s) == s \in Seq({s[i] : i \in DOMAIN s})
Stripped(name) == IF name \in DOMAIN BareName THEN BareName[name] ELSE name

MatchAssumption ==
  /\ DOMAIN Tables = Schemes /\ NoPlace # Root
  /\ \A s \in Schemes :
       /\ DOMAIN Tables[s] = 1..Height(s)
       /\ \A l \in DOMAIN Tables[s] :
            /\ IsList(Tables[s][l])
            /\ \A r \in DOMAIN Tables[s][l] :
                 /\ NoPlace \notin {Tables[s][l][r][1], Tables[s][l][r][2]}
                 /\ Tables[s][l][r] = <<Tables[s][l][r][1], Tables[s][l][r][2]>>
                 /\ Letters[Tables[s][l][r][2]] \in Nat
                 /\ Letters[Stripped(Tables[s][l][r][2])] \in Nat
       /\ IsFiniteSet(Hints[s])
       /\ \A k \in Hints[s] :
            /\ k.len \in Nat /\ k.at \in Nat
            /\ \E r \in DOMAIN Tables[s][1] : Tables[s][1][r][2] = k.place
       /\ \A t \in Texts[s] : IsList(t)

VARIABLES
  scheme, texts,
  found,    \* resolved: the places of each address, NoPlace for a level that is open
  tier,     \* 0 the rules, 1 the model from memory, l > 1 the model from the list of level l
  missing,  \* missIdx, cityMiss, wardMiss: the addresses the model is asked about
  line,     \* the line of its answer that is read next
  strayed   \* the addresses for which the model named another place than the rules read

vars == <<scheme, texts, found, tier, missing, line, strayed>>

Levels == 1..Height(scheme)
Done == Height(scheme) + 1

\* wardsByState, citiesByState, wardsByCity: the rows of what lies below a place.
Below(l, above) == {i \in DOMAIN Tables[scheme][l] : Tables[scheme][l][i][1] = above}
Place(l, row) == Tables[scheme][l][row][2]

\* The keys of the places below another: their names in full, and bare.
Key(phrase, l, row) ==
  [phrase |-> phrase, place |-> Place(l, row), len |-> Letters[phrase], at |-> row]
Full(l, above) == {Key(Place(l, row), l, row) : row \in Below(l, above)}
Bare(l, above) == {Key(Stripped(Place(l, row)), l, row) : row \in Below(l, above)}

\* bestPhrase: of the keys a text holds the longest, of these the last in the text.
Mentions(text, k) == {i \in DOMAIN text : k.phrase \in {text[i], Stripped(text[i])}}
Beats(text, k, j) ==
  LET last == Max(Mentions(text, k))
      other == Max(Mentions(text, j))
  IN \/ k.len > j.len
     \/ k.len = j.len /\ last > other
     \/ k.len = j.len /\ last = other /\ k.at <= j.at
Best(text, keys) ==
  LET held == {k \in keys : Mentions(text, k) # {}}
      winners == {k \in held : \A j \in held : Beats(text, k, j)}
  IN IF held = {} THEN NoPlace ELSE (CHOOSE k \in winners : TRUE).place

Or(a, b) == IF a # NoPlace THEN a ELSE b

\* matchProvince, matchState, matchCity, matchWard.  A ward of the new scheme is looked for
\* by its full name first, for its bare one is often that of an old district.
Match(l, above, text) ==
  IF scheme = "new" /\ l = 2
  THEN Or(Best(text, Full(l, above)), Best(text, Bare(l, above)))
  ELSE Best(text, Full(l, above) \cup Bare(l, above) \cup (IF l = 1 THEN Hints[scheme] ELSE {}))

\* A place for each level, each picked below the one before, as far as there is one.
resolve(text) ==
  LET place[l \in Levels] ==
        LET above == IF l = 1 THEN Root ELSE place[l - 1]
        IN IF above = NoPlace THEN NoPlace ELSE Match(l, above, text)
  IN place

\* snapProvince, snapState, snapCity, snapWard: the first of the list that has the name, in
\* full or bare; or the best key in what was said.
SnapOne(l, above, name) ==
  LET same == {row \in Below(l, above) :
                 name = Place(l, row) \/ Stripped(name) = Stripped(Place(l, row))}
  IN IF name = NoPlace THEN NoPlace
     ELSE IF same # {} THEN Place(l, Min(same)) ELSE Match(l, above, <<name>>)

\* snap: what the model said, with the address itself for what it did not say.
snap(said, text) ==
  LET place[l \in Levels] ==
        LET above == IF l = 1 THEN Root ELSE place[l - 1]
        IN IF above = NoPlace THEN NoPlace
           ELSE Or(SnapOne(l, above, said[l]), Match(l, above, text))
  IN place

-----------------------------------------------------------------------------
Init ==
  /\ scheme \in Schemes
  /\ texts \in [Batch -> Texts[scheme]]
  /\ found = [i \in Batch |-> [l \in Levels |-> NoPlace]]
  /\ tier = 0 /\ missing = <<>> /\ line = 0 /\ strayed = {}

\* The rules; without the model the call ends with them.
Rules ==
  /\ tier = 0
  /\ found' = [i \in Batch |-> resolve(texts[i])]
  /\ tier' \in {1, Done}
  /\ UNCHANGED <<scheme, texts, missing, line, strayed>>

\* An address with an open level; in a later tier, one whose level is the first that is open,
\* and has a list to choose from.
Open(i) ==
  IF tier = 1 THEN \E l \in Levels : found[i][l] = NoPlace
  ELSE /\ found[i][tier] = NoPlace /\ found[i][tier - 1] # NoPlace
       /\ \A l \in 1..(tier - 1) : found[i][l] # NoPlace
       /\ Below(tier, found[i][tier - 1]) # {}
\* They are numbered in the order of the call.
OpenOnes ==
  CHOOSE s \in {<<>>, <<1>>, <<2>>, <<1, 2>>} :
    {s[k] : k \in DOMAIN s} = {i \in Batch : Open(i)}

Running == tier \in Levels /\ missing = <<>>

\* The model is asked, and answers.
Ask ==
  /\ Running /\ \E i \in Batch : Open(i) /\ (tier = 1 => texts[i] # <<>>)
  /\ missing' = OpenOnes /\ line' = 1
  /\ UNCHANGED <<scheme, texts, found, tier, strayed>>

\* Nothing is open (or only blank addresses), or the call fails: what is found stands.
Skip ==
  /\ Running /\ tier' = tier + 1
  /\ UNCHANGED <<scheme, texts, found, missing, line, strayed>>

\* (A mistake: the lines of the answer are taken for those of the call.)
Subject_OfCall(k) == k

\* oi: the address line k of the question is about.
Subject(k) == missing[k]

\* A line of the answer has been read.
Read ==
  /\ IF line = Len(missing)
     THEN missing' = <<>> /\ line' = 0 /\ tier' = tier + 1
     ELSE line' = line + 1 /\ UNCHANGED <<missing, tier>>
  /\ UNCHANGED <<scheme, texts>>

\* The model left a line out.
ReadNothing == missing # <<>> /\ Read /\ UNCHANGED <<found, strayed>>

\* From memory: the rules' places stand, the open ones are the model's.
ReadMemory ==
  /\ missing # <<>> /\ tier = 1
  /\ LET i == Subject(line)
     IN \E said \in {s \in [Levels -> UNION {Said[scheme][l] : l \in Levels}] :
                       \A l \in Levels : s[l] \in Said[scheme][l]} :
          LET snapped == snap(said, texts[i])
          IN /\ found' = [found EXCEPT ![i] = [l \in Levels |-> Or(@[l], snapped[l])]]
             /\ strayed' = IF \E l \in Levels : /\ found[i][l] # NoPlace
                                                /\ snapped[l] \notin {found[i][l], NoPlace}
                           THEN strayed \cup {i} ELSE strayed
  /\ Read

\* From the list: a name of it, or not.
ReadChoice ==
  /\ missing # <<>> /\ tier > 1
  /\ LET i == Subject(line)
     IN \E name \in Said[scheme][tier] :
          found' = [found EXCEPT ![i][tier] = Or(SnapOne(tier, found[i][tier - 1], name), @)]
  /\ Read /\ UNCHANGED strayed

Next == Rules \/ Ask \/ Skip \/ ReadNothing \/ ReadMemory \/ ReadChoice

Spec == Init /\ [][Next]_vars

-----------------------------------------------------------------------------
\* What is found are places of the level, and the model is asked about open addresses.
TypeOK ==
  /\ scheme \in Schemes /\ texts \in [Batch -> Texts[scheme]]
  /\ \A i \in Batch, l \in Levels :
       found[i][l] = NoPlace
       \/ \E r \in DOMAIN Tables[scheme][l] : Place(l, r) = found[i][l]
  /\ tier \in 0..Done /\ line \in 0..Len(missing) /\ strayed \subseteq Batch

\* What the rules read of an address stands, whatever the model says of it or of the others;
\* and the levels lie one below the other in the catalogue, unless the model named another
\* place than the rules had read.
OnePlace ==
  \A i \in Batch :
    /\ tier > 0 =>
         LET read == resolve(texts[i])
         IN \A l \in Levels : read[l] # NoPlace => found[i][l] = read[l]
    /\ i \notin strayed =>
         \A l \in Levels \ {1} :
           found[i][l] # NoPlace =>
             \E r \in DOMAIN Tables[scheme][l] :
               Tables[scheme][l][r] = <<found[i][l - 1], found[i][l]>>
=============================================================================
